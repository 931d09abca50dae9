------------------------- MODULE DaemonLifeProofs ---------------------------
(***************************************************************************)
(* The serving daemon owns the endpoint and the state file, for any number *)
(* of callers and daemons.  OwnerInv is inductive with the types: between  *)
(* taking and giving back instance.lock a daemon is alone, so what it put  *)
(* at the endpoint and into the state file is still there.                 *)
(*                                                                         *)
(* Its pool of runtimes is accounted for and bounded, for any calls, keys, *)
(* clients and max_workers.  PoolInv ties a pooled client to its key,      *)
(* keeps the key of a client while a call has it, and says that only       *)
(* Kotlin clients are dropped under a call.                                *)
(***************************************************************************)
EXTENDS DaemonStart, RuntimePool, FiniteSetTheorems, WellFoundedInduction, TLAPS

(* DaemonStart                                                             *)

Inv == TypeOK /\ OwnerInv

\* The initial states satisfy the invariant.
LEMMA InvInit == Init => Inv
  <1> SUFFICES ASSUME Init PROVE Inv
      OBVIOUS
  <1>1. TypeOK
    BY StartAssumption DEF Init, TypeOK, CallerSteps, DaemonSteps, Nothing
  <1>2. OwnerInv
    BY StartAssumption DEF Init, OwnerInv, Owning, Listening
  <1> QED BY <1>1, <1>2 DEF Inv

\* A caller changes of the daemons only which of them have been launched or
\* asked to stop.
LEMMA CallerTypes ==
    ASSUME TypeOK, NEW c \in Callers, CallerNext(c) \/ CallerDies(c) PROVE TypeOK'
  <1> USE StartAssumption DEF TypeOK
  <1>a. ASSUME NEW step \in CallerSteps, CallerTo(c, step)
        PROVE callerAt' \in [Callers -> CallerSteps]
    BY Zenon, <1>a DEF CallerTo
  <1>b. ASSUME NEW kind \in {"none", "already", "started", "failed"}, NEW d \in Daemons \cup {None},
               Report(c, kind, d)
        PROVE result' \in [Callers -> [kind : {"none", "already", "started", "failed"}, daemon : Daemons \cup {None}]]
    BY <1>b DEF Report
  <1>c. CallerSteps = {"idle", "lock", "probe", "load", "reject", "spawn", "poll", "unlock", "end"}
    BY DEF CallerSteps
  <1>d. {"boot", "stopping"} \subseteq DaemonSteps
    BY DEF DaemonSteps, Owning
  <1>e. Fault => faults' \in 0..MaxFaults
    BY DEF Fault
  <1>f. CASE Probe(c)
    BY Zenon, <1>f, <1>a, <1>c, <1>e DEF Probe, daemonVars
  <1>1. CASE Begin(c) \/ TakeStart(c) \/ Unlock(c)
    BY Zenon, <1>1, <1>a, <1>c DEF Begin, TakeStart, Unlock, daemonVars, StartLease!Take, StartLease!GiveBack
  <1>2. CASE BeginRestart(c)
    <2>1. callerAt' \in [Callers -> CallerSteps]
      BY Zenon, <1>2, <1>a, <1>c DEF BeginRestart
    <2>2. CASE ~Answers
      BY Zenon, <1>2, <2>1, <2>2 DEF BeginRestart
    <2>3. CASE Answers
      <3>1. sock \in Daemons /\ old' = [old EXCEPT ![c] = sock]
        BY <1>2, <2>3 DEF BeginRestart, Answers
      <3>2. daemonAt' \in [Daemons -> DaemonSteps]
        BY Zenon, <1>2, <2>3, <3>1, <1>d DEF BeginRestart, DaemonTo
      <3> QED BY Zenon, <1>2, <2>1, <3>1, <3>2 DEF BeginRestart
    <2> QED BY Zenon, <2>2, <2>3
  <1>g. CASE StartBusy(c) \/ PollTimeout(c)
    BY Zenon, <1>g, <1>a, <1>b, <1>c, <1>e DEF StartBusy, PollTimeout, daemonVars
  <1>3. CASE Load(c) \/ Reject(c) \/ Poll(c)
    BY Zenon, <1>3, <1>a, <1>b, <1>c DEF Load, Reject, Poll, daemonVars, Answers
  <1>4. CASE SpawnDaemon(c)
    BY ZenonT(60), <1>4, <1>a, <1>c, <1>d DEF SpawnDaemon, DaemonTo
  <1>5. CASE SpawnFails(c)
    BY <1>5, <1>a, <1>b, <1>c DEF SpawnFails, Fault, daemonVars
  <1>6. CASE CallerDies(c)
    BY <1>6, <1>a, <1>c DEF CallerDies, Fault, daemonVars
  <1> QED BY Zenon, <1>f, <1>g, <1>1, <1>2, <1>3, <1>4, <1>5, <1>6 DEF CallerNext

\* Daemons keep the types.
LEMMA DaemonTypes ==
    ASSUME TypeOK, NEW d \in Daemons,
           DaemonNext(d) \/ InitFails(d) \/ SaveFails(d) \/ Stop(d) \/ Succeed(d) \/ DaemonDies(d)
    PROVE  TypeOK'
  <1> USE StartAssumption DEF TypeOK, callerVars
  <1>a. ASSUME NEW step \in DaemonSteps, DaemonTo(d, step)
        PROVE daemonAt' \in [Daemons -> DaemonSteps]
    BY Zenon, <1>a DEF DaemonTo
  <1>b. Owning \cup {"new", "boot", "exiting", "dead"} = DaemonSteps
    BY DEF DaemonSteps
  <1>1. CASE TakeInstance(d) \/ InstanceBusy(d) \/ RejectOwner(d) \/ DialEndpoint(d)
    BY Zenon, <1>1, <1>a, <1>b DEF TakeInstance, InstanceBusy, RejectOwner, DialEndpoint, Owning, InstanceLease!Take
  <1>2. CASE RemoveEndpoint(d) \/ Bind(d) \/ SaveBegin(d) \/ SaveEnd(d) \/ UndoListener(d)
    BY Zenon, <1>2, <1>a, <1>b DEF RemoveEndpoint, Bind, SaveBegin, SaveEnd, UndoListener, Owning
  <1>3. CASE UndoLease(d) \/ ClearState(d) \/ CloseListener(d) \/ CloseLease(d) \/ Exit(d)
    BY Zenon, <1>3, <1>a, <1>b DEF UndoLease, ClearState, CloseListener, CloseLease, Exit, Owning, InstanceLease!GiveBack
  <1>4. CASE InitFails(d) \/ SaveFails(d) \/ DaemonDies(d)
    BY <1>4, <1>a, <1>b DEF InitFails, SaveFails, DaemonDies, Fault, Owning
  <1>5. CASE Stop(d)
    BY <1>5, <1>a, <1>b DEF Stop, Owning
  <1>6. CASE Succeed(d)
    BY <1>6, <1>b DEF Succeed
  <1> QED BY Zenon, <1>1, <1>2, <1>3, <1>4, <1>5, <1>6 DEF DaemonNext

\* A caller launches daemons, which own nothing yet, and stops the one that
\* serves; it touches neither endpoint nor state file.
LEMMA CallerKeepsOwner ==
    ASSUME Inv, NEW c \in Callers, CallerNext(c) \/ CallerDies(c) PROVE OwnerInv'
  <1> USE DEF Inv, TypeOK, OwnerInv
  <1>1. CASE UNCHANGED daemonVars
    BY Zenon, <1>1 DEF daemonVars, Owning, Listening
  <1>2. CASE SpawnDaemon(c)
    BY <1>2 DEF SpawnDaemon, DaemonTo, Owning, Listening
  <1>3. CASE BeginRestart(c)
    <2>1. CASE ~Answers
      BY Zenon, <1>3, <2>1 DEF BeginRestart, Owning, Listening
    <2>2. CASE Answers
      <3>1. sock \in Daemons
        BY Zenon, <2>2 DEF Answers
      <3>2. daemonAt' = [daemonAt EXCEPT ![sock] = IF daemonAt[sock] = "serving" THEN "stopping" ELSE daemonAt[sock]]
        BY <1>3, <2>2 DEF BeginRestart, DaemonTo
      <3> QED BY ZenonT(60), <1>3, <3>1, <3>2 DEF BeginRestart, Owning, Listening
    <2> QED BY Zenon, <2>1, <2>2
  <1> QED BY Zenon, <1>1, <1>2, <1>3
          DEF CallerNext, Begin, TakeStart, StartBusy, Probe, Load, Reject, SpawnFails, Poll, PollTimeout,
              Unlock, CallerDies

\* One daemon's step: it is the owner, or it changes nothing the owner relies on.
LEMMA DaemonKeepsOwner ==
    ASSUME Inv, NEW d \in Daemons,
           DaemonNext(d) \/ InitFails(d) \/ SaveFails(d) \/ Stop(d) \/ Succeed(d) \/ DaemonDies(d)
    PROVE  OwnerInv'
  <1> USE StartAssumption DEF Inv, TypeOK, OwnerInv, DaemonTo, Owning, Listening
  <1>1. CASE TakeInstance(d)
    BY Zenon, <1>1 DEF TakeInstance, InstanceLease!Take
  <1>2. CASE InstanceBusy(d) \/ RejectOwner(d) \/ DialEndpoint(d)
    BY <1>2 DEF InstanceBusy, RejectOwner, DialEndpoint
  <1>3. CASE RemoveEndpoint(d)
    BY ZenonT(60), <1>3 DEF RemoveEndpoint
  <1>4. CASE Bind(d)
    BY ZenonT(60), <1>4 DEF Bind
  <1>5. CASE SaveBegin(d) \/ SaveEnd(d)
    BY <1>5 DEF SaveBegin, SaveEnd
  <1>6. CASE UndoListener(d) \/ CloseListener(d)
    BY <1>6 DEF UndoListener, CloseListener
  <1>7. CASE UndoLease(d) \/ CloseLease(d)
    BY <1>7 DEF UndoLease, CloseLease, InstanceLease!GiveBack
  <1>8. CASE ClearState(d)
    BY ZenonT(60), <1>8 DEF ClearState
  <1>9. CASE Exit(d) \/ Stop(d) \/ InitFails(d) \/ SaveFails(d)
    BY <1>9 DEF Exit, Stop, InitFails, SaveFails
  <1>10. CASE Succeed(d)
    BY <1>10 DEF Succeed
  <1>11. CASE DaemonDies(d)
    BY <1>11 DEF DaemonDies
  <1> QED BY Zenon, <1>1, <1>2, <1>3, <1>4, <1>5, <1>6, <1>7, <1>8, <1>9, <1>10, <1>11 DEF DaemonNext

\* Inv is an invariant of starts, stops, restarts and crashes.
THEOREM OwnerInvariance == Spec => []Inv
  <1>1. Inv /\ [Next]_vars => Inv'
    <2> SUFFICES ASSUME Inv, [Next]_vars PROVE Inv'
        OBVIOUS
    <2>1. ASSUME NEW c \in Callers, CallerNext(c) \/ CallerDies(c) PROVE Inv'
      BY <2>1, CallerTypes, CallerKeepsOwner DEF Inv
    <2>2. ASSUME NEW d \in Daemons,
                 DaemonNext(d) \/ InitFails(d) \/ SaveFails(d) \/ Stop(d) \/ Succeed(d) \/ DaemonDies(d)
          PROVE Inv'
      BY Zenon, <2>2, DaemonTypes, DaemonKeepsOwner DEF Inv
    <2>3. CASE UNCHANGED vars
      BY <2>3 DEF vars, Inv, TypeOK, OwnerInv, Owning, Listening
    <2> QED BY <2>1, <2>2, <2>3 DEF Next, Settled
  <1> QED BY InvInit, <1>1, PTL DEF Spec

\* Callers, daemons, locks and files keep their types.
THEOREM StartTypeCorrect == Spec => []TypeOK
  <1>1. Inv => TypeOK
    BY DEF Inv
  <1> QED BY OwnerInvariance, <1>1, PTL

\* The daemon that serves is the one the endpoint and state.json lead to.
THEOREM ServerFound == Spec => []ServerIsFound
  <1>1. Inv => ServerIsFound
    BY DEF Inv, OwnerInv, ServerIsFound, Listening
  <1> QED BY OwnerInvariance, <1>1, PTL
-----------------------------------------------------------------------------
(* Concurrent starts create one daemon.  While nothing fails, a daemon     *)
(* that does not serve yet is waited for by the caller that launched it    *)
(* under start.lock; so whoever probes with the lock finds no daemon at    *)
(* all or one that answers, and decides to spawn only in the first case.   *)

Inside == {"probe", "load", "reject", "spawn", "poll", "unlock"}
Booting == {"boot", "owner", "dial", "remove", "bind", "bound", "saving"}

StarterInv ==
    /\ \A c \in Callers : callerAt[c] \in Inside <=> c \in start
    /\ \A c, b \in start : c = b

AloneInv ==
    /\ \A d, e \in Daemons : daemonAt[d] # "new" /\ daemonAt[e] # "new" => d = e
    /\ \A d \in Daemons : daemonAt[d] \in Booting \cup {"new", "serving"}
    /\ \A d \in Daemons : daemonAt[d] \in Booting => \E c \in Callers : callerAt[c] = "poll"
    /\ \A c \in Callers : callerAt[c] = "spawn" => \A d \in Daemons : daemonAt[d] = "new"
    /\ \A c \in Callers : callerAt[c] = "reject" => \A d \in Daemons : daemonAt[d] = "new"
    /\ (\A d \in Daemons : daemonAt[d] \notin {"saving", "serving"}) => state = None
    /\ (\A d \in Daemons : daemonAt[d] \notin {"bound", "saving", "serving"}) => sock = None

FirstInv == Inv /\ StarterInv /\ (Undisturbed => AloneInv)

\* Only the holder of start.lock is between TakeStart and Unlock.
LEMMA CallerKeepsLock ==
    ASSUME TypeOK, StarterInv, NEW c \in Callers, CallerNext(c) \/ CallerDies(c)
    PROVE  StarterInv'
  <1> USE DEF TypeOK, StarterInv, CallerTo, Inside
  <1>1. CASE Begin(c) \/ BeginRestart(c) \/ StartBusy(c)
    BY Zenon, <1>1 DEF Begin, BeginRestart, StartBusy
  <1>2. CASE TakeStart(c)
    BY Zenon, <1>2 DEF TakeStart, StartLease!Take
  <1>3. CASE Probe(c) \/ Load(c) \/ Reject(c)
    BY Zenon, <1>3 DEF Probe, Load, Reject
  <1>4. CASE SpawnDaemon(c) \/ SpawnFails(c) \/ Poll(c) \/ PollTimeout(c)
    BY Zenon, <1>4 DEF SpawnDaemon, SpawnFails, Poll, PollTimeout
  <1>5. CASE Unlock(c)
    BY Zenon, <1>5 DEF Unlock, StartLease!GiveBack
  <1>6. CASE CallerDies(c)
    BY <1>6 DEF CallerDies
  <1> QED BY Zenon, <1>1, <1>2, <1>3, <1>4, <1>5, <1>6 DEF CallerNext

\* Daemons do not touch start.lock.
LEMMA DaemonKeepsLock ==
    ASSUME StarterInv, NEW d \in Daemons,
           DaemonNext(d) \/ InitFails(d) \/ SaveFails(d) \/ Stop(d) \/ Succeed(d) \/ DaemonDies(d)
    PROVE  StarterInv' /\ callerAt' = callerAt
  <1>1. UNCHANGED callerVars
    BY DEF DaemonNext, InitFails, SaveFails, Stop, Succeed, DaemonDies, TakeInstance, InstanceBusy,
           RejectOwner, DialEndpoint, RemoveEndpoint, Bind, SaveBegin, SaveEnd, UndoListener, UndoLease,
           ClearState, CloseListener, CloseLease, Exit
  <1> QED BY Zenon, <1>1 DEF callerVars, StarterInv

\* What was disturbed stays so.
LEMMA UndisturbedBefore ==
    ASSUME TypeOK, Next, Undisturbed'
    PROVE  Undisturbed /\ UNCHANGED <<faults, stops>>
  <1> USE DEF TypeOK, Undisturbed
  <1>f. ~Fault
    BY DEF Fault
  <1>s. \A d \in Daemons : ~Stop(d)
    BY DEF Stop
  <1>1. ASSUME NEW c \in Callers, CallerNext(c) \/ CallerDies(c)
        PROVE  Undisturbed /\ UNCHANGED <<faults, stops>>
    <2>1. CASE BeginRestart(c)
      BY Zenon, <2>1, StartAssumption DEF BeginRestart, Answers
    <2> QED
      BY Zenon, <1>1, <1>f, <2>1 DEF CallerNext, CallerDies, Begin, TakeStart, StartBusy, Probe, Load, Reject,
         SpawnDaemon, SpawnFails, Poll, PollTimeout, Unlock
  <1>2. ASSUME NEW d \in Daemons,
               DaemonNext(d) \/ InitFails(d) \/ SaveFails(d) \/ Stop(d) \/ Succeed(d) \/ DaemonDies(d)
        PROVE  Undisturbed /\ UNCHANGED <<faults, stops>>
    BY Zenon, <1>2, <1>f, <1>s DEF DaemonNext, InitFails, SaveFails, Succeed, DaemonDies, TakeInstance,
       InstanceBusy, RejectOwner, DialEndpoint, RemoveEndpoint, Bind, SaveBegin, SaveEnd, UndoListener,
       UndoLease, ClearState, CloseListener, CloseLease, Exit, callerVars
  <1> QED BY Zenon, <1>1, <1>2 DEF Next, Settled, vars

\* Who is inside with start.lock, and does not poll, meets no booting daemon.
LEMMA NoneBooting ==
    ASSUME StarterInv, AloneInv, NEW c \in Callers, callerAt[c] \in Inside, callerAt[c] # "poll"
    PROVE  \A d \in Daemons : daemonAt[d] \in {"new", "serving"}
  <1>1. \A b \in Callers : callerAt[b] # "poll"
    BY DEF StarterInv, Inside
  <1> QED BY <1>1 DEF AloneInv

\* A caller launches a daemon only where there is none.
LEMMA CallerKeepsAlone ==
    ASSUME Inv, StarterInv, AloneInv, Undisturbed, Undisturbed', UNCHANGED <<faults, stops>>,
           NEW c \in Callers, CallerNext(c) \/ CallerDies(c)
    PROVE  AloneInv'
  <1> USE DEF Inv, TypeOK, CallerTo
  <1>f. ~Fault
    BY DEF Fault
  <1>n. None \notin Daemons
    BY Zenon, StartAssumption
  <1>1. CASE Begin(c) \/ TakeStart(c) \/ StartBusy(c)
    BY <1>1, <1>f DEF Begin, TakeStart, StartBusy, daemonVars, AloneInv
  <1>2. CASE BeginRestart(c)
    <2>1. ~Answers
      BY Zenon, <1>2, <1>n DEF BeginRestart, Answers, Undisturbed
    <2> QED BY <1>2, <2>1 DEF BeginRestart, AloneInv
  <1>3. CASE Probe(c)
    <2>1. \A d \in Daemons : daemonAt[d] \in {"new", "serving"}
      BY Zenon, <1>3, NoneBooting DEF Probe, Inside
    <2>2. \A d \in Daemons : daemonAt[d] = "serving" => Answers
      BY DEF OwnerInv, Listening, Answers
    <2>3. /\ UNCHANGED daemonVars
          /\ \/ callerAt' = [callerAt EXCEPT ![c] = "load"]
             \/ callerAt' = [callerAt EXCEPT ![c] = "reject"] /\ ~Answers
      BY Zenon, <1>3, <1>f DEF Probe
    <2> QED BY Zenon, <2>1, <2>2, <2>3 DEF daemonVars, AloneInv, Booting
  <1>4. CASE Load(c)
    <2>1. \A d \in Daemons : daemonAt[d] \in {"new", "serving"}
      BY <1>4, NoneBooting DEF Load, Inside
    <2>2. \A d \in Daemons : daemonAt[d] = "serving" => state \in Daemons
      BY DEF OwnerInv
    <2>3. /\ UNCHANGED daemonVars
          /\ \/ callerAt' = [callerAt EXCEPT ![c] = "unlock"]
             \/ callerAt' = [callerAt EXCEPT ![c] = "reject"] /\ state \notin Daemons
      BY Zenon, <1>4 DEF Load
    <2> QED BY Zenon, <2>1, <2>2, <2>3 DEF daemonVars, AloneInv, Booting
  <1>5. CASE Reject(c)
    <2>1. \A d \in Daemons : daemonAt[d] = "new"
      BY Zenon, <1>5 DEF Reject, AloneInv
    <2> QED BY Zenon, <1>5, <2>1 DEF Reject, daemonVars, AloneInv, Booting
  <1>6. CASE SpawnDaemon(c)
    <2>1. \A d \in Daemons : daemonAt[d] = "new"
      BY <1>6 DEF SpawnDaemon, AloneInv
    <2>2. \A b \in Callers : b # c => callerAt[b] \notin {"spawn", "reject"}
      BY <1>6 DEF SpawnDaemon, StarterInv, Inside
    <2>3. PICK d \in Daemons : daemonAt' = [daemonAt EXCEPT ![d] = "boot"]
      BY Zenon, <1>6 DEF SpawnDaemon, DaemonTo
    <2>4. /\ callerAt' = [callerAt EXCEPT ![c] = "poll"] /\ state' = state /\ sock' = sock
      BY Zenon, <1>6 DEF SpawnDaemon
    <2> QED BY ZenonT(60), <2>1, <2>2, <2>3, <2>4 DEF AloneInv, Booting
  <1>7. CASE SpawnFails(c)
    BY Zenon, <1>7, <1>f DEF SpawnFails, daemonVars, AloneInv
  <1>8. CASE Poll(c)
    <2>1. sock \in Daemons /\ daemonAt[sock] = "serving"
      BY Zenon, <1>8 DEF Poll, Answers, AloneInv, Booting
    <2>2. \A d \in Daemons : daemonAt[d] \in {"new", "serving"}
      BY Zenon, <2>1 DEF AloneInv, Booting
    <2> QED BY Zenon, <1>8, <2>2 DEF Poll, daemonVars, AloneInv, Booting
  <1>9. CASE PollTimeout(c)
    <2>1. \A d \in Daemons : daemonAt[d] = "new"
      BY Zenon, <1>9, <1>f DEF PollTimeout, Alive, AloneInv, Booting
    <2> QED BY Zenon, <1>9, <2>1 DEF PollTimeout, daemonVars, AloneInv, Booting
  <1>10. CASE Unlock(c)
    BY Zenon, <1>10 DEF Unlock, daemonVars, AloneInv
  <1>11. CASE CallerDies(c)
    BY <1>11, <1>f DEF CallerDies
  <1> QED BY Zenon, <1>1, <1>2, <1>3, <1>4, <1>5, <1>6, <1>7, <1>8, <1>9, <1>10, <1>11 DEF CallerNext

\* The one daemon finds nobody in its way, and goes on to serve.
LEMMA DaemonKeepsAlone ==
    ASSUME Inv, StarterInv, AloneInv, Undisturbed, Undisturbed', UNCHANGED <<faults, stops>>,
           NEW d \in Daemons,
           DaemonNext(d) \/ InitFails(d) \/ SaveFails(d) \/ Stop(d) \/ Succeed(d) \/ DaemonDies(d)
    PROVE  AloneInv'
  <1> USE DEF Inv, TypeOK, DaemonTo
  <1>f. ~Fault
    BY DEF Fault
  <1>c. callerAt' = callerAt
    BY Zenon, DaemonKeepsLock
  <1>n. None \notin Daemons /\ None # Torn
    BY Zenon, StartAssumption
  <1>o. \A e \in Daemons : daemonAt[d] # "new" /\ e # d => daemonAt[e] = "new"
    BY DEF AloneInv
  <1>s. daemonAt[d] \in {"boot", "owner", "dial", "remove", "bind", "bound"} => state = None
    BY Zenon, <1>o DEF AloneInv
  <1>k. daemonAt[d] \in {"boot", "owner", "dial", "remove", "bind"} => sock = None
    BY Zenon, <1>o DEF AloneInv
  <1>r. \A c \in Callers : daemonAt[d] # "new" => callerAt[c] \notin {"spawn", "reject"}
    BY Zenon DEF AloneInv
  <1>p. daemonAt[d] \in Booting => \E c \in Callers : callerAt[c] = "poll"
    BY DEF AloneInv
  <1>b. daemonAt[d] \in Booting \cup {"new", "serving"}
    BY DEF AloneInv
  <1>1. CASE TakeInstance(d)
    BY Zenon, <1>1, <1>c, <1>o, <1>s, <1>k, <1>r, <1>p DEF TakeInstance, AloneInv, Booting
  <1>2. CASE InstanceBusy(d)
    <2>1. PICK e \in Daemons : e \in instance
      BY Zenon, <1>2 DEF InstanceBusy
    <2>2. daemonAt[e] \in Owning
      BY <2>1 DEF OwnerInv
    <2>3. daemonAt[d] = "boot" /\ e # d /\ daemonAt[e] # "new"
      BY Zenon, <1>2, <2>2 DEF InstanceBusy, Owning
    <2> QED BY <1>o, <2>3
  <1>3. CASE RejectOwner(d)
    <2>1. daemonAt[d] = "owner" /\ ~OwnerRejected
      BY Zenon, <1>3, <1>n, <1>s DEF RejectOwner, OwnerRejected
    <2> QED BY Zenon, <1>3, <2>1, <1>c, <1>o, <1>s, <1>k, <1>r, <1>p DEF RejectOwner, AloneInv, Booting
  <1>4. CASE DialEndpoint(d)
    <2>1. daemonAt[d] = "dial" /\ ~Connectable
      BY Zenon, <1>4, <1>n, <1>k DEF DialEndpoint, Connectable
    <2> QED BY Zenon, <1>4, <2>1, <1>c, <1>o, <1>s, <1>k, <1>r, <1>p DEF DialEndpoint, AloneInv, Booting
  <1>5. CASE RemoveEndpoint(d)
    BY Zenon, <1>5, <1>c, <1>o, <1>s, <1>k, <1>r, <1>p DEF RemoveEndpoint, AloneInv, Booting
  <1>6. CASE Bind(d)
    <2>1. daemonAt[d] = "bind" /\ sock = None
      BY Zenon, <1>6, <1>k DEF Bind
    <2> QED BY Zenon, <1>6, <2>1, <1>c, <1>o, <1>s, <1>r, <1>p DEF Bind, AloneInv, Booting
  <1>7. CASE SaveBegin(d)
    BY ZenonT(60), <1>7, <1>c, <1>o, <1>r, <1>p DEF SaveBegin, AloneInv, Booting
  <1>8. CASE SaveEnd(d)
    BY Zenon, <1>8, <1>c, <1>o, <1>r DEF SaveEnd, AloneInv, Booting
  <1>9. CASE InitFails(d) \/ SaveFails(d) \/ DaemonDies(d) \/ Stop(d)
    BY <1>9, <1>f DEF InitFails, SaveFails, DaemonDies, Stop
  <1>10. CASE UndoListener(d) \/ UndoLease(d) \/ ClearState(d) \/ CloseListener(d) \/ CloseLease(d)
              \/ Exit(d) \/ Succeed(d)
    BY <1>10, <1>b DEF UndoListener, UndoLease, ClearState, CloseListener, CloseLease, Exit, Succeed,
       Booting
  <1> QED BY Zenon, <1>1, <1>2, <1>3, <1>4, <1>5, <1>6, <1>7, <1>8, <1>9, <1>10 DEF DaemonNext

\* FirstInv is an invariant of starts, stops, restarts and crashes.
THEOREM FirstInvariance == Spec => []FirstInv
  <1>1. Init => FirstInv
    <2> SUFFICES ASSUME Init PROVE FirstInv
        OBVIOUS
    <2>1. StarterInv
      BY DEF Init, StarterInv, Inside
    <2>2. AloneInv
      BY DEF Init, AloneInv, Booting
    <2> QED BY Zenon, <2>1, <2>2, InvInit DEF FirstInv
  <1>2. FirstInv /\ [Next]_vars /\ Inv' => FirstInv'
    <2> SUFFICES ASSUME FirstInv, [Next]_vars, Inv' PROVE StarterInv' /\ (Undisturbed' => AloneInv')
        BY Zenon DEF FirstInv
    <2>1. CASE UNCHANGED vars
      BY <2>1 DEF vars, FirstInv, StarterInv, AloneInv, Undisturbed
    <2>2. CASE Next
      <3>1. Undisturbed' => Undisturbed /\ UNCHANGED <<faults, stops>>
        BY Zenon, <2>2, UndisturbedBefore DEF FirstInv, Inv
      <3>2. ASSUME NEW c \in Callers, CallerNext(c) \/ CallerDies(c)
            PROVE  StarterInv' /\ (Undisturbed' => AloneInv')
        BY Zenon, <3>1, <3>2, CallerKeepsLock, CallerKeepsAlone DEF FirstInv, Inv
      <3>3. ASSUME NEW d \in Daemons,
                   DaemonNext(d) \/ InitFails(d) \/ SaveFails(d) \/ Stop(d) \/ Succeed(d)
                   \/ DaemonDies(d)
            PROVE  StarterInv' /\ (Undisturbed' => AloneInv')
        BY Zenon, <3>1, <3>3, DaemonKeepsLock, DaemonKeepsAlone DEF FirstInv
      <3> QED BY Zenon, <2>1, <2>2, <3>2, <3>3 DEF Next, Settled
    <2> QED BY <2>1, <2>2
  <1> QED BY <1>1, <1>2, OwnerInvariance, PTL DEF Spec

\* As long as nothing fails and nothing is stopped, concurrent starts create one
\* daemon between them (SpawnBackgroundWithOptions holds start.lock until the
\* daemon it launched answers).
THEOREM OneDaemon == Spec => []NoSecondInstance
  <1>1. FirstInv => NoSecondInstance
    <2> SUFFICES ASSUME FirstInv, Undisturbed
                 PROVE  Cardinality({d \in Daemons : daemonAt[d] # "new"}) <= 1
        BY DEF NoSecondInstance
    <2> DEFINE B == {d \in Daemons : daemonAt[d] # "new"}
    <2>1. \A d, e \in B : d = e
      BY DEF FirstInv, AloneInv
    <2> SUFFICES Cardinality(B) <= 1
        OBVIOUS
    <2> HIDE DEF B
    <2>2. CASE B = {}
      BY <2>2, FS_EmptySet
    <2>3. CASE B # {}
      <3>1. PICK d \in B : B = {d}
        BY <2>1, <2>3
      <3> QED BY <3>1, FS_Singleton
    <2> QED BY Zenon, <2>2, <2>3
  <1> QED BY <1>1, FirstInvariance, PTL
-----------------------------------------------------------------------------
(* RuntimePool                                                             *)

\* A pooled client was made for the key it is found under.
KeysOK == \A k \in RtKeys : pool[k] # NoOne => keyOf[pool[k]] = k

\* The client of a call has a key, a Kotlin one after a failure that drops it.
CallsOK ==
    \A x \in Calls : LET c == call[x].client IN
        /\ call[x].step = "idle" <=> c = NoOne
        /\ c # NoOne => keyOf[c] \in RtKeys
        /\ call[x].step \in {"failed", "close"} => keyOf[c] \in KotlinKeys

\* An unused number has no process.
FreeOK == \A c \in ClientIds : keyOf[c] = NoOne => worker[c] # "up"

\* The order of last uses is a strict total order of the pooled clients P.
Ordered(P, lu) ==
    \A c \in ClientIds :
        /\ lu[c] \subseteq P \ {c}
        /\ c \notin P => lu[c] = {}
        /\ \A d \in lu[c] : lu[d] \subseteq lu[c]
        /\ \A d \in P : c \in P /\ c # d => c \in lu[d] \/ d \in lu[c]

PoolInv ==
    /\ PoolTypeOK /\ KeysOK /\ CallsOK /\ FreeOK
    /\ Ordered(Pooled, lastUsed) /\ PoolIsAccounted

\* Every set of natural numbers has a least member.
LEMMA LeastNumber ==
  ASSUME NEW T \in SUBSET Nat, T # {}
  PROVE  \E x \in T : \A y \in T : x <= y
  <1> DEFINE R == {ss \in Nat \X Nat : ss[1] < ss[2]}
  <1>1. IsWellFoundedOn(R, Nat)
    BY NatLessThanWellFounded DEF OpToRel
  <1> HIDE DEF R
  <1>2. PICK x \in T : \A y \in T : ~(<<y, x>> \in R)
    BY Zenon, <1>1, WFMin
  <1>3. \A y \in T : ~(y < x)
    BY Zenon, <1>2 DEF R
  <1> QED
    BY <1>3

\* Among idle clients there is one that was used before all others.
LEMMA OldestExists ==
  ASSUME NEW P \in SUBSET ClientIds, NEW lu, Ordered(P, lu), NEW I \in SUBSET P, I # {}
  PROVE  \E c \in I : lu[c] \cap I = {}
  <1> DEFINE n(c) == Cardinality(lu[c] \cap I)
             T == {n(c) : c \in I}
  <1>1. IsFiniteSet(I)
    BY PoolAssumption, FS_Subset
  <1>2. ASSUME NEW c \in I
        PROVE  IsFiniteSet(lu[c] \cap I) /\ n(c) \in Nat
    BY Zenon, <1>1, FS_Subset, FS_CardinalityType
  <1>3. T \in SUBSET Nat /\ T # {}
    BY Zenon, <1>2
  <1>4. PICK m \in T : \A y \in T : m <= y
    BY Zenon, <1>3, LeastNumber
  <1>5. PICK c \in I : m = n(c)
    BY Zenon, <1>4
  <1>6. ASSUME NEW d \in lu[c] \cap I
        PROVE  FALSE
    <2>1. lu[d] \cap I \subseteq lu[c] \cap I /\ d \notin lu[d] \cap I
      BY DEF Ordered
    <2>2. n(d) <= n(c) /\ n(d) # n(c)
      BY Zenon, <1>2, <2>1, FS_Subset
    <2>3. n(d) \in T /\ n(d) \in Nat /\ n(c) \in Nat
      BY <1>2
    <2> HIDE DEF n, T
    <2> QED
      BY <1>4, <1>5, <2>2, <2>3
  <1> QED
    BY <1>6

\* Touch keeps the order, of the clients that stay and the one that is used.
LEMMA TouchKeeps ==
  ASSUME NEW P \in SUBSET ClientIds, NEW Q \in SUBSET ClientIds, NEW lu, Ordered(P, lu),
         NEW touched \in SUBSET ClientIds, Q \subseteq P \cup touched,
         \A c, d \in touched : c = d
  PROVE  Ordered(Q, [c \in ClientIds |-> IF c \notin Q THEN {}
                                        ELSE IF c \in touched THEN Q \ touched
                                        ELSE (lu[c] \cap Q) \ touched])
  <1> DEFINE m == [c \in ClientIds |-> IF c \notin Q THEN {}
                                        ELSE IF c \in touched THEN Q \ touched
                                        ELSE (lu[c] \cap Q) \ touched]
  <1>1. ASSUME NEW c \in ClientIds
        PROVE  m[c] = IF c \notin Q THEN {} ELSE IF c \in touched THEN Q \ touched
                      ELSE (lu[c] \cap Q) \ touched
    BY Zenon
  <1> HIDE DEF m
  <1> SUFFICES ASSUME NEW c \in ClientIds
               PROVE  /\ m[c] \subseteq Q \ {c}
                      /\ c \notin Q => m[c] = {}
                      /\ \A d \in m[c] : m[d] \subseteq m[c]
                      /\ \A d \in Q : c \in Q /\ c # d => c \in m[d] \/ d \in m[c]
    BY DEF Ordered, m
  <1>a. lu[c] \subseteq P \ {c} /\ \A d \in lu[c] : lu[d] \subseteq lu[c]
    BY DEF Ordered
  <1>2. m[c] \subseteq Q \ {c} /\ (c \notin Q => m[c] = {})
    BY ZenonT(60), <1>1, <1>a
  <1>3. ASSUME NEW d \in m[c]
        PROVE  m[d] \subseteq m[c]
    <2>1. d \in Q /\ c \in Q /\ d \in ClientIds /\ d \notin touched
      BY Zenon, <1>1, <1>2
    <2>2. m[d] = (lu[d] \cap Q) \ touched
      BY Zenon, <1>1, <2>1
    <2>3. CASE c \in touched
      BY Zenon, <1>1, <2>1, <2>2, <2>3
    <2>4. CASE c \notin touched
      <3>1. m[c] = (lu[c] \cap Q) \ touched
        BY Zenon, <1>1, <2>1, <2>4
      <3> QED
        BY <1>a, <2>2, <3>1
    <2> QED
      BY <2>3, <2>4
  <1>4. ASSUME NEW d \in Q, c \in Q, c # d
        PROVE  c \in m[d] \/ d \in m[c]
    <2>1. m[c] = (IF c \in touched THEN Q \ touched ELSE (lu[c] \cap Q) \ touched)
          /\ m[d] = (IF d \in touched THEN Q \ touched ELSE (lu[d] \cap Q) \ touched)
      BY Zenon, <1>1, <1>4
    <2>2. CASE c \in touched \/ d \in touched
      BY <1>4, <2>1, <2>2
    <2>3. CASE c \notin touched /\ d \notin touched
      <3>1. c \in P /\ d \in P
        BY Zenon, <1>4, <2>3
      <3>2. c \in lu[d] \/ d \in lu[c]
        BY <1>4, <3>1 DEF Ordered
      <3> QED
        BY <1>4, <2>1, <2>3, <3>2
    <2> QED
      BY <2>2, <2>3
  <1> QED
    BY Zenon, <1>2, <1>3, <1>4

LEMMA PooledClients ==
  ASSUME PoolTypeOK
  PROVE  /\ Pooled \in SUBSET ClientIds
         /\ \A k \in RtKeys : pool[k] # NoOne => pool[k] \in Pooled
         /\ \A c \in Pooled : c # NoOne /\ \E k \in RtKeys : pool[k] = c
  BY DEF PoolTypeOK, Pooled

LEMMA TouchOrders ==
  ASSUME PoolInv, NEW t \in SUBSET ClientIds, \A c, d \in t : c = d, Touch(t),
         Pooled' \in SUBSET ClientIds, Pooled' \subseteq Pooled \cup t
  PROVE  Ordered(Pooled, lastUsed)' /\ lastUsed' \in [ClientIds -> SUBSET ClientIds]
  <1>1. Pooled \in SUBSET ClientIds /\ lastUsed \in [ClientIds -> SUBSET ClientIds]
        /\ Ordered(Pooled, lastUsed)
    BY PooledClients DEF PoolInv, PoolTypeOK
  <1> DEFINE m(P, Q, lu) == [c \in ClientIds |-> IF c \notin Q THEN {}
                                        ELSE IF c \in t THEN Q \ t
                                        ELSE (lu[c] \cap Q) \ t]
  <1>a. lastUsed' = m(Pooled, Pooled', lastUsed)
    BY DEF Touch
  <1>b. ASSUME NEW P \in SUBSET ClientIds, NEW Q \in SUBSET ClientIds, NEW lu, Ordered(P, lu),
               Q \subseteq P \cup t
        PROVE  Ordered(Q, m(P, Q, lu))
    BY <1>b, TouchKeeps
  <1> HIDE DEF m
  <1>2. Ordered(Pooled', lastUsed')
    BY <1>1, <1>a, <1>b
  <1>3. lastUsed' \in [ClientIds -> SUBSET ClientIds]
    BY <1>1 DEF Touch
  <1> QED
    BY Zenon, <1>2, <1>3

\* A call goes on with the client it has.
LEMMA CallGoesOn ==
  ASSUME PoolInv, NEW x \in Calls, call[x].step # "idle", NEW s \in CallSteps \ {"idle"},
         call' = [call EXCEPT ![x].step = s], keyOf' = keyOf,
         s \in {"failed", "close"} => keyOf[call[x].client] \in KotlinKeys
  PROVE  /\ call' \in [Calls -> [step : CallSteps, client : ClientIds \cup {NoOne}]]
         /\ CallsOK' /\ \A y \in Calls : call'[y].client = call[y].client
  <1>1. call \in [Calls -> [step : CallSteps, client : ClientIds \cup {NoOne}]]
    BY DEF PoolInv, PoolTypeOK
  <1>2. call' \in [Calls -> [step : CallSteps, client : ClientIds \cup {NoOne}]]
    BY <1>1
  <1>3. ASSUME NEW y \in Calls
        PROVE  call'[y].client = call[y].client /\ call'[y].step = IF y = x THEN s ELSE call[y].step
    BY Zenon, <1>1
  <1>4. CallsOK'
    BY <1>3 DEF PoolInv, CallsOK
  <1> QED
    BY Zenon, <1>2, <1>3, <1>4

\* A step that leaves pool and keys alone and starts no process of an unpooled
\* client.
LEMMA SamePool ==
  ASSUME PoolInv, PoolTypeOK', CallsOK', UNCHANGED <<pool, keyOf>>, Ordered(Pooled, lastUsed)',
         stopping = "done" => stopping' = "done",
         \A y \in Calls : LET c == call'[y].client IN
            c # NoOne => (\E z \in Calls : call[z].client = c) \/ c \in Pooled,
         \A c \in ClientIds : worker'[c] = "up" =>
            worker[c] = "up" \/ \E y \in Calls : call[y].client = c
  PROVE  PoolInv'
  <1>1. Pooled' = Pooled /\ KeysOK'
    BY DEF Pooled, PoolInv, KeysOK
  <1>2. FreeOK'
    <2> SUFFICES ASSUME NEW c \in ClientIds, keyOf[c] = NoOne, worker'[c] = "up"
                 PROVE  FALSE
      BY DEF FreeOK
    <2>1. PICK y \in Calls : call[y].client = c
      BY Zenon DEF PoolInv, FreeOK
    <2> QED
      BY Zenon, <2>1, PoolAssumption DEF PoolInv, CallsOK
  <1>3. InUseIsPooled'
    BY Zenon, <1>1 DEF PoolInv, PoolIsAccounted, InUseIsPooled
  <1>4. ProcessIsPooled'
    <2> SUFFICES ASSUME NEW c \in ClientIds, worker'[c] = "up", keyOf[c] \notin KotlinKeys,
                        stopping # "done"
                 PROVE  c \in Pooled
      BY Zenon, <1>1 DEF ProcessIsPooled
    <2>1. CASE worker[c] = "up"
      BY Zenon, <2>1 DEF PoolInv, PoolIsAccounted, ProcessIsPooled
    <2>2. CASE \E y \in Calls : call[y].client = c
      BY <2>2, PoolAssumption DEF PoolInv, PoolIsAccounted, InUseIsPooled
    <2> QED
      BY Zenon, <2>1, <2>2
  <1> QED
    BY Zenon, <1>1, <1>2, <1>3, <1>4 DEF PoolInv, PoolIsAccounted

LEMMA PoolInitInv == PoolInit => PoolInv
  <1> SUFFICES ASSUME PoolInit PROVE PoolInv
    OBVIOUS
  <1>1. PoolTypeOK
    BY DEF PoolInit, PoolTypeOK, Idle, CallSteps
  <1>2. Pooled = {}
    BY DEF PoolInit, Pooled
  <1>3. Ordered(Pooled, lastUsed)
    BY Zenon, <1>2 DEF PoolInit, Ordered
  <1>4. KeysOK /\ CallsOK /\ FreeOK
    BY DEF PoolInit, KeysOK, CallsOK, FreeOK, Idle
  <1>5. PoolIsAccounted
    BY DEF PoolInit, PoolIsAccounted, InUseIsPooled, ProcessIsPooled, Idle
  <1> QED
    BY Zenon, <1>1, <1>3, <1>4, <1>5 DEF PoolInv

-----------------------------------------------------------------------------
(* Steps that leave the pool alone.                                        *)

LEMMA SameOrder ==
  ASSUME PoolInv, UNCHANGED <<pool, lastUsed>>
  PROVE  Ordered(Pooled, lastUsed)'
  <1>1. Pooled' = Pooled
    BY DEF Pooled
  <1> QED
    BY <1>1 DEF PoolInv, Ordered

LEMMA ReuseKeeps ==
  ASSUME PoolInv, NEW x \in Calls, NEW k \in RtKeys, Reuse(x, k)
  PROVE  PoolInv'
  <1> DEFINE c == pool[k]
  <1>1. c \in ClientIds /\ c \in Pooled /\ keyOf[c] = k /\ c # NoOne
    BY Zenon, PooledClients, PoolAssumption DEF Reuse, PoolInv, PoolTypeOK, KeysOK
  <1> HIDE DEF c
  <1>2. call' = [call EXCEPT ![x] = [step |-> "wait", client |-> c]] /\ Touch({c})
        /\ UNCHANGED <<pool, keyOf, worker, user, stopping>>
    BY Zenon DEF Reuse, c
  <1>3. Pooled' = Pooled /\ Pooled \in SUBSET ClientIds
    BY Zenon, <1>2, PooledClients DEF Pooled, PoolInv
  <1>4. Ordered(Pooled, lastUsed)' /\ lastUsed' \in [ClientIds -> SUBSET ClientIds]
    BY Zenon, <1>1, <1>2, <1>3, TouchOrders
  <1>5. call' \in [Calls -> [step : CallSteps, client : ClientIds \cup {NoOne}]]
    BY Zenon, <1>1, <1>2 DEF PoolInv, PoolTypeOK, CallSteps
  <1>6. PoolTypeOK'
    BY Zenon, <1>2, <1>4, <1>5 DEF PoolInv, PoolTypeOK
  <1>7. ASSUME NEW y \in Calls
        PROVE  call'[y] = IF y = x THEN [step |-> "wait", client |-> c] ELSE call[y]
    BY Zenon, <1>2 DEF PoolInv, PoolTypeOK
  <1>8. CallsOK'
    BY <1>1, <1>2, <1>7 DEF PoolInv, CallsOK
  <1> QED
    BY <1>1, <1>2, <1>4, <1>6, <1>7, <1>8, SamePool

\* What a call does next after an error.
LEMMA AfterErrorOK ==
  ASSUME PoolInv, NEW c \in ClientIds
  PROVE  /\ AfterError(c) \in CallSteps \ {"idle"}
         /\ AfterError(c) \in {"failed", "close"} => keyOf[c] \in KotlinKeys
  BY DEF AfterError, CallSteps

\* A call that is not idle has a client.
LEMMA HasClient ==
  ASSUME PoolInv, NEW x \in Calls, call[x].step # "idle"
  PROVE  call[x].client \in ClientIds /\ call[x].client # NoOne
         /\ keyOf[call[x].client] \in RtKeys
  BY DEF PoolInv, PoolTypeOK, CallsOK

LEMMA AcquireKeeps ==
  ASSUME PoolInv, NEW x \in Calls, Acquire(x)
  PROVE  PoolInv'
  <1> DEFINE c == call[x].client
  <1>1. c \in ClientIds /\ call[x].step # "idle"
    BY Zenon, HasClient DEF Acquire
  <1>2. PICK s \in CallSteps \ {"idle"} :
           /\ call' = [call EXCEPT ![x].step = s]
           /\ s \in {"failed", "close"} => keyOf[c] \in KotlinKeys
    BY <1>1, AfterErrorOK DEF Acquire, CallSteps
  <1>3. /\ worker' = worker \/ worker' = [worker EXCEPT ![c] = "up"]
        /\ user' = user \/ user' = [user EXCEPT ![c] = x]
        /\ UNCHANGED <<pool, keyOf, lastUsed, stopping>>
    BY DEF Acquire
  <1>4. /\ call' \in [Calls -> [step : CallSteps, client : ClientIds \cup {NoOne}]]
        /\ CallsOK' /\ \A y \in Calls : call'[y].client = call[y].client
    BY Zenon, <1>1, <1>2, <1>3, CallGoesOn
  <1>5. \A d \in ClientIds : worker'[d] = "up" => worker[d] = "up" \/ d = c
    BY Zenon, <1>3 DEF PoolInv, PoolTypeOK
  <1>6. PoolTypeOK'
    BY SMTT(60), <1>1, <1>3, <1>4 DEF PoolInv, PoolTypeOK
  <1>7. Ordered(Pooled, lastUsed)'
    BY <1>3, SameOrder
  <1> QED
    BY Zenon, <1>3, <1>4, <1>5, <1>6, <1>7, SamePool

LEMMA WaitEndsKeeps ==
  ASSUME PoolInv, NEW x \in Calls, WaitEnds(x)
  PROVE  PoolInv'
  <1> DEFINE c == call[x].client
  <1>1. c \in ClientIds /\ call[x].step # "idle"
    BY HasClient DEF WaitEnds
  <1>2. call' = [call EXCEPT ![x].step = AfterError(c)]
        /\ UNCHANGED <<pool, keyOf, worker, user, lastUsed, stopping>>
    BY DEF WaitEnds
  <1>3. /\ call' \in [Calls -> [step : CallSteps, client : ClientIds \cup {NoOne}]]
        /\ CallsOK' /\ \A y \in Calls : call'[y].client = call[y].client
    BY Zenon, <1>1, <1>2, AfterErrorOK, CallGoesOn
  <1>4. PoolTypeOK'
    BY Zenon, <1>2, <1>3 DEF PoolInv, PoolTypeOK
  <1>5. Ordered(Pooled, lastUsed)'
    BY <1>2, SameOrder
  <1> QED
    BY Zenon, <1>2, <1>3, <1>4, <1>5, SamePool

LEMMA ReturnsKeeps ==
  ASSUME PoolInv, NEW x \in Calls, Returns(x)
  PROVE  PoolInv'
  <1> DEFINE c == call[x].client
  <1>1. c \in ClientIds /\ call[x].step # "idle"
    BY Zenon, HasClient DEF Returns
  <1>2. PICK s \in CallSteps \ {"idle"} :
           /\ call' = [call EXCEPT ![x].step = s]
           /\ s \in {"failed", "close"} => keyOf[c] \in KotlinKeys
    BY Zenon, <1>1, AfterErrorOK DEF Returns, CallSteps
  <1>3. /\ worker' = worker \/ worker' = [worker EXCEPT ![c] = "none"]
        /\ user' = [user EXCEPT ![c] = NoOne]
        /\ UNCHANGED <<pool, keyOf, stopping>> /\ Touch({c})
    BY DEF Returns
  <1>4. /\ call' \in [Calls -> [step : CallSteps, client : ClientIds \cup {NoOne}]]
        /\ CallsOK' /\ \A y \in Calls : call'[y].client = call[y].client
    BY Zenon, <1>1, <1>2, <1>3, CallGoesOn
  <1>5. \A d \in ClientIds : worker'[d] = "up" => worker[d] = "up"
    BY Zenon, <1>3 DEF PoolInv, PoolTypeOK
  <1>6. Pooled' = Pooled /\ Pooled \in SUBSET ClientIds
    BY ZenonT(60), <1>3, PooledClients DEF Pooled, PoolInv
  <1>7. Ordered(Pooled, lastUsed)' /\ lastUsed' \in [ClientIds -> SUBSET ClientIds]
    BY Zenon, <1>1, <1>3, <1>6, TouchOrders
  <1>8. PoolTypeOK'
    BY Zenon, <1>1, <1>3, <1>4, <1>7 DEF PoolInv, PoolTypeOK
  <1> QED
    BY Zenon, <1>3, <1>4, <1>5, <1>7, <1>8, SamePool

LEMMA CloseDroppedKeeps ==
  ASSUME PoolInv, NEW x \in Calls, CloseDropped(x)
  PROVE  PoolInv'
  <1> DEFINE c == call[x].client
  <1>1. c \in ClientIds /\ call[x].step # "idle"
    BY Zenon, HasClient DEF CloseDropped
  <1>2. call' = [call EXCEPT ![x].step = "release"] /\ worker' = [worker EXCEPT ![c] = "none"]
        /\ UNCHANGED <<pool, keyOf, user, lastUsed, stopping>>
    BY DEF CloseDropped
  <1>3. /\ call' \in [Calls -> [step : CallSteps, client : ClientIds \cup {NoOne}]]
        /\ CallsOK' /\ \A y \in Calls : call'[y].client = call[y].client
    BY Zenon, <1>1, <1>2, CallGoesOn DEF CallSteps
  <1>4. \A d \in ClientIds : worker'[d] = "up" => worker[d] = "up"
    BY Zenon, <1>2 DEF PoolInv, PoolTypeOK
  <1>5. PoolTypeOK'
    BY Zenon, <1>1, <1>2, <1>3 DEF PoolInv, PoolTypeOK
  <1>6. Ordered(Pooled, lastUsed)'
    BY <1>2, SameOrder
  <1> QED
    BY Zenon, <1>2, <1>3, <1>4, <1>5, <1>6, SamePool

LEMMA CrashKeeps ==
  ASSUME PoolInv, NEW c \in ClientIds, Crash(c)
  PROVE  PoolInv'
  <1>1. UNCHANGED <<pool, keyOf, user, call, lastUsed, stopping>>
    BY DEF Crash
  <1>2. worker' \in [ClientIds -> {"none", "up", "dead"}]
        /\ \A d \in ClientIds : worker'[d] = "up" => worker[d] = "up"
    BY Zenon DEF Crash, PoolInv, PoolTypeOK
  <1>3. PoolTypeOK' /\ CallsOK'
    BY Zenon, <1>1, <1>2 DEF PoolInv, PoolTypeOK, CallsOK
  <1>4. Ordered(Pooled, lastUsed)'
    BY <1>1, SameOrder
  <1> QED
    BY Zenon, <1>1, <1>2, <1>3, <1>4, SamePool

LEMMA ShutPoolKeeps ==
  ASSUME PoolInv, ShutPool
  PROVE  PoolInv'
  <1>1. UNCHANGED <<pool, keyOf, worker, user, call, lastUsed>>
        /\ stopping = "no" /\ stopping' = "closing"
    BY Zenon DEF ShutPool
  <1>2. PoolTypeOK' /\ CallsOK'
    BY <1>1 DEF PoolInv, PoolTypeOK, CallsOK
  <1>3. Ordered(Pooled, lastUsed)'
    BY <1>1, SameOrder
  <1> QED
    BY Zenon, <1>1, <1>2, <1>3, SamePool

-----------------------------------------------------------------------------
(* Steps that change the pool.                                             *)

LEMMA ReleaseKeeps ==
  ASSUME PoolInv, NEW x \in Calls, Release(x)
  PROVE  PoolInv'
  <1> DEFINE c == call[x].client
             garbage == c \notin Pooled /\ Active(c) = {x} /\ worker[c] # "up"
  <1>1. c \in ClientIds /\ call[x].step # "idle"
    BY HasClient DEF Release
  <1>2. /\ call' = [call EXCEPT ![x] = Idle]
        /\ keyOf' = IF garbage THEN [keyOf EXCEPT ![c] = NoOne] ELSE keyOf
        /\ worker' = IF garbage THEN [worker EXCEPT ![c] = "none"] ELSE worker
        /\ UNCHANGED <<pool, user, lastUsed, stopping>>
    BY Zenon DEF Release
  <1>3. Pooled' = Pooled /\ Ordered(Pooled, lastUsed)'
    BY Zenon, <1>2, SameOrder DEF Pooled
  <1>4. PoolTypeOK'
    BY Zenon, <1>1, <1>2 DEF PoolInv, PoolTypeOK, Idle, CallSteps
  <1>5. \A y \in Calls : call'[y] = IF y = x THEN Idle ELSE call[y]
    BY <1>2 DEF PoolInv, PoolTypeOK
  <1>6. \A y \in Calls \ {x} : garbage => call[y].client # c
    BY Zenon DEF Active
  <1>7. \A d \in ClientIds : /\ keyOf'[d] = IF garbage /\ d = c THEN NoOne ELSE keyOf[d]
                             /\ worker'[d] = IF garbage /\ d = c THEN "none" ELSE worker[d]
    BY Zenon, <1>1, <1>2 DEF PoolInv, PoolTypeOK
  <1>8. KeysOK'
    <2> SUFFICES ASSUME NEW k \in RtKeys, pool[k] # NoOne
                 PROVE  keyOf'[pool[k]] = k
      BY Zenon, <1>2 DEF KeysOK
    <2>1. pool[k] \in ClientIds /\ pool[k] \in Pooled
      BY Zenon, PooledClients DEF PoolInv, PoolTypeOK
    <2> QED
      BY Zenon, <1>7, <2>1 DEF PoolInv, KeysOK
  <1>9. \A y \in Calls : y # x /\ call[y].client # NoOne =>
           keyOf'[call[y].client] = keyOf[call[y].client]
    BY Zenon, <1>6, <1>7 DEF PoolInv, PoolTypeOK
  <1> HIDE DEF c, garbage
  <1>10. CallsOK'
    <2> SUFFICES ASSUME NEW y \in Calls
                 PROVE  LET d == call'[y].client IN
                        /\ call'[y].step = "idle" <=> d = NoOne
                        /\ d # NoOne => keyOf'[d] \in RtKeys
                        /\ call'[y].step \in {"failed", "close"} => keyOf'[d] \in KotlinKeys
      BY Zenon DEF CallsOK
    <2>1. CASE y = x
      BY <1>5, <2>1 DEF Idle
    <2>2. CASE y # x
      BY Zenon, <1>5, <1>9, <2>2 DEF PoolInv, CallsOK
    <2> QED
      BY Zenon, <2>1, <2>2
  <1>11. FreeOK' /\ ProcessIsPooled'
    BY <1>2, <1>3, <1>7 DEF PoolInv, FreeOK, PoolIsAccounted, ProcessIsPooled
  <1>12. InUseIsPooled'
    BY <1>2, <1>3, <1>5, <1>9 DEF PoolInv, PoolIsAccounted, InUseIsPooled, Idle
  <1> QED
    BY Zenon, <1>3, <1>4, <1>8, <1>10, <1>11, <1>12 DEF PoolInv, PoolIsAccounted

LEMMA DropKotlinKeeps ==
  ASSUME PoolInv, NEW x \in Calls, DropKotlin(x)
  PROVE  PoolInv'
  <1> DEFINE c == call[x].client
  <1>1. c \in ClientIds /\ c # NoOne /\ call[x].step # "idle" /\ keyOf[c] \in KotlinKeys
    BY HasClient DEF DropKotlin, PoolInv, CallsOK
  <1>2. /\ call' = [call EXCEPT ![x].step = "close"]
        /\ pool' = [k \in RtKeys |-> IF pool[k] = c THEN NoOne ELSE pool[k]]
        /\ UNCHANGED <<keyOf, worker, user, stopping>> /\ Touch({})
    BY DEF DropKotlin
  <1>3. /\ call' \in [Calls -> [step : CallSteps, client : ClientIds \cup {NoOne}]]
        /\ CallsOK' /\ \A y \in Calls : call'[y].client = call[y].client
    BY Zenon, <1>1, <1>2, CallGoesOn DEF CallSteps
  <1>4. pool' \in [RtKeys -> ClientIds \cup {NoOne}]
    BY Zenon, <1>2 DEF PoolInv, PoolTypeOK
  <1>5. Pooled' = Pooled \ {c}
    BY <1>2 DEF Pooled
  <1>6. Ordered(Pooled, lastUsed)' /\ lastUsed' \in [ClientIds -> SUBSET ClientIds]
    BY Zenon, <1>2, <1>5, PooledClients, TouchOrders DEF PoolInv
  <1>7. PoolTypeOK' /\ FreeOK' /\ KeysOK'
    BY Zenon, <1>2, <1>3, <1>4, <1>6 DEF PoolInv, PoolTypeOK, FreeOK, KeysOK
  <1>8. InUseIsPooled' /\ ProcessIsPooled'
    BY Zenon, <1>1, <1>2, <1>3, <1>5 DEF PoolInv, PoolIsAccounted, InUseIsPooled, ProcessIsPooled
  <1> QED
    BY Zenon, <1>3, <1>6, <1>7, <1>8 DEF PoolInv, PoolIsAccounted

\* Closing idle clients takes none from a call.
LEMMA DropKeeps ==
  ASSUME PoolInv, NEW cs \in SUBSET IdleClients, Drop(cs), UNCHANGED <<user, call, stopping>>
  PROVE  PoolInv' /\ Pooled' \subseteq Pooled
  <1>1. /\ pool' = [k \in RtKeys |-> IF pool[k] \in cs THEN NoOne ELSE pool[k]]
        /\ worker' = [c \in ClientIds |-> IF c \in cs THEN "none" ELSE worker[c]]
        /\ keyOf' = [c \in ClientIds |-> IF c \in cs THEN NoOne ELSE keyOf[c]]
        /\ Touch({})
    BY DEF Drop
  <1>2. Pooled' = Pooled \ cs
    BY <1>1 DEF Pooled
  <1>3. Ordered(Pooled, lastUsed)' /\ lastUsed' \in [ClientIds -> SUBSET ClientIds]
    BY Zenon, <1>1, <1>2, PooledClients, TouchOrders DEF PoolInv
  <1>4. PoolTypeOK'
    BY Zenon, <1>1, <1>3 DEF PoolInv, PoolTypeOK
  <1>5. \A y \in Calls : call[y].client \notin cs
    BY DEF IdleClients, Active
  <1>6. KeysOK' /\ FreeOK'
    BY Zenon, <1>1 DEF PoolInv, PoolTypeOK, KeysOK, FreeOK
  <1>7. \A y \in Calls : call[y].client # NoOne =>
           keyOf'[call[y].client] = keyOf[call[y].client]
    BY Zenon, <1>1, <1>5 DEF PoolInv, PoolTypeOK
  <1>8. CallsOK'
    BY Zenon, <1>7, HasClient DEF PoolInv, CallsOK
  <1>9. InUseIsPooled'
    BY Zenon, <1>2, <1>5, <1>7 DEF PoolInv, PoolIsAccounted, InUseIsPooled
  <1>10. ProcessIsPooled'
    BY Zenon, <1>1, <1>2 DEF PoolInv, PoolTypeOK, PoolIsAccounted, ProcessIsPooled
  <1> QED
    BY Zenon, <1>2, <1>3, <1>4, <1>6, <1>8, <1>9, <1>10 DEF PoolInv, PoolIsAccounted

LEMMA ShutRuntimesKeeps ==
  ASSUME PoolInv, ShutRuntimes
  PROVE  PoolInv' /\ Pooled' = {}
  <1>1. /\ stopping' = "done" /\ Touch({}) /\ UNCHANGED <<user, call>>
        /\ pool' = [k \in RtKeys |-> NoOne]
        /\ worker' = [c \in ClientIds |-> IF c \in Pooled THEN "none" ELSE worker[c]]
        /\ keyOf' = [c \in ClientIds |-> IF c \in IdleClients THEN NoOne ELSE keyOf[c]]
    BY DEF ShutRuntimes
  <1>2. Pooled' = {}
    BY <1>1 DEF Pooled
  <1>3. Ordered(Pooled, lastUsed)' /\ lastUsed' \in [ClientIds -> SUBSET ClientIds]
    BY Zenon, <1>1, <1>2, TouchOrders DEF PoolInv
  <1>4. PoolTypeOK'
    BY Zenon, <1>1, <1>3 DEF PoolInv, PoolTypeOK
  <1>5. KeysOK' /\ FreeOK'
    BY Zenon, <1>1 DEF PoolInv, PoolTypeOK, KeysOK, FreeOK, IdleClients
  <1>6. \A y \in Calls : call[y].client # NoOne =>
           keyOf'[call[y].client] = keyOf[call[y].client]
    BY Zenon, <1>1 DEF PoolInv, PoolTypeOK, IdleClients, Active
  <1>7. CallsOK'
    BY Zenon, <1>1, <1>6, HasClient DEF PoolInv, CallsOK
  <1>8. InUseIsPooled' /\ ProcessIsPooled'
    BY <1>1 DEF InUseIsPooled, ProcessIsPooled
  <1> QED
    BY ZenonT(60), <1>2, <1>3, <1>4, <1>5, <1>7, <1>8 DEF PoolInv, PoolIsAccounted

\* What Make does to the pool: the new client is nobody's yet, and the clients
\* that are closed for it are idle.
LEMMA MakePool ==
  ASSUME PoolInv, NEW k \in RtKeys, FreeIds # {}, NEW heavy \in SUBSET IdleClients,
         Make(k, NewId, heavy)
  PROVE  LET c == NewId
             gone == Evicted \cup heavy
         IN  /\ c \in ClientIds /\ keyOf[c] = NoOne /\ c \notin Pooled
             /\ gone \subseteq IdleClients
             /\ Pooled' = (Pooled \ gone) \cup {c}
  <1> DEFINE c == NewId
             gone == Evicted \cup heavy
  <1>1. c \in ClientIds /\ keyOf[c] = NoOne
    BY DEF NewId, FreeIds
  <1>2. c \notin Pooled /\ c # NoOne
    BY ZenonT(60), <1>1, PooledClients, PoolAssumption DEF PoolInv, KeysOK
  <1>3. gone \subseteq IdleClients
    BY DEF Evicted, Victims
  <1>4. pool[k] = NoOne
        /\ pool' = [j \in RtKeys |-> IF j = k THEN c ELSE IF pool[j] \in gone THEN NoOne ELSE pool[j]]
    BY Zenon DEF Make
  <1> HIDE DEF c, gone
  <1>5. Pooled' = (Pooled \ gone) \cup {c}
    BY <1>2, <1>4 DEF Pooled
  <1> QED
    BY Zenon, <1>1, <1>2, <1>3, <1>5 DEF c, gone

LEMMA MakeKeeps ==
  ASSUME PoolInv, NEW k \in RtKeys, FreeIds # {}, NEW heavy \in SUBSET IdleClients,
         Make(k, NewId, heavy), UNCHANGED <<user, stopping>>,
         \/ UNCHANGED call
         \/ \E x \in Calls : call' = [call EXCEPT ![x] = [step |-> "wait", client |-> NewId]]
  PROVE  PoolInv'
  <1> DEFINE c == NewId
             gone == Evicted \cup heavy
  <1>1. /\ c \in ClientIds /\ keyOf[c] = NoOne /\ c \notin Pooled
        /\ gone \subseteq IdleClients
        /\ Pooled' = (Pooled \ gone) \cup {c}
    BY Zenon, MakePool
  <1>2. /\ pool' = [j \in RtKeys |-> IF j = k THEN c ELSE IF pool[j] \in gone THEN NoOne ELSE pool[j]]
        /\ worker' = [d \in ClientIds |-> IF d = c THEN (IF k \in RoslynKeys THEN "up" ELSE "none")
                                          ELSE IF d \in gone THEN "none" ELSE worker[d]]
        /\ keyOf' = [d \in ClientIds |-> IF d = c THEN k ELSE IF d \in gone THEN NoOne ELSE keyOf[d]]
        /\ Touch({c})
    BY DEF Make
  <1>3. \/ UNCHANGED call
        \/ \E x \in Calls : call' = [call EXCEPT ![x] = [step |-> "wait", client |-> c]]
    OBVIOUS
  <1> HIDE DEF c, gone
  <1>4. c # NoOne /\ Pooled \in SUBSET ClientIds
    BY Zenon, <1>1, PooledClients, PoolAssumption DEF PoolInv
  <1>5. Ordered(Pooled, lastUsed)' /\ lastUsed' \in [ClientIds -> SUBSET ClientIds]
    BY Zenon, <1>1, <1>2, <1>4, TouchOrders
  <1>6. call' \in [Calls -> [step : CallSteps, client : ClientIds \cup {NoOne}]]
    BY <1>1, <1>3 DEF PoolInv, PoolTypeOK, CallSteps
  <1>7. PoolTypeOK'
    BY Zenon, <1>1, <1>2, <1>5, <1>6 DEF PoolInv, PoolTypeOK
  <1>8. \A y \in Calls : call'[y] = call[y] \/ call'[y] = [step |-> "wait", client |-> c]
    BY Zenon, <1>3 DEF PoolInv, PoolTypeOK
  <1>9. KeysOK'
    <2> SUFFICES ASSUME NEW j \in RtKeys, pool'[j] # NoOne
                 PROVE  keyOf'[pool'[j]] = j
      BY DEF KeysOK
    <2>1. CASE j = k
      BY Zenon, <1>1, <1>2, <2>1
    <2>2. CASE j # k
      <3>1. pool'[j] = pool[j] /\ pool[j] \notin gone /\ pool[j] \in Pooled
        BY Zenon, <1>2, <2>2, PooledClients DEF PoolInv
      <3> QED
        BY Zenon, <1>1, <1>2, <1>4, <3>1 DEF PoolInv, KeysOK
    <2> QED
      BY Zenon, <2>1, <2>2
  <1>10. FreeOK'
    BY Zenon, <1>1, <1>2, PoolAssumption DEF PoolInv, FreeOK
  <1>11. \A y \in Calls : call[y].client # NoOne =>
            /\ call[y].client \in ClientIds /\ call[y].client \notin gone /\ call[y].client # c
            /\ keyOf'[call[y].client] = keyOf[call[y].client]
    <2> SUFFICES ASSUME NEW y \in Calls, call[y].client # NoOne
                 PROVE  /\ call[y].client \in ClientIds /\ call[y].client \notin gone
                        /\ call[y].client # c
                        /\ keyOf'[call[y].client] = keyOf[call[y].client]
      BY Zenon
    <2>1. call[y].client \in ClientIds /\ keyOf[call[y].client] \in RtKeys
      BY DEF PoolInv, PoolTypeOK, CallsOK
    <2>2. call[y].client \notin gone
      BY Zenon, <1>1 DEF IdleClients, Active
    <2>3. call[y].client # c
      BY Zenon, <1>1, <2>1, PoolAssumption
    <2> QED
      BY Zenon, <1>2, <2>1, <2>2, <2>3
  <1>12. keyOf'[c] = k
    BY Zenon, <1>1, <1>2
  <1>13. CallsOK'
    <2> SUFFICES ASSUME NEW y \in Calls
                 PROVE  LET d == call'[y].client IN
                        /\ call'[y].step = "idle" <=> d = NoOne
                        /\ d # NoOne => keyOf'[d] \in RtKeys
                        /\ call'[y].step \in {"failed", "close"} => keyOf'[d] \in KotlinKeys
      BY Zenon DEF CallsOK
    <2>1. CASE call'[y] = call[y]
      BY Zenon, <1>11, <2>1, HasClient DEF PoolInv, CallsOK
    <2>2. CASE call'[y] = [step |-> "wait", client |-> c]
      BY <1>4, <1>12, <2>2
    <2> QED
      BY Zenon, <1>8, <2>1, <2>2
  <1>14. InUseIsPooled'
    <2> SUFFICES ASSUME NEW y \in Calls, call'[y].client # NoOne
                 PROVE  LET d == call'[y].client IN
                        d \in Pooled' \/ keyOf'[d] \in KotlinKeys \/ stopping' = "done"
      BY Zenon DEF InUseIsPooled
    <2>1. CASE call'[y] = call[y]
      BY Zenon, <1>1, <1>11, <2>1 DEF PoolInv, PoolIsAccounted, InUseIsPooled
    <2>2. CASE call'[y] = [step |-> "wait", client |-> c]
      <3>1. call'[y].client = c
        BY <2>2
      <3> QED
        BY Zenon, <1>1, <3>1
    <2> QED
      BY Zenon, <1>8, <2>1, <2>2
  <1>15. ProcessIsPooled'
    BY Zenon, <1>1, <1>2 DEF PoolInv, PoolIsAccounted, ProcessIsPooled
  <1> QED
    BY Zenon, <1>5, <1>7, <1>9, <1>10, <1>13, <1>14, <1>15 DEF PoolInv, PoolIsAccounted

LEMMA CreateKeeps ==
  ASSUME PoolInv, NEW x \in Calls, NEW k \in RtKeys, NEW heavy \in SUBSET IdleClients,
         Create(x, k, heavy)
  PROVE  PoolInv'
  BY Zenon, MakeKeeps DEF Create

LEMMA MakeFailsKeeps ==
  ASSUME PoolInv, NEW k \in RtKeys, MakeFails(k)
  PROVE  PoolInv' /\ Pooled' \subseteq Pooled
  <1>1. Evicted \in SUBSET IdleClients
    BY DEF Evicted, Victims
  <1>2. Drop(Evicted) /\ UNCHANGED <<user, call, stopping>>
    BY DEF MakeFails
  <1> QED
    BY Zenon, <1>1, <1>2, DropKeeps

LEMMA WarmKeeps ==
  ASSUME PoolInv, NEW k \in RtKeys, Warm(k)
  PROVE  PoolInv'
  <1>1. CASE FreeIds # {} /\ \E heavy \in SUBSET IdleClients : Make(k, NewId, heavy)
    BY Zenon, <1>1, MakeKeeps DEF Warm
  <1>2. CASE pool[k] # NoOne /\ UNCHANGED <<pool, keyOf, worker>> /\ Touch({pool[k]})
    <2>1. pool[k] \in ClientIds /\ UNCHANGED <<user, call, stopping>>
      BY Zenon, <1>2 DEF PoolInv, PoolTypeOK, Warm
    <2>2. Pooled' = Pooled /\ Pooled \in SUBSET ClientIds
      BY Zenon, <1>2, PooledClients DEF Pooled, PoolInv
    <2>3. Ordered(Pooled, lastUsed)' /\ lastUsed' \in [ClientIds -> SUBSET ClientIds]
      BY Zenon, <1>2, <2>1, <2>2, TouchOrders
    <2>4. PoolTypeOK' /\ CallsOK'
      BY Zenon, <1>2, <2>1, <2>3 DEF PoolInv, PoolTypeOK, CallsOK
    <2> QED
      BY Zenon, <1>2, <2>1, <2>3, <2>4, SamePool
  <1> QED
    BY Zenon, <1>1, <1>2 DEF Warm

-----------------------------------------------------------------------------
LEMMA PoolNextInv == PoolInv /\ [PoolNext]_poolVars => PoolInv'
  <1> SUFFICES ASSUME PoolInv, [PoolNext]_poolVars PROVE PoolInv'
    OBVIOUS
  <1>1. ASSUME NEW x \in Calls, CallStep(x)
        PROVE  PoolInv'
    BY Zenon, <1>1, AcquireKeeps, WaitEndsKeeps, ReturnsKeeps, DropKotlinKeeps, CloseDroppedKeeps,
       ReleaseKeeps DEF CallStep
  <1>2. ASSUME NEW x \in Calls, NEW k \in RtKeys,
               Reuse(x, k) \/ \E heavy \in SUBSET IdleClients : Create(x, k, heavy)
        PROVE  PoolInv'
    BY Zenon, <1>2, ReuseKeeps, CreateKeeps
  <1>3. ASSUME NEW k \in RtKeys, MakeFails(k) \/ Warm(k)
        PROVE  PoolInv'
    BY Zenon, <1>3, MakeFailsKeeps, WarmKeeps
  <1>4. ASSUME NEW cs \in SUBSET IdleClients, Reap(cs)
        PROVE  PoolInv'
    BY Zenon, <1>4, DropKeeps DEF Reap
  <1>5. ASSUME NEW c \in ClientIds, Crash(c)
        PROVE  PoolInv'
    BY Zenon, <1>5, CrashKeeps
  <1>6. CASE ShutPool \/ ShutRuntimes
    BY Zenon, <1>6, ShutPoolKeeps, ShutRuntimesKeeps
  <1>7. CASE UNCHANGED poolVars
    <2>1. UNCHANGED <<pool, keyOf, worker, user, call, lastUsed, stopping>>
      BY Zenon, <1>7 DEF poolVars
    <2>2. PoolTypeOK' /\ CallsOK'
      BY <2>1 DEF PoolInv, PoolTypeOK, CallsOK
    <2> QED
      BY Zenon, <2>1, <2>2, SameOrder, SamePool
  <1> QED
    BY Zenon, <1>1, <1>2, <1>3, <1>4, <1>5, <1>6, <1>7 DEF PoolNext

\* The inductive invariant of the pool.
THEOREM PoolInvariance == PoolSpec => []PoolInv
  BY PoolInitInv, PoolNextInv, PTL DEF PoolSpec

\* The type invariant, for any calls, keys and clients.
THEOREM PoolTypeCorrect == PoolSpec => []PoolTypeOK
  <1>1. PoolInv => PoolTypeOK
    BY DEF PoolInv
  <1> QED
    BY <1>1, PoolInvariance, PTL

\* Eviction, reaping and the memory bounds never take a runtime that a call was
\* given, and no process outlives its runtime's place in the pool, but for the
\* Kotlin backend and Shutdown (getOrCreateLocked, reapIdle).
THEOREM PoolAccounted == PoolSpec => []PoolIsAccounted
  <1>1. PoolInv => PoolIsAccounted
    BY DEF PoolInv
  <1> QED
    BY <1>1, PoolInvariance, PTL

\* With an idle client in a full pool, a new one replaces another.
LEMMA MakeReplaces ==
  ASSUME PoolInv, NEW k \in RtKeys, FreeIds # {}, NEW heavy \in SUBSET IdleClients,
         Make(k, NewId, heavy), Cardinality(Pooled) >= MaxWorkers, IdleClients # {}
  PROVE  Cardinality(Pooled') <= Cardinality(Pooled)
  <1>1. IdleClients \in SUBSET Pooled /\ Pooled \in SUBSET ClientIds
        /\ Ordered(Pooled, lastUsed)
    BY Zenon, PooledClients DEF IdleClients, PoolInv
  <1>2. PICK v \in IdleClients : lastUsed[v] \cap IdleClients = {}
    BY <1>1, OldestExists
  <1>3. v \in Evicted
    BY Zenon, <1>2 DEF Evicted, Victims
  <1>4. Pooled' \subseteq (Pooled \ {v}) \cup {NewId}
    BY <1>3, MakePool
  <1>5. IsFiniteSet(Pooled) /\ Cardinality(Pooled) \in Nat
    BY Zenon, <1>1, PoolAssumption, FS_Subset, FS_CardinalityType
  <1>6. IsFiniteSet(Pooled \ {v}) /\ Cardinality(Pooled \ {v}) = Cardinality(Pooled) - 1
    BY Zenon, <1>1, <1>2, <1>5, FS_RemoveElement
  <1>7. /\ IsFiniteSet((Pooled \ {v}) \cup {NewId})
        /\ Cardinality((Pooled \ {v}) \cup {NewId}) <= Cardinality(Pooled)
    <2> DEFINE rest == Pooled \ {v}
    <2> HIDE DEF rest
    <2>1. IsFiniteSet(rest) /\ Cardinality(rest) = Cardinality(Pooled) - 1
      BY Zenon, <1>6 DEF rest
    <2>2. /\ IsFiniteSet(rest \cup {NewId})
          /\ \/ Cardinality(rest \cup {NewId}) = Cardinality(rest)
             \/ Cardinality(rest \cup {NewId}) = Cardinality(rest) + 1
      BY Zenon, <2>1, FS_AddElement
    <2>3. Cardinality(rest \cup {NewId}) <= Cardinality(Pooled)
      BY <1>5, <2>1, <2>2
    <2> QED
      BY Zenon, <2>2, <2>3 DEF rest
  <1>8. Cardinality(Pooled') <= Cardinality((Pooled \ {v}) \cup {NewId})
        /\ Cardinality(Pooled') \in Nat /\ Cardinality((Pooled \ {v}) \cup {NewId}) \in Nat
    BY Zenon, <1>4, <1>7, FS_Subset, FS_CardinalityType
  <1> QED
    BY <1>5, <1>7, <1>8

\* Every other step leaves the pool as it is or smaller.
LEMMA OnlyMakeGrows ==
  ASSUME PoolInv, [PoolNext]_poolVars
  PROVE  \/ Pooled' \subseteq Pooled
         \/ FreeIds # {} /\ \E k \in RtKeys, heavy \in SUBSET IdleClients : Make(k, NewId, heavy)
  <1>a. pool' = pool => Pooled' = Pooled
    BY DEF Pooled
  <1>1. ASSUME NEW x \in Calls, DropKotlin(x)
        PROVE  Pooled' \subseteq Pooled
    BY Zenon, <1>1 DEF DropKotlin, Pooled
  <1>2. ASSUME NEW x \in Calls, CallStep(x)
        PROVE  Pooled' \subseteq Pooled
    BY Zenon, <1>1, <1>2, <1>a DEF CallStep, Acquire, WaitEnds, Returns, CloseDropped, Release
  <1>3. ASSUME NEW x \in Calls, NEW k \in RtKeys, Reuse(x, k)
        PROVE  Pooled' \subseteq Pooled
    BY Zenon, <1>3, <1>a DEF Reuse
  <1>4. ASSUME NEW k \in RtKeys, MakeFails(k)
        PROVE  Pooled' \subseteq Pooled
    BY Zenon, <1>4, MakeFailsKeeps
  <1>5. ASSUME NEW cs \in SUBSET IdleClients, Reap(cs)
        PROVE  Pooled' \subseteq Pooled
    BY Zenon, <1>5, DropKeeps DEF Reap
  <1>6. ASSUME NEW c \in ClientIds, Crash(c)
        PROVE  Pooled' \subseteq Pooled
    BY Zenon, <1>6, <1>a DEF Crash
  <1>7. ShutPool \/ UNCHANGED poolVars => Pooled' \subseteq Pooled
    BY <1>a DEF ShutPool, poolVars
  <1>8. ShutRuntimes => Pooled' \subseteq Pooled
    BY Zenon, ShutRuntimesKeeps
  <1>9. ASSUME NEW k \in RtKeys, Warm(k)
        PROVE  \/ Pooled' \subseteq Pooled
               \/ FreeIds # {} /\ \E heavy \in SUBSET IdleClients : Make(k, NewId, heavy)
    BY Zenon, <1>9, <1>a DEF Warm
  <1>10. ASSUME NEW x \in Calls, NEW k \in RtKeys, NEW heavy \in SUBSET IdleClients,
                Create(x, k, heavy)
         PROVE  FreeIds # {} /\ Make(k, NewId, heavy)
    BY <1>10 DEF Create
  <1> QED
    BY Zenon, <1>2, <1>3, <1>4, <1>5, <1>6, <1>7, <1>8, <1>9, <1>10 DEF PoolNext

\* The pool outgrows max_workers only by a runtime made while every pooled one
\* was busy: leastRecentlyUsedIdleRuntime finds a victim among idle ones.
THEOREM PoolBounded == PoolSpec => GrowsOnlyWhenBusy
  <1>1. ASSUME PoolInv, [PoolNext]_poolVars, Cardinality(Pooled) >= MaxWorkers,
               Cardinality(Pooled') > Cardinality(Pooled)
        PROVE  IdleClients = {}
    <2> SUFFICES ASSUME IdleClients # {} PROVE FALSE
      OBVIOUS
    <2>1. IsFiniteSet(Pooled) /\ Cardinality(Pooled) \in Nat
      BY Zenon, <1>1, PooledClients, PoolAssumption, FS_Subset, FS_CardinalityType DEF PoolInv
    <2>2. CASE Pooled' \subseteq Pooled
      <3>1. Cardinality(Pooled') <= Cardinality(Pooled) /\ Cardinality(Pooled') \in Nat
        BY Zenon, <2>1, <2>2, FS_Subset, FS_CardinalityType
      <3> QED
        BY <1>1, <2>1, <3>1
    <2>3. ASSUME FreeIds # {}, NEW k \in RtKeys, NEW heavy \in SUBSET IdleClients,
                 Make(k, NewId, heavy)
          PROVE  FALSE
      <3>1. Cardinality(Pooled') <= Cardinality(Pooled)
        BY Zenon, <1>1, <2>3, MakeReplaces
      <3>2. PoolInv'
        BY Zenon, <1>1, PoolNextInv
      <3>3. Pooled' \in SUBSET ClientIds
        BY <3>2, PooledClients DEF PoolInv, PoolTypeOK, Pooled
      <3>4. Cardinality(Pooled') \in Nat
        BY Zenon, <3>3, PoolAssumption, FS_Subset, FS_CardinalityType
      <3> QED
        BY <1>1, <2>1, <3>1, <3>4
    <2> QED
      BY Zenon, <1>1, <2>2, <2>3, OnlyMakeGrows
  <1> QED
    BY <1>1, PoolInvariance, PTL DEF PoolSpec, GrowsOnlyWhenBusy
=============================================================================
