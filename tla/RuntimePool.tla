---------------------------- MODULE RuntimePool ----------------------------
(***************************************************************************)
(* The daemon's pool of language runtimes (Manager in lifecycle.go): calls *)
(* that share a runtime, the creation and least-recently-used eviction of  *)
(* runtimes, idle reaping, memory bounds, worker crashes, the failure      *)
(* cache and Shutdown.                                                     *)
(***************************************************************************)
EXTENDS Integers, FiniteSets

CONSTANTS
    Calls,      \* goroutines in Manager.Call
    RtKeys,     \* runtime keys
    KotlinKeys, \* those of the Kotlin backend
    RoslynKeys, \* those of the Roslyn worker; the others are generic LSP servers
    MaxWorkers,
    ClientIds,  \* bound: runtimes alive at once, numbered
    NoOne

ASSUME PoolAssumption ==
    /\ IsFiniteSet(ClientIds) /\ MaxWorkers \in Nat
    /\ KotlinKeys \subseteq RtKeys /\ KotlinKeys \cap RoslynKeys = {}
    /\ NoOne \notin ClientIds \cup RtKeys \cup Calls

VARIABLES
    pool,    \* m.runtimes
    keyOf,   \* the key a client was made for
    worker,  \* its process
    user,    \* who holds the client's own mutex
    call,    \* where each caller is and with which client
    lastUsed, \* lastUsedUnix, as the pooled clients that were used before
    stopping \* Manager.Shutdown

poolVars == <<pool, keyOf, worker, user, call, lastUsed, stopping>>

CallSteps == {"idle", "wait", "run", "failed", "close", "release"}
PoolTypeOK ==
    /\ pool \in [RtKeys -> ClientIds \cup {NoOne}]
    /\ keyOf \in [ClientIds -> RtKeys \cup {NoOne}]
    /\ worker \in [ClientIds -> {"none", "up", "dead"}]
    /\ user \in [ClientIds -> Calls \cup {NoOne}]
    /\ call \in [Calls -> [step : CallSteps, client : ClientIds \cup {NoOne}]]
    /\ lastUsed \in [ClientIds -> SUBSET ClientIds]
    /\ stopping \in {"no", "closing", "done"}

Idle == [step |-> "idle", client |-> NoOne]
PoolInit ==
    /\ pool = [k \in RtKeys |-> NoOne]
    /\ keyOf = [c \in ClientIds |-> NoOne]
    /\ worker = [c \in ClientIds |-> "none"]
    /\ user = [c \in ClientIds |-> NoOne]
    /\ call = [x \in Calls |-> Idle]
    /\ lastUsed = [c \in ClientIds |-> {}] /\ stopping = "no"

Pooled == {pool[k] : k \in RtKeys} \ {NoOne}
\* managedRuntime.activeCalls: added in getOrCreateLocked, dropped by releaseRuntime.
Active(c) == {x \in Calls : call[x].client = c}
FreeIds == {c \in ClientIds : keyOf[c] = NoOne}
NewId == CHOOSE c \in FreeIds : TRUE
IdleClients == {c \in Pooled : Active(c) = {}}
\* The manager's mutex; Shutdown keeps it while it closes the runtimes.
MuFree == stopping # "closing"
\* Requests after Shutdown are left out: the process is about to exit.
Open == stopping = "no"
\* touch: lastUsedUnix of a client becomes the newest in the new pool.
Touch(touched) ==
    lastUsed' = [c \in ClientIds |->
        IF c \notin Pooled' THEN {}
        ELSE IF c \in touched THEN Pooled' \ touched
        ELSE (lastUsed[c] \cap Pooled') \ touched]
\* leastRecentlyUsedIdleRuntime.
Victims == {c \in IdleClients : lastUsed[c] \cap IdleClients = {}}
-----------------------------------------------------------------------------
(* Manager.Call                                                            *)

\* Mutant: the pool is full one runtime too late.
EvictedLate == IF Cardinality(Pooled) > MaxWorkers THEN Victims ELSE {}

\* evictLeastRecentlyUsed, once the pool is full.
Evicted == IF Cardinality(Pooled) >= MaxWorkers THEN Victims ELSE {}

\* Mutant: a runtime leaves the pool and its client is not closed.
DropUnclosed(cs) ==
    /\ pool' = [k \in RtKeys |-> IF pool[k] \in cs THEN NoOne ELSE pool[k]]
    /\ Touch({})
    /\ UNCHANGED <<worker, keyOf>>

\* Close idle clients and delete them from the pool.
Drop(cs) ==
    /\ pool' = [k \in RtKeys |-> IF pool[k] \in cs THEN NoOne ELSE pool[k]]
    /\ worker' = [c \in ClientIds |-> IF c \in cs THEN "none" ELSE worker[c]]
    /\ keyOf' = [c \in ClientIds |-> IF c \in cs THEN NoOne ELSE keyOf[c]]
    /\ Touch({})

\* Call, past the failure cache, which only spares it: getOrCreateLocked hits.
Reuse(x, k) ==
    /\ Open /\ call[x] = Idle /\ pool[k] # NoOne
    /\ call' = [call EXCEPT ![x] = [step |-> "wait", client |-> pool[k]]]
    /\ UNCHANGED <<pool, keyOf, worker, user, stopping>>
    /\ Touch({pool[k]})

\* getOrCreateLocked misses: evict, make the client (only the Roslyn worker is
\* started here), then enforceIdleMemoryBoundsLocked closes some idle runtimes.
Make(k, c, heavy) ==
    /\ Open /\ pool[k] = NoOne
    /\ heavy \subseteq IdleClients
    /\ LET gone == Evicted \cup heavy IN
       /\ pool' = [j \in RtKeys |-> IF j = k THEN c ELSE IF pool[j] \in gone THEN NoOne ELSE pool[j]]
       /\ worker' = [d \in ClientIds |-> IF d = c THEN (IF k \in RoslynKeys THEN "up" ELSE "none")
                                         ELSE IF d \in gone THEN "none" ELSE worker[d]]
       /\ keyOf' = [d \in ClientIds |-> IF d = c THEN k ELSE IF d \in gone THEN NoOne ELSE keyOf[d]]
       /\ Touch({c})

Create(x, k, heavy) ==
    /\ call[x] = Idle /\ FreeIds # {} /\ Make(k, NewId, heavy)
    /\ call' = [call EXCEPT ![x] = [step |-> "wait", client |-> NewId]]
    /\ UNCHANGED <<user, stopping>>

\* The client of a call or a warm cannot be made, after the eviction, or the
\* memory bounds close a warmed one at once: the pool is just smaller.
MakeFails(k) ==
    /\ Open /\ pool[k] = NoOne /\ Evicted # {} /\ Drop(Evicted)
    /\ UNCHANGED <<user, call, stopping>>

\* Warm: the runtime is made, or touched, and not marked active.
Warm(k) ==
    /\ Open
    /\ \/ FreeIds # {} /\ \E heavy \in SUBSET IdleClients : Make(k, NewId, heavy)
       \/ pool[k] # NoOne /\ UNCHANGED <<pool, keyOf, worker>> /\ Touch({pool[k]})
    /\ UNCHANGED <<user, call, stopping>>

AfterError(c) == IF keyOf[c] \in KotlinKeys THEN "failed" ELSE "release"

\* client.Call takes the client's mutex and starts the process when it has
\* none; a Roslyn worker that died is not started again.
Acquire(x) ==
    LET c == call[x].client IN
    /\ call[x].step = "wait" /\ user[c] = NoOne
    /\ \/ /\ worker[c] = "dead"
          /\ call' = [call EXCEPT ![x].step = AfterError(c)]
          /\ UNCHANGED <<worker, user>>
       \/ /\ worker[c] # "dead"
          /\ worker' = [worker EXCEPT ![c] = "up"] /\ user' = [user EXCEPT ![c] = x]
          /\ call' = [call EXCEPT ![x].step = "run"]
    /\ UNCHANGED <<pool, keyOf, lastUsed, stopping>>

\* callCtx expires before the client's mutex is free, or the start fails.
WaitEnds(x) ==
    /\ call[x].step = "wait" /\ call' = [call EXCEPT ![x].step = AfterError(call[x].client)]
    /\ UNCHANGED <<pool, keyOf, worker, user, lastUsed, stopping>>

\* Mutant: the process is sampled under the manager's mutex, within the client's.
ReturnsLocked(x) ==
    LET c == call[x].client IN
    /\ call[x].step = "run" /\ MuFree
    /\ user' = [user EXCEPT ![c] = NoOne]
    /\ call' = [call EXCEPT ![x].step = "release"] /\ UNCHANGED worker
    /\ UNCHANGED <<pool, keyOf, stopping>> /\ Touch({c})

\* client.Call returns and updateStatusContext stores the time.
Returns(x) ==
    LET c == call[x].client IN
    /\ call[x].step = "run"
    /\ user' = [user EXCEPT ![c] = NoOne]
    /\ \/ worker[c] = "up" /\ call' = [call EXCEPT ![x].step = "release"] /\ UNCHANGED worker
       \/ call' = [call EXCEPT ![x].step = AfterError(c)] /\ UNCHANGED worker
       \/ call' = [call EXCEPT ![x].step = AfterError(c)] /\ worker' = [worker EXCEPT ![c] = "none"]
    /\ UNCHANGED <<pool, keyOf, stopping>> /\ Touch({c})

\* A Kotlin runtime whose call failed leaves the pool ...
DropKotlin(x) ==
    LET c == call[x].client IN
    /\ call[x].step = "failed" /\ MuFree
    /\ pool' = [k \in RtKeys |-> IF pool[k] = c THEN NoOne ELSE pool[k]]
    /\ call' = [call EXCEPT ![x].step = "close"]
    /\ Touch({})
    /\ UNCHANGED <<keyOf, worker, user, stopping>>

\* ... and is closed: LSPClient.Close stops the process even
\* when another call keeps the mutex for longer than a second.
CloseDropped(x) ==
    /\ call[x].step = "close"
    /\ worker' = [worker EXCEPT ![call[x].client] = "none"]
    /\ call' = [call EXCEPT ![x].step = "release"]
    /\ UNCHANGED <<pool, keyOf, user, lastUsed, stopping>>

\* releaseRuntime; a client nobody refers to any more is garbage.
Release(x) ==
    LET c == call[x].client
        garbage == c \notin Pooled /\ Active(c) = {x} /\ worker[c] # "up"
    IN
    /\ call[x].step = "release" /\ call' = [call EXCEPT ![x] = Idle]
    /\ keyOf' = IF garbage THEN [keyOf EXCEPT ![c] = NoOne] ELSE keyOf
    /\ worker' = IF garbage THEN [worker EXCEPT ![c] = "none"] ELSE worker
    /\ UNCHANGED <<pool, user, lastUsed, stopping>>
-----------------------------------------------------------------------------
\* reapIdle: by idle time, halved under memory pressure, and by memory bounds.
Reap(cs) ==
    /\ Open /\ cs # {} /\ cs \subseteq IdleClients /\ Drop(cs)
    /\ UNCHANGED <<user, call, stopping>>

\* A worker process dies: an LSP client sees it and starts another one.
Crash(c) ==
    /\ worker[c] = "up"
    /\ worker' = [worker EXCEPT ![c] = IF keyOf[c] \in RoslynKeys THEN "dead" ELSE "none"]
    /\ UNCHANGED <<pool, keyOf, user, call, lastUsed, stopping>>

\* Manager.Shutdown: the reaper is joined and the manager locked ...
ShutPool ==
    /\ stopping = "no" /\ stopping' = "closing"
    /\ UNCHANGED <<pool, keyOf, worker, user, call, lastUsed>>

\* ... then every runtime is closed, the Roslyn ones once their call is over.
ShutRuntimes ==
    /\ stopping = "closing"
    /\ \A c \in Pooled : keyOf[c] \in RoslynKeys => user[c] = NoOne
    /\ stopping' = "done"
    /\ pool' = [k \in RtKeys |-> NoOne]
    /\ worker' = [c \in ClientIds |-> IF c \in Pooled THEN "none" ELSE worker[c]]
    /\ keyOf' = [c \in ClientIds |-> IF c \in IdleClients THEN NoOne ELSE keyOf[c]]
    /\ Touch({})
    /\ UNCHANGED <<user, call>>

CallStep(x) ==
    Acquire(x) \/ WaitEnds(x) \/ Returns(x) \/ DropKotlin(x) \/ CloseDropped(x) \/ Release(x)

PoolNext ==
    \/ \E x \in Calls : CallStep(x)
    \/ \E x \in Calls, k \in RtKeys :
           Reuse(x, k) \/ \E heavy \in SUBSET IdleClients : Create(x, k, heavy)
    \/ \E k \in RtKeys : MakeFails(k) \/ Warm(k)
    \/ \E cs \in SUBSET IdleClients : Reap(cs)
    \/ \E c \in ClientIds : Crash(c)
    \/ ShutPool \/ ShutRuntimes

PoolSpec == PoolInit /\ [][PoolNext]_poolVars
-----------------------------------------------------------------------------
\* Eviction, reaping and the memory bounds never take a runtime a call has
\* been given: it stays the one of its key, unless a failed Kotlin call or
\* Shutdown removed it (activeCalls in getOrCreateLocked and reapIdle).
InUseIsPooled ==
    \A x \in Calls : LET c == call[x].client IN
        c # NoOne => c \in Pooled \/ keyOf[c] \in KotlinKeys \/ stopping = "done"

\* The pool outgrows max_workers only by a runtime made while every pooled one
\* was busy (evictLeastRecentlyUsed finds no victim).
GrowsOnlyWhenBusy ==
    [][Cardinality(Pooled) >= MaxWorkers /\ Cardinality(Pooled') > Cardinality(Pooled)
           => IdleClients = {}]_poolVars

\* Outside the Kotlin backend, and until Shutdown, no process outlives its
\* runtime's place in the pool.
ProcessIsPooled ==
    \A c \in ClientIds : worker[c] = "up" /\ keyOf[c] \notin KotlinKeys /\ stopping # "done" => c \in Pooled

\* Both: calls, processes and the pool agree.
PoolIsAccounted == InUseIsPooled /\ ProcessIsPooled

\* Manager.Shutdown waits for the Roslyn calls under the manager's lock, which
\* those calls never need before they leave the client.
ShutdownDrains == stopping = "closing" ~> stopping = "done"
=============================================================================
