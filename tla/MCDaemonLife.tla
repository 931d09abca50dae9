---------------------------- MODULE MCDaemonLife ----------------------------
(* A daemon's life: how it is started and the runtimes it keeps.  They     *)
(* share no state: every behaviour is one of the two parts', chosen at the *)
(* start.  A starter, a restarter that may find nothing to stop, three     *)
(* daemons; two calls, a Roslyn and a Kotlin key, room for one runtime.    *)
EXTENDS DaemonStart, RuntimePool

CONSTANTS s1, r1, d1, d2, d3

VARIABLE part

ThreeDaemons == {d1, d2, d3}

MCInit ==
    /\ part \in {"start", "pool"}
    /\ Init /\ PoolInit

MCNext ==
    \/ part = "start" /\ Next /\ UNCHANGED <<part, poolVars>>
    \/ part = "pool" /\ PoolNext /\ UNCHANGED <<part, vars>>

\* Processes run; nothing else is promised.
StartFairness ==
    /\ \A c \in Callers : WF_vars(part = "start" /\ CallerNext(c))
    /\ \A d \in Daemons : WF_vars(part = "start" /\ DaemonNext(d))
\* Every call ends within callTimeout and Shutdown, once begun, goes on.
PoolFairness ==
    /\ WF_poolVars(part = "pool" /\ ShutRuntimes)
    /\ \A x \in Calls : WF_poolVars(part = "pool" /\ CallStep(x))
MCSpec ==
    /\ MCInit /\ [][MCNext]_<<part, vars, poolVars>>
    /\ StartFairness /\ PoolFairness
-----------------------------------------------------------------------------
\* DaemonStart: an undisturbed start ends by naming a daemon that serves.
StartsSucceed == \A c \in Starters : <>(part = "start" => Started(c))
=============================================================================
