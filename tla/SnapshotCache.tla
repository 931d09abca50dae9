--------------------------- MODULE SnapshotCache ---------------------------
(***************************************************************************)
(* The cache of worktree graph snapshots of service/graph_query.go: one    *)
(* in-memory database per worktree fingerprint, built once for all the     *)
(* queries that ask for it at the same time, counted while in use, and     *)
(* closed when more than maxWorktreeGraphSnapshots are kept.  Every action *)
(* is one critical section of worktreeGraphCache's mutex; the databases it *)
(* evicts or discards are closed right after it, with nobody left who can  *)
(* find them, so the close is part of the action.                          *)
(***************************************************************************)
EXTENDS Integers, FiniteSets

CONSTANTS
    Readers,      \* graph queries
    SnapKeys,     \* worktreeGraphCacheKey
    Flights,      \* bound: flights (each with the entry it builds) at once
    MaxSnapshots, \* maxWorktreeGraphSnapshots
    NoFlight

ASSUME SnapshotAssumption ==
    /\ IsFiniteSet(Readers) /\ IsFiniteSet(SnapKeys) /\ IsFiniteSet(Flights)
    /\ SnapKeys # {} /\ MaxSnapshots \in Nat /\ NoFlight \notin Flights

VARIABLES
    reader,   \* where each query is, and with which flight's entry
    flight,   \* worktreeGraphFlight
    snap,     \* the database of the entry a flight built
    inUse,    \* entry.inUse
    entryOf,  \* worktreeGraphCache.entries
    flightOf, \* worktreeGraphCache.flights
    lastUsed  \* entry.lastUsed, as the cached entries that were used before

snapVars == <<reader, flight, snap, inUse, entryOf, flightOf, lastUsed>>

FlightState == [key : SnapKeys, waiters : Nat, live : BOOLEAN,
                result : {"none", "ok", "failed", "canceled"}]
SnapshotTypeOK ==
    /\ reader \in [Readers -> [at : {"idle", "wait", "hold"}, id : Flights \cup {NoFlight}]]
    /\ flight \in [Flights -> FlightState]
    /\ snap \in [Flights -> {"none", "open", "closed"}]
    /\ inUse \in [Flights -> Nat]
    /\ entryOf \in [SnapKeys -> Flights \cup {NoFlight}]
    /\ flightOf \in [SnapKeys -> Flights \cup {NoFlight}]
    /\ lastUsed \in [Flights -> SUBSET Flights]

Away == [at |-> "idle", id |-> NoFlight]
Waits(r, f) == reader[r] = [at |-> "wait", id |-> f]
Holds(r, f) == reader[r] = [at |-> "hold", id |-> f]
Landed == [key |-> CHOOSE k \in SnapKeys : TRUE, waiters |-> 0, live |-> FALSE,
           result |-> "canceled"]

SnapshotInit ==
    /\ reader = [r \in Readers |-> Away]
    /\ flight = [f \in Flights |-> Landed]
    /\ snap = [f \in Flights |-> "none"]
    /\ inUse = [f \in Flights |-> 0]
    /\ entryOf = [k \in SnapKeys |-> NoFlight]
    /\ flightOf = [k \in SnapKeys |-> NoFlight]
    /\ lastUsed = [f \in Flights |-> {}]

\* A flight nobody can reach any more: its number is free for the next one.
Unused(f) ==
    /\ flight[f].result # "none"
    /\ \A r \in Readers : reader[r].id # f
    /\ \A k \in SnapKeys : entryOf[k] # f

Less(n) == IF n > 0 THEN n - 1 ELSE 0
Kept(entries) == {f \in Flights : \E k \in SnapKeys : entries[k] = f}
Newest(order, entries, f) ==
    [g \in Flights |-> IF g = f THEN Kept(entries) \ {f} ELSE order[g] \ {f}]

VictimsInUse(entries, uses, order) ==
    {f \in Kept(entries) : Cardinality(order[f]) < Cardinality(Kept(entries)) - MaxSnapshots}
\* The oldest entries not in use, as many as the cache is over its size.
Victims(entries, uses, order) ==
    LET idle == {f \in Kept(entries) : uses[f] = 0}
        over == Cardinality(Kept(entries)) - MaxSnapshots
    IN  {f \in idle : Cardinality(order[f] \cap idle) < over}

\* pruneWorktreeGraphSnapshotsLocked and closeWorktreeGraphSnapshots; `built` is
\* the database the critical section opened, or discarded.
Prune(entries, uses, order, built) ==
    LET gone == Victims(entries, uses, order)
    IN  /\ entryOf' = [k \in SnapKeys |->
                         IF entries[k] \in gone THEN NoFlight ELSE entries[k]]
        /\ snap' = [f \in Flights |-> IF f \in gone THEN "closed" ELSE built[f]]
        /\ lastUsed' = [f \in Flights |-> IF f \in gone THEN {} ELSE order[f] \ gone]
        /\ inUse' = uses

----------------------------------------------------------------------------
Hit(r, k) ==
    LET f == entryOf[k]
    IN  /\ f # NoFlight
        /\ reader' = [reader EXCEPT ![r] = [at |-> "hold", id |-> f]]
        /\ inUse' = [inUse EXCEPT ![f] = @ + 1]
        /\ lastUsed' = Newest(lastUsed, entryOf, f)
        /\ UNCHANGED <<flight, snap, entryOf, flightOf>>

Share(r, k) ==
    LET f == flightOf[k]
    IN  /\ entryOf[k] = NoFlight /\ f # NoFlight
        /\ reader' = [reader EXCEPT ![r] = [at |-> "wait", id |-> f]]
        /\ flight' = [flight EXCEPT ![f].waiters = @ + 1]
        /\ UNCHANGED <<snap, inUse, entryOf, flightOf, lastUsed>>

Launch(r, k) ==
    /\ entryOf[k] = NoFlight /\ flightOf[k] = NoFlight
    /\ \E f \in Flights :
        /\ Unused(f)
        /\ reader' = [reader EXCEPT ![r] = [at |-> "wait", id |-> f]]
        /\ flight' = [flight EXCEPT ![f] = [key |-> k, waiters |-> 1, live |-> TRUE,
                                            result |-> "none"]]
        /\ snap' = [snap EXCEPT ![f] = "none"]
        /\ flightOf' = [flightOf EXCEPT ![k] = f]
        /\ UNCHANGED <<inUse, entryOf, lastUsed>>

\* acquireWorktreeGraphSnapshot up to its wait.
AcquireSnapshot(r) ==
    /\ reader[r] = Away
    /\ \E k \in SnapKeys : Hit(r, k) \/ Share(r, k) \/ Launch(r, k)

\* The flight is no longer the one its key's queries share.
Unlisted(f) == [k \in SnapKeys |-> IF flightOf[k] = f THEN NoFlight ELSE flightOf[k]]

\* completeWorktreeGraphFlight: the build may end well even though it was cancelled.
Welcome(f) ==
    /\ flight[f].live /\ flight[f].waiters > 0
    /\ flightOf[flight[f].key] = f
Complete(f, built) ==
    LET keep == built /\ Welcome(f)
        entries == IF keep THEN [entryOf EXCEPT ![flight[f].key] = f] ELSE entryOf
        result == IF keep THEN "ok" ELSE IF built THEN "canceled" ELSE "failed"
    IN  /\ flight[f].result = "none"
        /\ flight' = [flight EXCEPT ![f].result = result, ![f].live = FALSE]
        /\ flightOf' = Unlisted(f)
        /\ Prune(entries,
                 IF keep THEN [inUse EXCEPT ![f] = flight[f].waiters] ELSE inUse,
                 IF keep THEN Newest(lastUsed, entries, f) ELSE lastUsed,
                 [snap EXCEPT ![f] = IF keep THEN "open" ELSE IF built THEN "closed" ELSE @])
        /\ UNCHANGED reader

\* waitWorktreeGraphSnapshot when the flight is done and the query still wanted.
Wake(r) ==
    LET f == reader[r].id
    IN  /\ reader[r].at = "wait" /\ flight[f].result # "none"
        /\ flight' = [flight EXCEPT ![f].waiters = Less(@)]
        /\ IF flight[f].result = "ok"
           THEN /\ reader' = [reader EXCEPT ![r] = [at |-> "hold", id |-> f]]
                /\ lastUsed' = Newest(lastUsed, entryOf, f)
           ELSE /\ reader' = [reader EXCEPT ![r] = Away]
                /\ UNCHANGED lastUsed
        /\ UNCHANGED <<snap, inUse, entryOf, flightOf>>

\* cancelWorktreeGraphWaiter: the query's context ended first, or together.
GiveUpDone(r) ==
    LET f == reader[r].id
    IN  /\ reader[r].at = "wait" /\ flight[f].result # "none"
        /\ flight' = [flight EXCEPT ![f].waiters = Less(@)]
        /\ reader' = [reader EXCEPT ![r] = Away]
        /\ Prune(entryOf,
                 IF flight[f].result = "ok" THEN [inUse EXCEPT ![f] = Less(@)] ELSE inUse,
                 lastUsed, snap)
        /\ UNCHANGED flightOf

\* A flight is cancelled by its last waiter only.
AbandonedByAny(n) == TRUE
Abandoned(n) == n = 0
GiveUpEarly(r) ==
    LET f == reader[r].id
        left == Less(flight[f].waiters)
    IN  /\ reader[r].at = "wait" /\ flight[f].result = "none"
        /\ flight' = [flight EXCEPT ![f].waiters = left,
                                    ![f].live = @ /\ ~Abandoned(left)]
        /\ flightOf' = IF Abandoned(left) THEN Unlisted(f) ELSE flightOf
        /\ reader' = [reader EXCEPT ![r] = Away]
        /\ Prune(entryOf, inUse, lastUsed, snap)

\* releaseWorktreeGraphSnapshot, after the query.
ReleaseSnapshot(r) ==
    LET f == reader[r].id
        uses == [inUse EXCEPT ![f] = Less(@)]
    IN  /\ reader[r].at = "hold"
        /\ reader' = [reader EXCEPT ![r] = Away]
        /\ Prune(entryOf, uses,
                 IF uses[f] = 0 THEN Newest(lastUsed, entryOf, f) ELSE lastUsed, snap)
        /\ UNCHANGED <<flight, flightOf>>

SnapshotNext ==
    \/ \E r \in Readers :
         AcquireSnapshot(r) \/ Wake(r) \/ GiveUpDone(r) \/ GiveUpEarly(r) \/ ReleaseSnapshot(r)
    \/ \E f \in Flights, built \in BOOLEAN : Complete(f, built)

SnapshotSpec == SnapshotInit /\ [][SnapshotNext]_snapVars

----------------------------------------------------------------------------
\* A query never works on a database that was closed under it: from the moment its
\* flight has a result until it releases, the snapshot is open and still cached.
HeldIsOpen ==
    \A r \in Readers, f \in Flights :
        Holds(r, f) \/ (Waits(r, f) /\ flight[f].result = "ok")
        => snap[f] = "open" /\ entryOf[flight[f].key] = f

\* No database is lost: an open one is in the cache, where pruning finds it, and the
\* cache is over its size only while every snapshot in it is being used.
OpenIsCached ==
    /\ \A f \in Flights : snap[f] = "open" => \E k \in SnapKeys : entryOf[k] = f
    /\ Cardinality(Kept(entryOf)) > MaxSnapshots => \A f \in Kept(entryOf) : inUse[f] > 0

\* Snapshots are accounted for: none is closed in use, none is lost
\* (acquire, complete, release and prune of worktreeGraphCache).
SnapshotsAreAccounted == HeldIsOpen /\ OpenIsCached

\* A query that gives up never spoils the others that share its flight: whoever still
\* waits is told of the build's own result, never of somebody else's cancellation.
CancelHurtsNobody ==
    \A r \in Readers, f \in Flights :
        Waits(r, f) => /\ flight[f].result # "canceled"
                       /\ flight[f].result = "none" => flight[f].live
=============================================================================
