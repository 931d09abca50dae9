------------------------ MODULE SnapshotBuildProofs -------------------------
(***************************************************************************)
(* The inductive invariant of SnapshotCache, for any number of queries,    *)
(* keys and flights and any size of the cache, and the steps that find,    *)
(* share and start a build.  SnapshotCacheProofs has the steps that        *)
(* complete a build or stop waiting or using, and the theorems.            *)
(***************************************************************************)
EXTENDS SnapshotCache, FiniteSetTheorems, TLAPS

(* The order of last uses is a strict total order of the cached entries K. *)
Ordered(K, lu) ==
    \A f \in Flights :
        /\ lu[f] \subseteq K \ {f}
        /\ f \notin K => lu[f] = {}
        /\ \A g \in lu[f] : lu[g] \subseteq lu[f]
        /\ \A g \in K : f \in K /\ f # g => f \in lu[g] \/ g \in lu[f]

LEMMA IntervalSize ==
  ASSUME NEW n \in Nat
  PROVE  IsFiniteSet(0..(n - 1)) /\ Cardinality(0..(n - 1)) = n
  <1>1. 0 \in Int /\ n - 1 \in Int
    OBVIOUS
  <1>2. IsFiniteSet(0..(n - 1))
        /\ Cardinality(0..(n - 1)) = IF 0 > n - 1 THEN 0 ELSE (n - 1) - 0 + 1
    BY <1>1, FS_Interval
  <1> QED
    BY <1>2

LEMMA KeptFinite ==
  ASSUME NEW en
  PROVE  Kept(en) \in SUBSET Flights /\ IsFiniteSet(Kept(en)) /\ Cardinality(Kept(en)) \in Nat
  <1>1. Kept(en) \in SUBSET Flights
    BY DEF Kept
  <1> QED
    BY <1>1, SnapshotAssumption, FS_Subset, FS_CardinalityType

\* An idle entry is spared only when the victims make up for all that the cache
\* is over its size.
LEMMA VictimCount ==
  ASSUME NEW us \in [Flights -> Nat], NEW en, NEW lu, Ordered(Kept(en), lu),
         NEW e \in Kept(en) \ Victims(en, us, lu), us[e] = 0,
         Cardinality(Kept(en)) - MaxSnapshots \in Nat
  PROVE  Cardinality(Victims(en, us, lu)) = Cardinality(Kept(en)) - MaxSnapshots
  <1> DEFINE K == Kept(en)
             I == {f \in K : us[f] = 0}
             n == Cardinality(Kept(en)) - MaxSnapshots
             G == Victims(en, us, lu)
  <1>a. K \in SUBSET Flights /\ IsFiniteSet(K) /\ Ordered(K, lu) /\ n \in Nat
    BY KeptFinite
  <1>b. I \in SUBSET K /\ IsFiniteSet(I) /\ e \in I
    BY <1>a, FS_Subset
  <1>c. G \in SUBSET I /\ (\A f \in I : f \in G <=> Cardinality(lu[f] \cap I) < n)
        /\ ~(Cardinality(lu[e] \cap I) < n)
    BY <1>b DEF Victims
  <1> SUFFICES Cardinality(G) = n
    OBVIOUS
  <1> HIDE DEF K, I, n, G
  <1> USE <1>a, <1>b, <1>c
  <1> DEFINE Rank == [f \in I |-> Cardinality(lu[f] \cap I)]
             m == Cardinality(I)
  <1>1. m \in Nat
    BY FS_CardinalityType
  <1>2. ASSUME NEW f \in I
        PROVE  /\ IsFiniteSet(lu[f] \cap I)
               /\ Cardinality(lu[f] \cap I) \in 0..(m - 1)
    <2>1. lu[f] \cap I \in SUBSET I /\ f \notin lu[f] \cap I
      BY DEF Ordered
    <2>2. IsFiniteSet(lu[f] \cap I) /\ Cardinality(lu[f] \cap I) <= m
          /\ Cardinality(lu[f] \cap I) # m
      BY <2>1, FS_Subset
    <2>3. Cardinality(lu[f] \cap I) \in Nat
      BY <2>2, FS_CardinalityType
    <2> QED
      BY <1>1, <2>2, <2>3
  <1>3. ASSUME NEW f \in I, NEW g \in I, f \in lu[g]
        PROVE  Cardinality(lu[f] \cap I) # Cardinality(lu[g] \cap I)
    <2>1. lu[f] \cap I \in SUBSET (lu[g] \cap I)
      BY <1>3 DEF Ordered
    <2>2. f \in lu[g] \cap I /\ f \notin lu[f] \cap I
      BY <1>3 DEF Ordered
    <2> QED
      BY Zenon, <1>2, <2>1, <2>2, FS_Subset
  <1>4. Rank \in Injection(I, 0..(m - 1))
    <2>1. Rank \in [I -> 0..(m - 1)]
      BY <1>2
    <2>2. \A f, g \in I : f # g => Rank[f] # Rank[g]
      BY <1>3 DEF Ordered
    <2> QED
      BY Zenon, <2>1, <2>2 DEF Injection, IsInjective
  <1>5. IsFiniteSet(0..(m - 1)) /\ Cardinality(0..(m - 1)) = m
    BY <1>1, IntervalSize
  <1>6. Rank \in Surjection(I, 0..(m - 1))
    <2> HIDE DEF Rank
    <2> QED
      BY <1>4, <1>5, FS_Injection
  <1>7. n <= m - 1
    <2>1. Cardinality(lu[e] \cap I) \in 0..(m - 1)
      BY Zenon, <1>2
    <2> HIDE DEF m
    <2> QED
      BY <1>1, <2>1
  <1> DEFINE Low == [f \in G |-> Rank[f]]
  <1>8. Low \in Bijection(G, 0..(n - 1))
    <2>1. Low \in [G -> 0..(n - 1)]
      <3> SUFFICES ASSUME NEW f \in G PROVE Rank[f] \in 0..(n - 1)
        BY Zenon
      <3>1. f \in I /\ Rank[f] = Cardinality(lu[f] \cap I) /\ Rank[f] < n
        OBVIOUS
      <3>2. Rank[f] \in 0..(m - 1)
        BY Zenon, <1>2, <3>1
      <3> HIDE DEF Rank, m
      <3> QED
        BY <1>1, <3>1, <3>2
    <2>2. \A f, g \in G : Low[f] = Low[g] => f = g
      BY Zenon, <1>4 DEF Injection, IsInjective
    <2>3. ASSUME NEW i \in 0..(n - 1)
          PROVE  \E f \in G : Low[f] = i
      <3>1. i \in 0..(m - 1) /\ i < n
        BY <1>1, <1>7
      <3>2. PICK f \in I : Rank[f] = i
        BY Zenon, <1>6, <3>1 DEF Surjection
      <3>3. f \in G
        BY <3>1, <3>2
      <3> QED
        BY Zenon, <3>2, <3>3
    <2> QED
      BY Zenon, <2>1, <2>2, <2>3 DEF Bijection, Injection, IsInjective, Surjection
  <1>9. IsFiniteSet(0..(n - 1)) /\ Cardinality(0..(n - 1)) = n
    BY IntervalSize
  <1>10. IsFiniteSet(G)
    BY FS_Subset
  <1>11. ExistsBijection(G, 0..(n - 1))
    <2> HIDE DEF Low
    <2> QED
      BY <1>8 DEF ExistsBijection
  <1>12. Cardinality(0..(n - 1)) = Cardinality(G)
    BY <1>10, <1>11, FS_Bijection
  <1> QED
    BY <1>9, <1>12

\* Using an entry makes it the newest.
LEMMA NewestOrdered ==
  ASSUME NEW K \in SUBSET Flights, NEW lu \in [Flights -> SUBSET Flights], Ordered(K, lu),
         NEW f \in Flights, NEW en, Kept(en) = K \cup {f}
  PROVE  /\ Ordered(K \cup {f}, Newest(lu, en, f))
         /\ Newest(lu, en, f) \in [Flights -> SUBSET Flights]
  <1>1. \A g \in Flights : Newest(lu, en, f)[g] = IF g = f THEN K \ {f} ELSE lu[g] \ {f}
    BY Zenon DEF Newest
  <1>2. Newest(lu, en, f) \in [Flights -> SUBSET Flights]
    BY DEF Newest
  <1> QED
    BY <1>1, <1>2 DEF Ordered

\* Entries leave the order with the cache.
LEMMA LessOrdered ==
  ASSUME NEW K \in SUBSET Flights, NEW lu, Ordered(K, lu), NEW D \in SUBSET K
  PROVE  Ordered(K \ D, [f \in Flights |-> IF f \in D THEN {} ELSE lu[f] \ D])
  BY DEF Ordered

-----------------------------------------------------------------------------
(* The inductive invariant, over any readers rd, flights fl, databases sn, *)
(* use counts us, entries en, shared flights fo and order lu, so that it   *)
(* can be stated in the middle of a critical section, before Prune.        *)
Users(rd, f) == {r \in Readers : rd[r].id = f}
Waiters(rd, f) == {r \in Readers : rd[r].id = f /\ rd[r].at = "wait"}

Typed(rd, fl, sn, us, en, fo, lu) ==
    /\ rd \in [Readers -> [at : {"idle", "wait", "hold"}, id : Flights \cup {NoFlight}]]
    /\ fl \in [Flights -> FlightState]
    /\ sn \in [Flights -> {"none", "open", "closed"}]
    /\ us \in [Flights -> Nat]
    /\ en \in [SnapKeys -> Flights \cup {NoFlight}]
    /\ fo \in [SnapKeys -> Flights \cup {NoFlight}]
    /\ lu \in [Flights -> SUBSET Flights]

(* A query that is not idle has a flight, and waits for one only while     *)
(* nobody cancelled it.                                                    *)
ReadersOK(rd, fl) ==
    \A r \in Readers :
        /\ rd[r].at = "idle" <=> rd[r].id = NoFlight
        /\ rd[r].at = "wait" => /\ fl[rd[r].id].result # "canceled"
                                /\ fl[rd[r].id].result = "none" => fl[rd[r].id].live
        /\ rd[r].at = "hold" => fl[rd[r].id].result = "ok"

(* waiters and inUse count the queries.                                    *)
Counted(rd, fl, us) ==
    \A f \in Flights :
        /\ fl[f].waiters = Cardinality(Waiters(rd, f))
        /\ us[f] = IF fl[f].result = "ok" THEN Cardinality(Users(rd, f)) ELSE 0

(* Entries are open databases of finished flights, an open database has an *)
(* entry, and a key has an entry, a flight that is live, or neither.       *)
Listed(fl, sn, en, fo) ==
    /\ \A k \in SnapKeys, f \in Flights :
        /\ en[k] = f => fl[f].result = "ok" /\ fl[f].key = k /\ sn[f] = "open"
        /\ fo[k] = f => /\ fl[f].result = "none" /\ fl[f].key = k /\ fl[f].live
                        /\ en[k] = NoFlight
    /\ \A f \in Flights : /\ fl[f].live => fo[fl[f].key] = f
                          /\ sn[f] = "open" => en[fl[f].key] = f

(* What a query has, or will be given, is open.                            *)
UsedIsOpen(rd, fl, sn) ==
    \A f \in Flights : fl[f].result = "ok" /\ Users(rd, f) # {} => sn[f] = "open"

CacheInv(rd, fl, sn, us, en, fo, lu) ==
    /\ Typed(rd, fl, sn, us, en, fo, lu)
    /\ ReadersOK(rd, fl)
    /\ Counted(rd, fl, us)
    /\ Listed(fl, sn, en, fo)
    /\ UsedIsOpen(rd, fl, sn)
    /\ Ordered(Kept(en), lu)

WithinSize(us, en) ==
    Cardinality(Kept(en)) > MaxSnapshots => \A f \in Kept(en) : us[f] > 0

SnapInv ==
    /\ CacheInv(reader, flight, snap, inUse, entryOf, flightOf, lastUsed)
    /\ WithinSize(inUse, entryOf)

LEMMA ReadersFinite ==
  ASSUME NEW S \in SUBSET Readers
  PROVE  IsFiniteSet(S) /\ Cardinality(S) \in Nat /\ (Cardinality(S) = 0 <=> S = {})
  BY SnapshotAssumption, FS_Subset, FS_CardinalityType, FS_EmptySet

\* pruneWorktreeGraphSnapshotsLocked brings the cache to its size unless the
\* rest is in use.
LEMMA PruneSize ==
  ASSUME NEW us \in [Flights -> Nat], NEW en, NEW lu, Ordered(Kept(en), lu)
  PROVE  Cardinality(Kept(en) \ Victims(en, us, lu)) > MaxSnapshots
           => \A f \in Kept(en) \ Victims(en, us, lu) : us[f] > 0
  <1> DEFINE K == Kept(en)
             D == Victims(en, us, lu)
             over == Cardinality(K) - MaxSnapshots
  <1>1. K \in SUBSET Flights /\ IsFiniteSet(K) /\ Cardinality(K) \in Nat /\ MaxSnapshots \in Nat
    BY KeptFinite, SnapshotAssumption
  <1>2. D \in SUBSET K
    BY DEF Victims
  <1>3. \A f \in K \ D : us[f] = 0 /\ over \in Nat => Cardinality(D) = over
    BY VictimCount
  <1> HIDE DEF K, D
  <1>4. IsFiniteSet(K \ D) /\ Cardinality(K \ D) = Cardinality(K) - Cardinality(D)
        /\ Cardinality(K \ D) <= Cardinality(K) /\ Cardinality(K \ D) \in Nat
    <2>1. K \cap D = D /\ K \ D \in SUBSET K
      BY <1>2
    <2> QED
      BY ZenonT(60), <1>1, <2>1, FS_Difference, FS_Subset, FS_CardinalityType
  <1>5. ASSUME Cardinality(K \ D) > MaxSnapshots, NEW f \in K \ D, ~(us[f] > 0)
        PROVE  FALSE
    <2>1. us[f] = 0
      BY <1>1, <1>5
    <2>2. over \in Nat
      BY <1>1, <1>4, <1>5
    <2>3. Cardinality(D) = over
      BY <1>3, <2>1, <2>2
    <2> QED
      BY <1>1, <1>4, <1>5, <2>3
  <1> QED
    BY <1>5 DEF K, D

\* Prune keeps the invariant: it closes databases nobody uses.
LEMMA PruneKeeps ==
  ASSUME NEW rd, NEW fl, NEW sn, NEW us, NEW en, NEW fo, NEW lu,
         CacheInv(rd, fl, sn, us, en, fo, lu), Prune(en, us, lu, sn)
  PROVE  CacheInv(rd, fl, snap', inUse', entryOf', fo, lastUsed') /\ WithinSize(inUse', entryOf')
  <1> DEFINE D == Victims(en, us, lu)
  <1>1. /\ entryOf' = [k \in SnapKeys |-> IF en[k] \in D THEN NoFlight ELSE en[k]]
        /\ snap' = [f \in Flights |-> IF f \in D THEN "closed" ELSE sn[f]]
        /\ lastUsed' = [f \in Flights |-> IF f \in D THEN {} ELSE lu[f] \ D]
        /\ inUse' = us
    BY DEF Prune
  <1>2. D \in SUBSET Kept(en) /\ \A f \in D : f \in Flights /\ us[f] = 0
    BY DEF Victims, Kept
  <1> HIDE DEF D
  <1> USE DEF CacheInv
  <1>3. NoFlight \notin Flights
    BY SnapshotAssumption
  <1>4. Kept(entryOf') = Kept(en) \ D
    BY <1>1, <1>2, <1>3 DEF Kept
  <1>5. \A f \in D : fl[f].result = "ok" /\ Users(rd, f) = {}
    <2> TAKE f \in D
    <2>1. fl[f].result = "ok"
      BY <1>2 DEF Listed, Kept
    <2>2. Cardinality(Users(rd, f)) = 0
      BY <1>2, <2>1 DEF Counted
    <2> QED
      BY <2>1, <2>2, ReadersFinite DEF Users
  <1>6. Typed(rd, fl, snap', inUse', entryOf', fo, lastUsed')
    BY <1>1 DEF Typed
  <1>7. Listed(fl, snap', entryOf', fo)
    <2>1. ASSUME NEW k \in SnapKeys, NEW f \in Flights, entryOf'[k] = f
          PROVE  fl[f].result = "ok" /\ fl[f].key = k /\ snap'[f] = "open"
      <3>1. en[k] = f /\ f \notin D
        BY <1>1, <1>3, <2>1
      <3> QED
        BY <1>1, <3>1 DEF Listed
    <2>2. ASSUME NEW k \in SnapKeys, NEW f \in Flights, fo[k] = f
          PROVE  fl[f].result = "none" /\ fl[f].key = k /\ fl[f].live /\ entryOf'[k] = NoFlight
      BY <1>1, <2>2 DEF Listed
    <2>3. ASSUME NEW f \in Flights, snap'[f] = "open"
          PROVE  entryOf'[fl[f].key] = f
      <3>1. f \notin D /\ sn[f] = "open"
        BY <1>1, <2>3
      <3>2. fl[f].key \in SnapKeys /\ en[fl[f].key] = f
        BY <3>1 DEF Typed, FlightState, Listed
      <3> QED
        BY <1>1, <3>1, <3>2
    <2> QED
      BY <2>1, <2>2, <2>3 DEF Listed
  <1>8. UsedIsOpen(rd, fl, snap')
    BY <1>1, <1>5 DEF UsedIsOpen
  <1>9. Ordered(Kept(entryOf'), lastUsed')
    <2>1. Kept(en) \in SUBSET Flights
      BY DEF Kept
    <2>2. Ordered(Kept(en) \ D, [f \in Flights |-> IF f \in D THEN {} ELSE lu[f] \ D])
      BY <1>2, <2>1, LessOrdered
    <2> QED
      BY Zenon, <1>1, <1>4, <2>2
  <1>10. WithinSize(inUse', entryOf')
    BY <1>1, <1>4, PruneSize DEF WithinSize, Typed, D
  <1> QED
    BY <1>1, <1>6, <1>7, <1>8, <1>9, <1>10

-----------------------------------------------------------------------------
ReaderStates == [Readers -> [at : {"idle", "wait", "hold"}, id : Flights \cup {NoFlight}]]

Moved(rd, rd2, r, a, f) == rd2 = [rd EXCEPT ![r] = [at |-> a, id |-> f]]

LEMMA UserSets ==
  ASSUME NEW rd, NEW f
  PROVE  /\ Users(rd, f) \in SUBSET Readers /\ Waiters(rd, f) \in SUBSET Readers
         /\ IsFiniteSet(Users(rd, f)) /\ IsFiniteSet(Waiters(rd, f))
         /\ Cardinality(Users(rd, f)) \in Nat /\ Cardinality(Waiters(rd, f)) \in Nat
  <1>1. Users(rd, f) \in SUBSET Readers /\ Waiters(rd, f) \in SUBSET Readers
    BY DEF Users, Waiters
  <1> QED
    BY <1>1, ReadersFinite

\* A query that comes is one more user of its flight.
LEMMA Arrives ==
  ASSUME NEW rd \in ReaderStates, NEW r \in Readers, rd[r] = Away, NEW f \in Flights,
         NEW a \in {"wait", "hold"}, NEW rd2, Moved(rd, rd2, r, a, f)
  PROVE  /\ rd2 \in ReaderStates
         /\ rd2[r].at = a /\ rd2[r].id = f
         /\ \A q \in Readers \ {r} : rd2[q] = rd[q]
         /\ Cardinality(Users(rd2, f)) = Cardinality(Users(rd, f)) + 1
         /\ Cardinality(Waiters(rd2, f)) =
              IF a = "wait" THEN Cardinality(Waiters(rd, f)) + 1 ELSE Cardinality(Waiters(rd, f))
         /\ \A g \in Flights \ {f} :
              Users(rd2, g) = Users(rd, g) /\ Waiters(rd2, g) = Waiters(rd, g)
  <1>1. /\ rd2 \in ReaderStates /\ rd2[r].at = a /\ rd2[r].id = f
        /\ \A q \in Readers \ {r} : rd2[q] = rd[q]
    BY DEF ReaderStates, Moved
  <1>2. rd[r].id = NoFlight /\ rd[r].at = "idle" /\ NoFlight \notin Flights
    BY SnapshotAssumption DEF Away
  <1>3. Users(rd2, f) = Users(rd, f) \cup {r} /\ r \notin Users(rd, f)
    BY <1>1, <1>2 DEF Users
  <1>4. Waiters(rd2, f) = IF a = "wait" THEN Waiters(rd, f) \cup {r} ELSE Waiters(rd, f)
    BY <1>1, <1>2 DEF Waiters
  <1>5. r \notin Waiters(rd, f)
    BY <1>2 DEF Waiters
  <1>6. \A g \in Flights \ {f} :
          Users(rd2, g) = Users(rd, g) /\ Waiters(rd2, g) = Waiters(rd, g)
    BY <1>1, <1>2 DEF Users, Waiters
  <1>7. Cardinality(Users(rd, f) \cup {r}) = Cardinality(Users(rd, f)) + 1
    BY Zenon, <1>3, UserSets, FS_AddElement
  <1>8. Cardinality(Waiters(rd, f) \cup {r}) = Cardinality(Waiters(rd, f)) + 1
    BY Zenon, <1>5, UserSets, FS_AddElement
  <1> QED
    BY <1>1, <1>3, <1>4, <1>6, <1>7, <1>8

\* A query that leaves is one user less.
LEMMA Leaves ==
  ASSUME NEW rd \in ReaderStates, NEW r \in Readers, NEW f \in Flights, rd[r].id = f,
         NEW rd2, Moved(rd, rd2, r, "idle", NoFlight)
  PROVE  /\ rd2 \in ReaderStates
         /\ rd2[r].at = "idle" /\ rd2[r].id = NoFlight
         /\ \A q \in Readers \ {r} : rd2[q] = rd[q]
         /\ Users(rd2, f) = Users(rd, f) \ {r}
         /\ Cardinality(Users(rd, f)) > 0
         /\ Cardinality(Users(rd2, f)) = Cardinality(Users(rd, f)) - 1
         /\ Waiters(rd2, f) = Waiters(rd, f) \ {r}
         /\ rd[r].at = "wait" => Cardinality(Waiters(rd, f)) > 0
         /\ Cardinality(Waiters(rd2, f)) =
              IF rd[r].at = "wait" THEN Cardinality(Waiters(rd, f)) - 1
              ELSE Cardinality(Waiters(rd, f))
         /\ \A g \in Flights \ {f} :
              Users(rd2, g) = Users(rd, g) /\ Waiters(rd2, g) = Waiters(rd, g)
  <1>1. /\ rd2 \in ReaderStates /\ rd2[r].at = "idle" /\ rd2[r].id = NoFlight
        /\ \A q \in Readers \ {r} : rd2[q] = rd[q]
    BY DEF ReaderStates, Moved
  <1>2. NoFlight \notin Flights
    BY SnapshotAssumption
  <1>3. Users(rd2, f) = Users(rd, f) \ {r} /\ r \in Users(rd, f)
    BY <1>1, <1>2 DEF Users
  <1>4. Waiters(rd2, f) = Waiters(rd, f) \ {r} /\ (r \in Waiters(rd, f) <=> rd[r].at = "wait")
    BY <1>1, <1>2 DEF Waiters
  <1>5. \A g \in Flights \ {f} :
          Users(rd2, g) = Users(rd, g) /\ Waiters(rd2, g) = Waiters(rd, g)
    BY <1>1, <1>2 DEF Users, Waiters
  <1>6. Cardinality(Users(rd, f) \ {r}) = Cardinality(Users(rd, f)) - 1
    <2>1. Cardinality(Users(rd, f) \ {r}) =
            IF r \in Users(rd, f) THEN Cardinality(Users(rd, f)) - 1
            ELSE Cardinality(Users(rd, f))
      BY Zenon, UserSets, FS_RemoveElement
    <2> QED
      BY Zenon, <1>3, <2>1
  <1>7. Cardinality(Waiters(rd, f) \ {r}) =
          IF r \in Waiters(rd, f) THEN Cardinality(Waiters(rd, f)) - 1
          ELSE Cardinality(Waiters(rd, f))
    BY Zenon, UserSets, FS_RemoveElement
  <1>8. Cardinality(Users(rd, f)) > 0
    BY <1>3, UserSets, ReadersFinite
  <1>9. r \in Waiters(rd, f) => Cardinality(Waiters(rd, f)) > 0
    BY UserSets, ReadersFinite
  <1> QED
    BY Zenon, <1>1, <1>3, <1>4, <1>5, <1>6, <1>7, <1>8, <1>9

\* A waiting query that is given its snapshot stays its user.
LEMMA Wakes ==
  ASSUME NEW rd \in ReaderStates, NEW r \in Readers, NEW f \in Flights,
         rd[r].id = f, rd[r].at = "wait",
         NEW rd2, Moved(rd, rd2, r, "hold", f)
  PROVE  /\ rd2 \in ReaderStates
         /\ rd2[r].at = "hold" /\ rd2[r].id = f
         /\ \A q \in Readers \ {r} : rd2[q] = rd[q]
         /\ \A g \in Flights : Users(rd2, g) = Users(rd, g)
         /\ Cardinality(Waiters(rd, f)) > 0
         /\ Cardinality(Waiters(rd2, f)) = Cardinality(Waiters(rd, f)) - 1
         /\ \A g \in Flights \ {f} : Waiters(rd2, g) = Waiters(rd, g)
  <1>1. /\ rd2 \in ReaderStates /\ rd2[r].at = "hold" /\ rd2[r].id = f
        /\ \A q \in Readers \ {r} : rd2[q] = rd[q]
    BY DEF ReaderStates, Moved
  <1>2. \A g \in Flights : Users(rd2, g) = Users(rd, g)
    BY <1>1 DEF Users
  <1>3. Waiters(rd2, f) = Waiters(rd, f) \ {r} /\ r \in Waiters(rd, f)
    BY <1>1 DEF Waiters
  <1>4. \A g \in Flights \ {f} : Waiters(rd2, g) = Waiters(rd, g)
    BY <1>1 DEF Waiters
  <1>5. Cardinality(Waiters(rd, f) \ {r}) = Cardinality(Waiters(rd, f)) - 1
    BY ZenonT(60), <1>3, UserSets, FS_RemoveElement
  <1>6. Cardinality(Waiters(rd, f)) > 0
    BY <1>3, UserSets, ReadersFinite
  <1> QED
    BY <1>1, <1>2, <1>3, <1>4, <1>5, <1>6

-----------------------------------------------------------------------------
LEMMA Unpacked ==
  SnapInv <=>
    /\ Typed(reader, flight, snap, inUse, entryOf, flightOf, lastUsed)
    /\ ReadersOK(reader, flight)
    /\ Counted(reader, flight, inUse)
    /\ Listed(flight, snap, entryOf, flightOf)
    /\ UsedIsOpen(reader, flight, snap)
    /\ Ordered(Kept(entryOf), lastUsed)
    /\ WithinSize(inUse, entryOf)
  BY DEF SnapInv, CacheInv

\* What the invariant says of a flight that is found, shared or used.
LEMMA Found ==
  ASSUME SnapInv
  PROVE  /\ reader \in ReaderStates
         /\ \A f \in Flights : flight[f].key \in SnapKeys /\ flight[f].waiters \in Nat
                               /\ flight[f].live \in BOOLEAN
         /\ \A k \in SnapKeys : entryOf[k] # NoFlight => entryOf[k] \in Kept(entryOf)
         /\ \A k \in SnapKeys : flightOf[k] # NoFlight => flightOf[k] \in Flights
         /\ \A r \in Readers : reader[r].at # "idle" => reader[r].id \in Flights
         /\ \A f \in Kept(entryOf) : f \in Flights /\ flight[f].result = "ok" /\ snap[f] = "open"
         /\ \A f \in Flights : Users(reader, f) # {} /\ flight[f].result = "ok"
                               => f \in Kept(entryOf)
         /\ \A r \in Readers, f \in Flights : reader[r].id = f => Users(reader, f) # {}
  <1> USE DEF SnapInv, CacheInv
  <1>1. reader \in ReaderStates
    BY DEF Typed, ReaderStates
  <1>2. \A f \in Flights : flight[f].key \in SnapKeys /\ flight[f].waiters \in Nat
                           /\ flight[f].live \in BOOLEAN
    BY DEF Typed, FlightState
  <1>3. /\ \A k \in SnapKeys : entryOf[k] # NoFlight => entryOf[k] \in Kept(entryOf)
        /\ \A k \in SnapKeys : flightOf[k] # NoFlight => flightOf[k] \in Flights
    BY DEF Typed, Kept
  <1>4. \A r \in Readers : reader[r].at # "idle" => reader[r].id \in Flights
    BY DEF Typed, ReadersOK
  <1>5. \A f \in Kept(entryOf) : f \in Flights /\ flight[f].result = "ok" /\ snap[f] = "open"
    BY DEF Kept, Listed
  <1>6. \A f \in Flights : Users(reader, f) # {} /\ flight[f].result = "ok" => f \in Kept(entryOf)
    BY <1>2 DEF Kept, Listed, UsedIsOpen
  <1>7. \A r \in Readers, f \in Flights : reader[r].id = f => Users(reader, f) # {}
    BY DEF Users
  <1> QED
    BY Zenon, <1>1, <1>2, <1>3, <1>4, <1>5, <1>6, <1>7

LEMMA HitStep ==
  ASSUME SnapInv, NEW r \in Readers, reader[r] = Away, NEW k \in SnapKeys, Hit(r, k)
  PROVE  SnapInv'
  <1> DEFINE f == entryOf[k]
  <1>1. f \in Kept(entryOf) /\ f \in Flights /\ flight[f].result = "ok" /\ snap[f] = "open"
    BY Found DEF Hit
  <1>2. /\ reader' = [reader EXCEPT ![r] = [at |-> "hold", id |-> f]]
        /\ inUse' = [inUse EXCEPT ![f] = @ + 1]
        /\ lastUsed' = Newest(lastUsed, entryOf, f)
        /\ UNCHANGED <<flight, snap, entryOf, flightOf>>
    BY DEF Hit
  <1> HIDE DEF f
  <1>u. /\ Typed(reader, flight, snap, inUse, entryOf, flightOf, lastUsed)
        /\ ReadersOK(reader, flight)
        /\ Counted(reader, flight, inUse)
        /\ Listed(flight, snap, entryOf, flightOf)
        /\ UsedIsOpen(reader, flight, snap)
        /\ Ordered(Kept(entryOf), lastUsed)
        /\ WithinSize(inUse, entryOf)
        /\ reader \in ReaderStates
    BY Unpacked, Found
  <1>3. /\ reader' \in ReaderStates
        /\ reader'[r].at = "hold" /\ reader'[r].id = f
        /\ \A q \in Readers \ {r} : reader'[q] = reader[q]
        /\ Cardinality(Users(reader', f)) = Cardinality(Users(reader, f)) + 1
        /\ Cardinality(Waiters(reader', f)) = Cardinality(Waiters(reader, f))
        /\ \A g \in Flights \ {f} :
             Users(reader', g) = Users(reader, g) /\ Waiters(reader', g) = Waiters(reader, g)
    <2>1. Moved(reader, reader', r, "hold", f)
      BY <1>2 DEF Moved
    <2> QED
      BY <1>1, <1>u, <2>1, Arrives
  <1>4. inUse \in [Flights -> Nat] /\ inUse' \in [Flights -> Nat] /\ inUse'[f] = inUse[f] + 1
        /\ \A g \in Flights \ {f} : inUse'[g] = inUse[g]
    BY <1>u, <1>1, <1>2 DEF Typed
  <1>5. Ordered(Kept(entryOf), lastUsed') /\ lastUsed' \in [Flights -> SUBSET Flights]
    <2>1. Kept(entryOf) \in SUBSET Flights /\ Kept(entryOf) = Kept(entryOf) \cup {f}
      BY <1>1 DEF Kept
    <2>2. lastUsed \in [Flights -> SUBSET Flights] /\ Ordered(Kept(entryOf), lastUsed)
      BY Zenon, <1>u DEF Typed
    <2> QED
      BY ZenonT(60), <1>1, <1>2, <2>1, <2>2, NewestOrdered
  <1>6. Typed(reader', flight', snap', inUse', entryOf', flightOf', lastUsed')
    BY Zenon, <1>u, <1>2, <1>3, <1>4, <1>5 DEF Typed, ReaderStates
  <1>7. ReadersOK(reader', flight')
    <2>1. NoFlight # f
      BY <1>1, SnapshotAssumption
    <2> QED
      BY <1>u, <1>1, <1>2, <1>3, <2>1 DEF ReadersOK
  <1>8. Counted(reader', flight', inUse')
    <2> SUFFICES ASSUME NEW g \in Flights
                 PROVE  /\ flight'[g].waiters = Cardinality(Waiters(reader', g))
                        /\ inUse'[g] = IF flight'[g].result = "ok"
                                       THEN Cardinality(Users(reader', g)) ELSE 0
      BY DEF Counted
    <2>5. flight[g].waiters = Cardinality(Waiters(reader, g))
          /\ inUse[g] = IF flight[g].result = "ok" THEN Cardinality(Users(reader, g)) ELSE 0
      BY <1>u DEF Counted
    <2>6. CASE g = f
      BY <1>1, <1>2, <1>3, <1>4, <2>5, <2>6
    <2>7. CASE g # f
      BY Zenon, <1>1, <1>2, <1>3, <1>4, <2>5, <2>7
    <2> QED
      BY <2>6, <2>7
  <1>9. Listed(flight', snap', entryOf', flightOf')
    BY <1>u, <1>2
  <1>10. UsedIsOpen(reader', flight', snap')
    BY Zenon, <1>u, <1>1, <1>2, <1>3 DEF UsedIsOpen
  <1>11. WithinSize(inUse', entryOf')
    BY <1>u, <1>1, <1>2, <1>4, KeptFinite DEF WithinSize
  <1> QED
    BY Zenon, <1>2, <1>5, <1>6, <1>7, <1>8, <1>9, <1>10, <1>11 DEF SnapInv, CacheInv

LEMMA ShareStep ==
  ASSUME SnapInv, NEW r \in Readers, reader[r] = Away, NEW k \in SnapKeys, Share(r, k)
  PROVE  SnapInv'
  <1> DEFINE f == flightOf[k]
  <1>1. f \in Flights
    BY Found DEF Share
  <1>2. /\ reader' = [reader EXCEPT ![r] = [at |-> "wait", id |-> f]]
        /\ flight' = [flight EXCEPT ![f].waiters = @ + 1]
        /\ UNCHANGED <<snap, inUse, entryOf, flightOf, lastUsed>>
    BY DEF Share
  <1>u. /\ Typed(reader, flight, snap, inUse, entryOf, flightOf, lastUsed)
        /\ ReadersOK(reader, flight)
        /\ Counted(reader, flight, inUse)
        /\ Listed(flight, snap, entryOf, flightOf)
        /\ UsedIsOpen(reader, flight, snap)
        /\ Ordered(Kept(entryOf), lastUsed)
        /\ WithinSize(inUse, entryOf)
        /\ reader \in ReaderStates
    BY ZenonT(60), Unpacked, Found
  <1>3. flight[f].result = "none" /\ flight[f].live
    BY <1>u, <1>1 DEF Listed
  <1> HIDE DEF f
  <1>4. /\ reader' \in ReaderStates
        /\ reader'[r].at = "wait" /\ reader'[r].id = f
        /\ \A q \in Readers \ {r} : reader'[q] = reader[q]
        /\ Cardinality(Waiters(reader', f)) = Cardinality(Waiters(reader, f)) + 1
        /\ \A g \in Flights \ {f} :
             Users(reader', g) = Users(reader, g) /\ Waiters(reader', g) = Waiters(reader, g)
    <2>1. Moved(reader, reader', r, "wait", f)
      BY <1>2 DEF Moved
    <2> QED
      BY <1>1, <1>u, <2>1, Arrives
  <1>5. /\ flight' \in [Flights -> FlightState]
        /\ flight'[f].key = flight[f].key /\ flight'[f].result = "none" /\ flight'[f].live
        /\ flight'[f].waiters = flight[f].waiters + 1 /\ flight'[f].live = flight[f].live
        /\ \A g \in Flights \ {f} : flight'[g] = flight[g]
    <2>1. flight \in [Flights -> FlightState] /\ flight[f] \in FlightState
      BY <1>u, <1>1 DEF Typed
    <2>2. [flight[f] EXCEPT !.waiters = @ + 1] \in FlightState
      BY <2>1 DEF FlightState
    <2>3. flight' = [flight EXCEPT ![f] = [flight[f] EXCEPT !.waiters = @ + 1]]
      BY Zenon, <1>2
    <2>4. flight' \in [Flights -> FlightState] /\ \A g \in Flights \ {f} : flight'[g] = flight[g]
      BY Zenon, <2>1, <2>2, <2>3
    <2>5. flight'[f] = [flight[f] EXCEPT !.waiters = @ + 1]
      BY Zenon, <1>1, <2>1, <2>3
    <2> QED
      BY ZenonT(60), <1>3, <2>1, <2>4, <2>5 DEF FlightState
  <1>6. Typed(reader', flight', snap', inUse', entryOf', flightOf', lastUsed')
    BY <1>u, <1>2, <1>4, <1>5 DEF Typed, ReaderStates
  <1>7. ReadersOK(reader', flight')
    <2>1. NoFlight # f
      BY <1>1, SnapshotAssumption
    <2>2. \A g \in Flights : flight'[g].result = flight[g].result /\ flight'[g].live = flight[g].live
      BY Zenon, <1>3, <1>5
    <2> SUFFICES ASSUME NEW q \in Readers
                 PROVE  /\ reader'[q].at = "idle" <=> reader'[q].id = NoFlight
                        /\ reader'[q].at = "wait" =>
                             /\ flight'[reader'[q].id].result # "canceled"
                             /\ flight'[reader'[q].id].result = "none" => flight'[reader'[q].id].live
                        /\ reader'[q].at = "hold" => flight'[reader'[q].id].result = "ok"
      BY Zenon DEF ReadersOK
    <2>3. CASE q = r
      BY Zenon, <1>3, <1>4, <1>5, <2>1, <2>3
    <2>4. CASE q # r
      <3>1. reader'[q] = reader[q]
        BY Zenon, <1>4, <2>4
      <3>2. reader[q].at \in {"wait", "hold"} => reader[q].id \in Flights
        BY Found
      <3> QED
        BY <1>u, <2>2, <3>1, <3>2 DEF ReadersOK
    <2> QED
      BY Zenon, <2>3, <2>4
  <1>8. Counted(reader', flight', inUse')
    <2> SUFFICES ASSUME NEW g \in Flights
                 PROVE  /\ flight'[g].waiters = Cardinality(Waiters(reader', g))
                        /\ inUse'[g] = IF flight'[g].result = "ok"
                                       THEN Cardinality(Users(reader', g)) ELSE 0
      BY DEF Counted
    <2>5. flight[g].waiters = Cardinality(Waiters(reader, g))
          /\ inUse[g] = IF flight[g].result = "ok" THEN Cardinality(Users(reader, g)) ELSE 0
      BY <1>u DEF Counted
    <2>4. inUse'[g] = inUse[g]
      BY <1>2
    <2>6. CASE g = f
      BY ZenonT(60), <1>3, <1>4, <1>5, <2>4, <2>5, <2>6
    <2>7. CASE g # f
      BY ZenonT(60), <1>4, <1>5, <2>4, <2>5, <2>7
    <2> QED
      BY <2>6, <2>7
  <1>9. Listed(flight', snap', entryOf', flightOf')
    <2>1. /\ snap' = snap /\ entryOf' = entryOf /\ flightOf' = flightOf
          /\ \A g \in Flights : /\ flight'[g].key = flight[g].key
                               /\ flight'[g].result = flight[g].result
                               /\ flight'[g].live = flight[g].live
      BY Zenon, <1>2, <1>3, <1>5
    <2> QED
      BY <1>u, <2>1 DEF Listed
  <1>10. UsedIsOpen(reader', flight', snap')
    <2> SUFFICES ASSUME NEW g \in Flights, flight'[g].result = "ok", Users(reader', g) # {}
                 PROVE  snap'[g] = "open"
      BY DEF UsedIsOpen
    <2>1. g # f
      BY <1>5
    <2>2. flight[g].result = "ok" /\ Users(reader, g) # {}
      BY <1>4, <1>5, <2>1
    <2>3. snap' = snap
      BY <1>2
    <2> QED
      BY Zenon, <1>u, <2>2, <2>3 DEF UsedIsOpen
  <1> QED
    BY Zenon, <1>u, <1>2, <1>6, <1>7, <1>8, <1>9, <1>10 DEF SnapInv, CacheInv

LEMMA LaunchStep ==
  ASSUME SnapInv, NEW r \in Readers, reader[r] = Away, NEW k \in SnapKeys, Launch(r, k)
  PROVE  SnapInv'
  <1>1. PICK f \in Flights :
            /\ Unused(f)
            /\ reader' = [reader EXCEPT ![r] = [at |-> "wait", id |-> f]]
            /\ flight' = [flight EXCEPT ![f] = [key |-> k, waiters |-> 1, live |-> TRUE,
                                                result |-> "none"]]
            /\ snap' = [snap EXCEPT ![f] = "none"]
            /\ flightOf' = [flightOf EXCEPT ![k] = f]
            /\ UNCHANGED <<inUse, entryOf, lastUsed>>
    BY Zenon DEF Launch
  <1>u. /\ Typed(reader, flight, snap, inUse, entryOf, flightOf, lastUsed)
        /\ ReadersOK(reader, flight)
        /\ Counted(reader, flight, inUse)
        /\ Listed(flight, snap, entryOf, flightOf)
        /\ UsedIsOpen(reader, flight, snap)
        /\ Ordered(Kept(entryOf), lastUsed)
        /\ WithinSize(inUse, entryOf)
        /\ reader \in ReaderStates
    BY Unpacked, Found
  <1>2. entryOf[k] = NoFlight /\ flightOf[k] = NoFlight /\ NoFlight \notin Flights
    BY SnapshotAssumption DEF Launch
  <1>3. /\ flight[f].result # "none"
        /\ \A j \in SnapKeys : entryOf[j] # f
        /\ Users(reader, f) = {} /\ Waiters(reader, f) = {}
    BY <1>1 DEF Unused, Users, Waiters
  <1>4. /\ reader' \in ReaderStates
        /\ reader'[r].at = "wait" /\ reader'[r].id = f
        /\ \A q \in Readers \ {r} : reader'[q] = reader[q]
        /\ Cardinality(Waiters(reader', f)) = Cardinality(Waiters(reader, f)) + 1
        /\ \A g \in Flights \ {f} :
             Users(reader', g) = Users(reader, g) /\ Waiters(reader', g) = Waiters(reader, g)
    <2>1. Moved(reader, reader', r, "wait", f)
      BY <1>1 DEF Moved
    <2> QED
      BY <1>u, <2>1, Arrives
  <1>5. /\ flight' \in [Flights -> FlightState]
        /\ flight'[f].key = k /\ flight'[f].result = "none" /\ flight'[f].live
        /\ flight'[f].waiters = 1
        /\ \A g \in Flights \ {f} : flight'[g] = flight[g]
    BY <1>u, <1>1 DEF Typed, FlightState
  <1>6. /\ snap' \in [Flights -> {"none", "open", "closed"}] /\ snap'[f] = "none"
        /\ \A g \in Flights \ {f} : snap'[g] = snap[g]
        /\ flightOf' \in [SnapKeys -> Flights \cup {NoFlight}] /\ flightOf'[k] = f
        /\ \A j \in SnapKeys \ {k} : flightOf'[j] = flightOf[j]
    BY <1>u, <1>1 DEF Typed
  <1>7. Typed(reader', flight', snap', inUse', entryOf', flightOf', lastUsed')
    BY ZenonT(60), <1>u, <1>1, <1>4, <1>5, <1>6 DEF Typed, ReaderStates
  <1>8. ReadersOK(reader', flight')
    <2> SUFFICES ASSUME NEW q \in Readers
                 PROVE  /\ reader'[q].at = "idle" <=> reader'[q].id = NoFlight
                        /\ reader'[q].at = "wait" =>
                             /\ flight'[reader'[q].id].result # "canceled"
                             /\ flight'[reader'[q].id].result = "none" => flight'[reader'[q].id].live
                        /\ reader'[q].at = "hold" => flight'[reader'[q].id].result = "ok"
      BY Zenon DEF ReadersOK
    <2>1. CASE q = r
      BY Zenon, <1>2, <1>4, <1>5, <2>1
    <2>2. CASE q # r
      <3>1. reader'[q] = reader[q] /\ reader[q].id # f
        BY <1>1, <1>4, <2>2 DEF Unused
      <3>2. reader[q].at \in {"wait", "hold"} => reader[q].id \in Flights
        BY Found
      <3> QED
        BY <1>u, <1>5, <3>1, <3>2 DEF ReadersOK
    <2> QED
      BY Zenon, <2>1, <2>2
  <1>9. Counted(reader', flight', inUse')
    <2>1. Cardinality(Users(reader, f)) = 0 /\ Cardinality(Waiters(reader, f)) = 0
      BY Zenon, <1>3, FS_EmptySet
    <2>2. inUse[f] = 0
      BY <1>u, <2>1 DEF Counted
    <2> SUFFICES ASSUME NEW g \in Flights
                 PROVE  /\ flight'[g].waiters = Cardinality(Waiters(reader', g))
                        /\ inUse'[g] = IF flight'[g].result = "ok"
                                       THEN Cardinality(Users(reader', g)) ELSE 0
      BY DEF Counted
    <2>5. flight[g].waiters = Cardinality(Waiters(reader, g))
          /\ inUse[g] = IF flight[g].result = "ok" THEN Cardinality(Users(reader, g)) ELSE 0
      BY Zenon, <1>u DEF Counted
    <2>6. CASE g = f
      <3>1. flight'[f].waiters = Cardinality(Waiters(reader', f))
        BY <1>4, <1>5, <2>1
      <3>2. inUse'[f] = 0 /\ flight'[f].result = "none"
        BY <1>1, <1>5, <2>2
      <3> QED
        BY <2>6, <3>1, <3>2
    <2>7. CASE g # f
      <3>1. flight'[g] = flight[g] /\ inUse' = inUse
        BY Zenon, <1>1, <1>5, <2>7
      <3>2. Users(reader', g) = Users(reader, g) /\ Waiters(reader', g) = Waiters(reader, g)
        BY Zenon, <1>4, <2>7
      <3> QED
        BY Zenon, <2>5, <3>1, <3>2
    <2> QED
      BY <2>6, <2>7
  <1>10. Listed(flight', snap', entryOf', flightOf')
    <2>1. \A j \in SnapKeys : flightOf[j] # f
      BY <1>u, <1>3 DEF Listed
    <2>2. \A g \in Flights \ {f} : flight[g].live => flight[g].key # k
      BY <1>u, <1>2 DEF Listed
    <2>3. \A g \in Flights : flight[g].key \in SnapKeys
      BY Zenon, Found
    <2>4. ASSUME NEW j \in SnapKeys, NEW g \in Flights, entryOf'[j] = g
          PROVE  flight'[g].result = "ok" /\ flight'[g].key = j /\ snap'[g] = "open"
      <3>1. entryOf[j] = g /\ g # f
        BY Zenon, <1>1, <1>3, <2>4
      <3> QED
        BY <1>u, <1>5, <1>6, <3>1 DEF Listed
    <2>5. ASSUME NEW j \in SnapKeys, NEW g \in Flights, flightOf'[j] = g
          PROVE  /\ flight'[g].result = "none" /\ flight'[g].key = j /\ flight'[g].live
                 /\ entryOf'[j] = NoFlight
      <3>1. CASE j = k
        BY Zenon, <1>1, <1>2, <1>5, <1>6, <2>5, <3>1
      <3>2. CASE j # k
        <4>1. flightOf[j] = g /\ g # f
          BY Zenon, <1>6, <2>1, <2>5, <3>2
        <4> QED
          BY <1>u, <1>1, <1>5, <4>1 DEF Listed
      <3> QED
        BY Zenon, <3>1, <3>2
    <2>6. ASSUME NEW g \in Flights
          PROVE  /\ flight'[g].live => flightOf'[flight'[g].key] = g
                 /\ snap'[g] = "open" => entryOf'[flight'[g].key] = g
      <3>1. CASE g = f
        BY Zenon, <1>5, <1>6, <3>1
      <3>2. CASE g # f
        <4>1. flight'[g] = flight[g] /\ snap'[g] = snap[g] /\ entryOf' = entryOf
          BY Zenon, <1>1, <1>5, <1>6, <3>2
        <4>2. /\ flight[g].live => flightOf[flight[g].key] = g
              /\ snap[g] = "open" => entryOf[flight[g].key] = g
          BY <1>u DEF Listed
        <4> QED
          BY <1>6, <2>2, <2>3, <3>2, <4>1, <4>2
      <3> QED
        BY Zenon, <3>1, <3>2
    <2> QED
      BY Zenon, <2>4, <2>5, <2>6 DEF Listed
  <1>11. UsedIsOpen(reader', flight', snap')
    BY <1>u, <1>4, <1>5, <1>6 DEF UsedIsOpen
  <1> QED
    BY Zenon, <1>u, <1>1, <1>7, <1>8, <1>9, <1>10, <1>11 DEF SnapInv, CacheInv
=============================================================================
