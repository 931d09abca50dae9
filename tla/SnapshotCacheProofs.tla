------------------------ MODULE SnapshotCacheProofs -------------------------
(***************************************************************************)
(* Snapshots are accounted for and a cancellation harms nobody, for any    *)
(* number of queries, keys and flights and any size of the cache: the rest *)
(* of the proof that SnapshotBuildProofs begins.                           *)
(***************************************************************************)
EXTENDS SnapshotBuildProofs

\* A build that is wanted when it ends becomes the entry of its key.
LEMMA CompleteKept ==
  ASSUME SnapInv, NEW f \in Flights, Complete(f, TRUE), Welcome(f)
  PROVE  SnapInv'
  <1> DEFINE k == flight[f].key
             en == [entryOf EXCEPT ![k] = f]
             us == [inUse EXCEPT ![f] = flight[f].waiters]
             sn == [snap EXCEPT ![f] = "open"]
             lu == Newest(lastUsed, en, f)
  <1>1. /\ flight[f].result = "none"
        /\ flight' = [flight EXCEPT ![f].result = "ok", ![f].live = FALSE]
        /\ flightOf' = Unlisted(f)
        /\ Prune(en, us, lu, sn)
        /\ reader' = reader
    BY DEF Complete
  <1>u. /\ Typed(reader, flight, snap, inUse, entryOf, flightOf, lastUsed)
        /\ ReadersOK(reader, flight)
        /\ Counted(reader, flight, inUse)
        /\ Listed(flight, snap, entryOf, flightOf)
        /\ UsedIsOpen(reader, flight, snap)
        /\ Ordered(Kept(entryOf), lastUsed)
        /\ WithinSize(inUse, entryOf)
        /\ reader \in ReaderStates
    BY Unpacked, Found
  <1>2. k \in SnapKeys /\ flight[f].waiters \in Nat /\ NoFlight \notin Flights
    BY Found, SnapshotAssumption
  <1>3. flightOf[k] = f /\ entryOf[k] = NoFlight
    BY <1>u, <1>2 DEF Welcome, Listed
  <1> HIDE DEF k
  <1>4. /\ flight' \in [Flights -> FlightState]
        /\ flight'[f].key = k /\ flight'[f].result = "ok" /\ flight'[f].live = FALSE
        /\ flight'[f].waiters = flight[f].waiters
        /\ \A g \in Flights \ {f} : flight'[g] = flight[g]
    BY Zenon, <1>u, <1>1 DEF Typed, FlightState, k
  <1>5. /\ en \in [SnapKeys -> Flights \cup {NoFlight}] /\ en[k] = f
        /\ \A j \in SnapKeys \ {k} : en[j] = entryOf[j]
    BY <1>u, <1>2 DEF Typed
  <1>6. /\ us \in [Flights -> Nat] /\ us[f] = flight[f].waiters
        /\ \A g \in Flights \ {f} : us[g] = inUse[g]
    BY <1>u, <1>2 DEF Typed
  <1>7. /\ sn \in [Flights -> {"none", "open", "closed"}] /\ sn[f] = "open"
        /\ \A g \in Flights \ {f} : sn[g] = snap[g]
    BY <1>u DEF Typed
  <1>8. /\ flightOf' \in [SnapKeys -> Flights \cup {NoFlight}]
        /\ \A j \in SnapKeys : flightOf'[j] = IF flightOf[j] = f THEN NoFlight ELSE flightOf[j]
    BY <1>u, <1>1 DEF Typed, Unlisted
  <1>9. Kept(en) = Kept(entryOf) \cup {f} /\ Kept(entryOf) \in SUBSET Flights
    <2> HIDE DEF en
    <2> QED
      BY <1>2, <1>3, <1>5 DEF Kept
  <1>10. Ordered(Kept(en), lu) /\ lu \in [Flights -> SUBSET Flights]
    <2> HIDE DEF en
    <2>1. lastUsed \in [Flights -> SUBSET Flights]
      BY <1>u DEF Typed
    <2> QED
      BY Zenon, <1>u, <1>9, <2>1, NewestOrdered
  <1> HIDE DEF en, us, sn, lu
  <1>11. Typed(reader, flight', sn, us, en, flightOf', lu)
    BY <1>u, <1>4, <1>5, <1>6, <1>7, <1>8, <1>10 DEF Typed
  <1>12. ReadersOK(reader, flight')
    <2>1. \A q \in Readers : reader[q].at # "idle" => reader[q].id \in Flights
      BY Found
    <2> QED
      BY <1>u, <1>1, <1>4, <2>1 DEF ReadersOK
  <1>13. Counted(reader, flight', us)
    <2>1. Users(reader, f) = Waiters(reader, f)
      <3> SUFFICES ASSUME NEW q \in Readers, reader[q].id = f
                   PROVE  reader[q].at = "wait"
        BY DEF Users, Waiters
      <3>1. reader[q].at \in {"idle", "wait", "hold"}
        BY <1>u DEF ReaderStates
      <3> QED
        BY <1>u, <1>1, <1>2, <3>1 DEF ReadersOK
    <2>2. \A g \in Flights :
            /\ flight[g].waiters = Cardinality(Waiters(reader, g))
            /\ inUse[g] = IF flight[g].result = "ok" THEN Cardinality(Users(reader, g)) ELSE 0
      BY <1>u DEF Counted
    <2> QED
      BY <1>4, <1>6, <2>1, <2>2 DEF Counted
  <1>14. Listed(flight', sn, en, flightOf')
    <2>1. ASSUME NEW j \in SnapKeys, NEW g \in Flights, en[j] = g
          PROVE  flight'[g].result = "ok" /\ flight'[g].key = j /\ sn[g] = "open"
      <3>1. CASE j = k
        BY Zenon, <1>4, <1>5, <1>7, <2>1, <3>1
      <3>2. CASE j # k
        <4>1. entryOf[j] = g
          BY Zenon, <1>5, <2>1, <3>2
        <4>2. flight[g].result = "ok" /\ flight[g].key = j /\ snap[g] = "open"
          BY <1>u, <4>1 DEF Listed
        <4>3. g # f
          BY <1>1, <4>2
        <4> QED
          BY Zenon, <1>4, <1>7, <4>2, <4>3
      <3> QED
        BY <3>1, <3>2
    <2>2. ASSUME NEW j \in SnapKeys, NEW g \in Flights, flightOf'[j] = g
          PROVE  /\ flight'[g].result = "none" /\ flight'[g].key = j /\ flight'[g].live
                 /\ en[j] = NoFlight
      <3>1. flightOf[j] = g /\ g # f
        BY Zenon, <1>2, <1>8, <2>2
      <3>2. /\ flight[g].result = "none" /\ flight[g].key = j /\ flight[g].live
            /\ entryOf[j] = NoFlight
        BY <1>u, <3>1 DEF Listed
      <3> QED
        BY Zenon, <1>3, <1>4, <1>5, <3>1, <3>2
    <2>3. ASSUME NEW g \in Flights
          PROVE  /\ flight'[g].live => flightOf'[flight'[g].key] = g
                 /\ sn[g] = "open" => en[flight'[g].key] = g
      <3>1. CASE g = f
        BY Zenon, <1>4, <1>5, <3>1
      <3>2. CASE g # f
        <4>1. flight'[g] = flight[g] /\ sn[g] = snap[g] /\ flight[g].key \in SnapKeys
          BY Zenon, <1>4, <1>7, <3>2, Found
        <4>2. flight[g].live => flightOf[flight[g].key] = g
          BY <1>u DEF Listed
        <4>3. snap[g] = "open" => entryOf[flight[g].key] = g
          BY <1>u DEF Listed
        <4> QED
          BY SMTT(60), <1>2, <1>3, <1>5, <1>8, <3>2, <4>1, <4>2, <4>3
      <3> QED
        BY <3>1, <3>2
    <2> QED
      BY <2>1, <2>2, <2>3 DEF Listed
  <1>15. UsedIsOpen(reader, flight', sn)
    BY <1>u, <1>4, <1>7 DEF UsedIsOpen
  <1>16. CacheInv(reader, flight', sn, us, en, flightOf', lu)
    BY Zenon, <1>10, <1>11, <1>12, <1>13, <1>14, <1>15 DEF CacheInv
  <1>17. /\ CacheInv(reader, flight', snap', inUse', entryOf', flightOf', lastUsed')
         /\ WithinSize(inUse', entryOf')
    BY <1>1, <1>16, PruneKeeps
  <1> QED
    BY <1>1, <1>17 DEF SnapInv

\* A build that failed or that nobody wants any more leaves no entry; whoever
\* still waits for it is told of the failure.
LEMMA CompleteDropped ==
  ASSUME SnapInv, NEW f \in Flights, NEW built \in BOOLEAN, Complete(f, built),
         ~(built /\ Welcome(f))
  PROVE  SnapInv'
  <1> DEFINE sn == [snap EXCEPT ![f] = IF built THEN "closed" ELSE @]
             res == IF built THEN "canceled" ELSE "failed"
  <1>1. /\ flight[f].result = "none"
        /\ flight' = [flight EXCEPT ![f].result = res, ![f].live = FALSE]
        /\ flightOf' = Unlisted(f)
        /\ Prune(entryOf, inUse, lastUsed, sn)
        /\ reader' = reader
    BY Zenon DEF Complete
  <1>u. /\ Typed(reader, flight, snap, inUse, entryOf, flightOf, lastUsed)
        /\ ReadersOK(reader, flight)
        /\ Counted(reader, flight, inUse)
        /\ Listed(flight, snap, entryOf, flightOf)
        /\ UsedIsOpen(reader, flight, snap)
        /\ Ordered(Kept(entryOf), lastUsed)
        /\ WithinSize(inUse, entryOf)
        /\ reader \in ReaderStates
    BY Unpacked, Found
  <1>l. Listed(flight, snap, entryOf, flightOf)
    BY Zenon, <1>u
  <1>2. NoFlight \notin Flights /\ flight[f].key \in SnapKeys
    BY Found, SnapshotAssumption
  <1>3. res \in {"canceled", "failed"} /\ (res = "canceled" => ~Welcome(f))
    OBVIOUS
  <1> HIDE DEF res
  <1>4. /\ flight' \in [Flights -> FlightState]
        /\ flight'[f].key = flight[f].key /\ flight'[f].result = res /\ flight'[f].live = FALSE
        /\ flight'[f].waiters = flight[f].waiters
        /\ \A g \in Flights \ {f} : flight'[g] = flight[g]
    BY ZenonT(60), <1>u, <1>1, <1>3 DEF Typed, FlightState
  <1>5. snap[f] # "open"
    BY <1>u, <1>1, <1>2 DEF Listed
  <1>6. /\ sn \in [Flights -> {"none", "open", "closed"}] /\ sn[f] # "open"
        /\ \A g \in Flights \ {f} : sn[g] = snap[g]
    BY <1>u, <1>5 DEF Typed
  <1>7. /\ flightOf' \in [SnapKeys -> Flights \cup {NoFlight}]
        /\ \A j \in SnapKeys : flightOf'[j] = IF flightOf[j] = f THEN NoFlight ELSE flightOf[j]
    BY <1>u, <1>1 DEF Typed, Unlisted
  <1> HIDE DEF sn
  <1>8. Typed(reader, flight', sn, inUse, entryOf, flightOf', lastUsed)
    BY Zenon, <1>u, <1>4, <1>6, <1>7 DEF Typed
  <1>9. ReadersOK(reader, flight')
    <2>1. \A q \in Readers : reader[q].at # "idle" => reader[q].id \in Flights
      BY Found
    <2>2. ASSUME NEW q \in Readers, reader[q].at = "wait", reader[q].id = f
          PROVE  Welcome(f)
      <3>1. flight[f].live
        BY <1>u, <1>1, <2>2 DEF ReadersOK
      <3>2. flightOf[flight[f].key] = f
        BY <1>u, <3>1 DEF Listed
      <3>3. Waiters(reader, f) # {}
        BY <2>2 DEF Waiters
      <3>4. flight[f].waiters > 0
        BY <1>u, <3>3, UserSets, ReadersFinite DEF Counted
      <3> QED
        BY Zenon, <3>1, <3>2, <3>4 DEF Welcome
    <2> QED
      BY Zenon, <1>u, <1>1, <1>3, <1>4, <2>1, <2>2 DEF ReadersOK
  <1>10. Counted(reader, flight', inUse)
    <2>1. \A g \in Flights :
            /\ flight[g].waiters = Cardinality(Waiters(reader, g))
            /\ inUse[g] = IF flight[g].result = "ok" THEN Cardinality(Users(reader, g)) ELSE 0
      BY <1>u DEF Counted
    <2> QED
      BY Zenon, <1>1, <1>3, <1>4, <2>1 DEF Counted
  <1>11. Listed(flight', sn, entryOf, flightOf')
    <2>1. ASSUME NEW j \in SnapKeys, NEW g \in Flights, entryOf[j] = g
          PROVE  flight'[g].result = "ok" /\ flight'[g].key = j /\ sn[g] = "open"
      <3>1. flight[g].result = "ok" /\ flight[g].key = j /\ snap[g] = "open"
        BY <1>l, <2>1 DEF Listed
      <3> QED
        BY Zenon, <1>1, <1>4, <1>6, <3>1
    <2>2. ASSUME NEW j \in SnapKeys, NEW g \in Flights, flightOf'[j] = g
          PROVE  /\ flight'[g].result = "none" /\ flight'[g].key = j /\ flight'[g].live
                 /\ entryOf[j] = NoFlight
      <3>1. flightOf[j] = g /\ g # f
        BY <1>2, <1>7, <2>2
      <3>2. /\ flight[g].result = "none" /\ flight[g].key = j /\ flight[g].live
            /\ entryOf[j] = NoFlight
        BY <1>l, <3>1 DEF Listed
      <3> QED
        BY Zenon, <1>4, <3>1, <3>2
    <2>3. ASSUME NEW g \in Flights
          PROVE  /\ flight'[g].live => flightOf'[flight'[g].key] = g
                 /\ sn[g] = "open" => entryOf[flight'[g].key] = g
      <3>1. CASE g = f
        BY Zenon, <1>4, <1>6, <3>1
      <3>2. CASE g # f
        <4>1. flight'[g] = flight[g] /\ sn[g] = snap[g] /\ flight[g].key \in SnapKeys
          BY Zenon, <1>4, <1>6, <3>2, Found
        <4>2. /\ flight[g].live => flightOf[flight[g].key] = g
              /\ snap[g] = "open" => entryOf[flight[g].key] = g
          BY <1>u DEF Listed
        <4> QED
          BY Zenon, <1>7, <3>2, <4>1, <4>2
      <3> QED
        BY <3>1, <3>2
    <2> QED
      BY <2>1, <2>2, <2>3 DEF Listed
  <1>12. UsedIsOpen(reader, flight', sn)
    BY Zenon, <1>u, <1>3, <1>4, <1>6 DEF UsedIsOpen
  <1>13. CacheInv(reader, flight', sn, inUse, entryOf, flightOf', lastUsed)
    BY <1>u, <1>8, <1>9, <1>10, <1>11, <1>12 DEF CacheInv
  <1>14. /\ CacheInv(reader, flight', snap', inUse', entryOf', flightOf', lastUsed')
         /\ WithinSize(inUse', entryOf')
    BY <1>1, <1>13, PruneKeeps
  <1> QED
    BY <1>1, <1>14 DEF SnapInv

\* A wait that ends, one way or the other, is taken off its flight's count.
LEMMA FewerWaiters ==
  ASSUME SnapInv, NEW f \in Flights, NEW n \in Nat,
         flight' = [flight EXCEPT ![f].waiters = n]
  PROVE  /\ flight' \in [Flights -> FlightState]
         /\ flight'[f].waiters = n
         /\ \A g \in Flights : /\ flight'[g].key = flight[g].key
                               /\ flight'[g].result = flight[g].result
                               /\ flight'[g].live = flight[g].live
                               /\ g # f => flight'[g].waiters = flight[g].waiters
  BY DEF SnapInv, CacheInv, Typed, FlightState

\* What the counts are when a query that waits stops waiting.
LEMMA WaitCount ==
  ASSUME SnapInv, NEW r \in Readers, reader[r].at = "wait"
  PROVE  /\ reader[r].id \in Flights
         /\ flight[reader[r].id].waiters = Cardinality(Waiters(reader, reader[r].id))
         /\ Cardinality(Waiters(reader, reader[r].id)) \in Nat
         /\ Cardinality(Waiters(reader, reader[r].id)) > 0
         /\ Less(flight[reader[r].id].waiters)
              = Cardinality(Waiters(reader, reader[r].id)) - 1
         /\ Less(flight[reader[r].id].waiters) \in Nat
  <1> DEFINE f == reader[r].id
  <1>1. f \in Flights
    BY Found
  <1>2. r \in Waiters(reader, f)
    BY DEF Waiters
  <1> HIDE DEF f
  <1>3. Cardinality(Waiters(reader, f)) \in Nat /\ Cardinality(Waiters(reader, f)) > 0
    BY <1>2, UserSets, ReadersFinite
  <1>4. flight[f].waiters = Cardinality(Waiters(reader, f))
    BY <1>1 DEF SnapInv, CacheInv, Counted
  <1>5. /\ Less(flight[f].waiters) = Cardinality(Waiters(reader, f)) - 1
        /\ Less(flight[f].waiters) \in Nat
    BY <1>3, <1>4 DEF Less
  <1> QED
    BY <1>1, <1>3, <1>4, <1>5 DEF f

\* A query that wakes to a snapshot holds it.
LEMMA WakeOk ==
  ASSUME SnapInv, NEW r \in Readers, Wake(r), flight[reader[r].id].result = "ok"
  PROVE  SnapInv'
  <1> DEFINE f == reader[r].id
             n == Less(flight[f].waiters)
  <1>1. /\ reader[r].at = "wait"
        /\ flight' = [flight EXCEPT ![f].waiters = n]
        /\ reader' = [reader EXCEPT ![r] = [at |-> "hold", id |-> f]]
        /\ lastUsed' = Newest(lastUsed, entryOf, f)
        /\ UNCHANGED <<snap, inUse, entryOf, flightOf>>
    BY DEF Wake
  <1>u. /\ Typed(reader, flight, snap, inUse, entryOf, flightOf, lastUsed)
        /\ ReadersOK(reader, flight)
        /\ Counted(reader, flight, inUse)
        /\ Listed(flight, snap, entryOf, flightOf)
        /\ UsedIsOpen(reader, flight, snap)
        /\ Ordered(Kept(entryOf), lastUsed)
        /\ WithinSize(inUse, entryOf)
        /\ reader \in ReaderStates
    BY Zenon, Unpacked, Found
  <1>2. /\ f \in Flights /\ flight[f].waiters = Cardinality(Waiters(reader, f))
        /\ n = Cardinality(Waiters(reader, f)) - 1 /\ n \in Nat
    BY <1>1, WaitCount
  <1>3. f \in Kept(entryOf) /\ Kept(entryOf) \in SUBSET Flights
    BY <1>2, Found, KeptFinite
  <1>f. reader[r].id = f /\ flight[f].result = "ok"
    OBVIOUS
  <1>w. reader[r].at = "wait"
    BY <1>1
  <1> HIDE DEF f, n
  <1>4. /\ reader' \in ReaderStates
        /\ reader'[r].at = "hold" /\ reader'[r].id = f
        /\ \A q \in Readers \ {r} : reader'[q] = reader[q]
        /\ \A g \in Flights : Users(reader', g) = Users(reader, g)
        /\ Cardinality(Waiters(reader', f)) = Cardinality(Waiters(reader, f)) - 1
        /\ \A g \in Flights \ {f} : Waiters(reader', g) = Waiters(reader, g)
    <2>1. Moved(reader, reader', r, "hold", f)
      BY <1>1 DEF Moved
    <2> QED
      BY <1>u, <1>w, <1>2, <1>f, <2>1, Wakes
  <1>5. /\ flight' \in [Flights -> FlightState]
        /\ flight'[f].waiters = n
        /\ \A g \in Flights : /\ flight'[g].key = flight[g].key
                              /\ flight'[g].result = flight[g].result
                              /\ flight'[g].live = flight[g].live
                              /\ g # f => flight'[g].waiters = flight[g].waiters
    BY Zenon, <1>1, <1>2, FewerWaiters
  <1>6. Ordered(Kept(entryOf'), lastUsed') /\ lastUsed' \in [Flights -> SUBSET Flights]
    <2>1. lastUsed \in [Flights -> SUBSET Flights]
      BY <1>u DEF Typed
    <2>2. Kept(entryOf) = Kept(entryOf) \cup {f}
      BY <1>3
    <2>3. Ordered(Kept(entryOf) \cup {f}, Newest(lastUsed, entryOf, f))
          /\ Newest(lastUsed, entryOf, f) \in [Flights -> SUBSET Flights]
      BY ZenonT(60), <1>u, <1>2, <1>3, <2>1, <2>2, NewestOrdered
    <2> QED
      BY Zenon, <1>1, <2>2, <2>3
  <1>7. Typed(reader', flight', snap', inUse', entryOf', flightOf', lastUsed')
    BY ZenonT(60), <1>u, <1>1, <1>4, <1>5, <1>6 DEF Typed, ReaderStates
  <1>8. ReadersOK(reader', flight')
    <2>1. NoFlight # f
      BY <1>2, SnapshotAssumption
    <2>2. \A q \in Readers : reader[q].at # "idle" => reader[q].id \in Flights
      BY Found
    <2> QED
      BY <1>u, <1>2, <1>f, <1>4, <1>5, <2>1, <2>2 DEF ReadersOK
  <1>9. Counted(reader', flight', inUse')
    <2>1. \A g \in Flights :
            /\ flight[g].waiters = Cardinality(Waiters(reader, g))
            /\ inUse'[g] = IF flight[g].result = "ok" THEN Cardinality(Users(reader, g)) ELSE 0
      BY <1>u, <1>1 DEF Counted
    <2> QED
      BY <1>2, <1>4, <1>5, <2>1 DEF Counted
  <1>10. Listed(flight', snap', entryOf', flightOf')
    BY <1>u, <1>1, <1>5 DEF Listed
  <1>11. UsedIsOpen(reader', flight', snap')
    <2>1. \A g \in Flights : Users(reader', g) # {} => Users(reader, g) # {}
      BY <1>4
    <2>2. snap' = snap /\ \A g \in Flights : flight'[g].result = flight[g].result
      BY <1>1, <1>5
    <2> QED
      BY <1>u, <2>1, <2>2 DEF UsedIsOpen
  <1> QED
    BY Zenon, <1>u, <1>1, <1>6, <1>7, <1>8, <1>9, <1>10, <1>11 DEF SnapInv, CacheInv

\* A query that leaves a flight with a result, which counts `us` uses then.
LeftDone(r, us) ==
    /\ reader[r].at = "wait" /\ flight[reader[r].id].result # "none"
    /\ flight' = [flight EXCEPT ![reader[r].id].waiters = Less(@)]
    /\ Moved(reader, reader', r, "idle", NoFlight)
    /\ us = IF flight[reader[r].id].result = "ok"
            THEN [inUse EXCEPT ![reader[r].id] = Less(@)] ELSE inUse

\* What waits or is used elsewhere is untouched by it, and the uses of the
\* flight's entry are one less.
LEMMA LeaveDone ==
  ASSUME SnapInv, NEW r \in Readers, NEW us, LeftDone(r, us)
  PROVE  CacheInv(reader', flight', snap, us, entryOf, flightOf, lastUsed)
  <1> DEFINE f == reader[r].id
             n == Less(flight[f].waiters)
  <1>1. /\ flight' = [flight EXCEPT ![f].waiters = n]
        /\ us = IF flight[f].result = "ok" THEN [inUse EXCEPT ![f] = Less(inUse[f])] ELSE inUse
    BY DEF LeftDone
  <1>w. reader[r].at = "wait"
    BY DEF LeftDone
  <1>f. /\ reader[r].id = f /\ Moved(reader, reader', r, "idle", NoFlight)
        /\ f \in Flights /\ reader \in ReaderStates /\ r \in Readers
    BY <1>w, Found DEF LeftDone
  <1>u. /\ Typed(reader, flight, snap, inUse, entryOf, flightOf, lastUsed)
        /\ ReadersOK(reader, flight)
        /\ Counted(reader, flight, inUse)
        /\ Listed(flight, snap, entryOf, flightOf)
        /\ UsedIsOpen(reader, flight, snap)
        /\ Ordered(Kept(entryOf), lastUsed)
        /\ WithinSize(inUse, entryOf)
        /\ reader \in ReaderStates
    BY Unpacked, Found
  <1>2. /\ f \in Flights /\ flight[f].waiters = Cardinality(Waiters(reader, f))
        /\ n = Cardinality(Waiters(reader, f)) - 1 /\ n \in Nat
    BY <1>w, WaitCount
  <1> HIDE DEF f, n
  <1>4. /\ reader' \in ReaderStates
        /\ reader'[r].at = "idle" /\ reader'[r].id = NoFlight
        /\ \A q \in Readers \ {r} : reader'[q] = reader[q]
        /\ Users(reader', f) = Users(reader, f) \ {r}
        /\ Cardinality(Users(reader, f)) > 0
        /\ Cardinality(Users(reader', f)) = Cardinality(Users(reader, f)) - 1
        /\ Cardinality(Waiters(reader', f)) = Cardinality(Waiters(reader, f)) - 1
        /\ \A g \in Flights \ {f} :
             Users(reader', g) = Users(reader, g) /\ Waiters(reader', g) = Waiters(reader, g)
    <2>1. /\ reader' \in ReaderStates
          /\ reader'[r].at = "idle" /\ reader'[r].id = NoFlight
          /\ \A q \in Readers \ {r} : reader'[q] = reader[q]
          /\ Users(reader', f) = Users(reader, f) \ {r}
          /\ Cardinality(Users(reader, f)) > 0
          /\ Cardinality(Users(reader', f)) = Cardinality(Users(reader, f)) - 1
          /\ Cardinality(Waiters(reader', f)) =
               IF reader[r].at = "wait" THEN Cardinality(Waiters(reader, f)) - 1
               ELSE Cardinality(Waiters(reader, f))
          /\ \A g \in Flights \ {f} :
               Users(reader', g) = Users(reader, g) /\ Waiters(reader', g) = Waiters(reader, g)
      BY ONLY SMTT(60), <1>f, Leaves
    <2> QED
      BY <1>w, <2>1
  <1>5. /\ flight' \in [Flights -> FlightState]
        /\ flight'[f].waiters = n
        /\ \A g \in Flights : /\ flight'[g].key = flight[g].key
                              /\ flight'[g].result = flight[g].result
                              /\ flight'[g].live = flight[g].live
                              /\ g # f => flight'[g].waiters = flight[g].waiters
    BY ZenonT(60), <1>1, <1>2, FewerWaiters
  <1>6. inUse \in [Flights -> Nat] /\ Less(inUse[f]) \in Nat
    BY <1>u, <1>2 DEF Typed, Less
  <1>7. Typed(reader', flight', snap, us, entryOf, flightOf, lastUsed)
    BY Zenon, <1>u, <1>1, <1>4, <1>5, <1>6 DEF Typed, ReaderStates
  <1>8. ReadersOK(reader', flight')
    <2>1. \A q \in Readers : reader[q].at # "idle" => reader[q].id \in Flights
      BY Found
    <2> QED
      BY <1>u, <1>4, <1>5, <2>1 DEF ReadersOK
  <1>9. Counted(reader', flight', us)
    <2>1. \A g \in Flights :
            /\ flight[g].waiters = Cardinality(Waiters(reader, g))
            /\ inUse[g] = IF flight[g].result = "ok" THEN Cardinality(Users(reader, g)) ELSE 0
      BY <1>u DEF Counted
    <2>2. us[f] = IF flight[f].result = "ok" THEN Cardinality(Users(reader', f)) ELSE 0
      <3>1. CASE flight[f].result = "ok"
        <4>1. us[f] = Less(Cardinality(Users(reader, f)))
          BY <1>1, <1>2, <1>6, <2>1, <3>1
        <4>2. Cardinality(Users(reader, f)) \in Nat
          BY UserSets
        <4> QED
          BY <1>4, <3>1, <4>1, <4>2 DEF Less
      <3>2. CASE flight[f].result # "ok"
        BY <1>1, <1>2, <2>1, <3>2
      <3> QED
        BY <3>1, <3>2
    <2>3. \A g \in Flights \ {f} : us[g] = inUse[g]
      BY <1>1, <1>6
    <2>4. flight'[f].waiters = Cardinality(Waiters(reader', f))
      BY <1>2, <1>4, <1>5
    <2>5. \A g \in Flights \ {f} :
            /\ flight'[g].waiters = Cardinality(Waiters(reader', g))
            /\ us[g] = IF flight'[g].result = "ok" THEN Cardinality(Users(reader', g)) ELSE 0
      BY <1>4, <1>5, <2>1, <2>3
    <2>6. us[f] = IF flight'[f].result = "ok" THEN Cardinality(Users(reader', f)) ELSE 0
      BY <1>2, <1>5, <2>2
    <2> QED
      BY <2>4, <2>5, <2>6 DEF Counted
  <1>10. Listed(flight', snap, entryOf, flightOf)
    <2>1. \A g \in Flights : /\ flight'[g].key = flight[g].key
                             /\ flight'[g].result = flight[g].result
                             /\ flight'[g].live = flight[g].live
      BY <1>5
    <2>2. Listed(flight, snap, entryOf, flightOf)
      BY <1>u
    <2> QED
      BY <2>1, <2>2 DEF Listed
  <1>11. UsedIsOpen(reader', flight', snap)
    <2>1. \A g \in Flights : Users(reader', g) # {} => Users(reader, g) # {}
      BY <1>4
    <2>2. \A g \in Flights : flight'[g].result = flight[g].result
      BY <1>5
    <2> QED
      BY <1>u, <2>1, <2>2 DEF UsedIsOpen
  <1> QED
    BY Zenon, <1>u, <1>7, <1>8, <1>9, <1>10, <1>11 DEF CacheInv

\* A query that wakes to an error is gone.
LEMMA WakeFailed ==
  ASSUME SnapInv, NEW r \in Readers, Wake(r), flight[reader[r].id].result # "ok"
  PROVE  SnapInv'
  <1>1. CacheInv(reader', flight', snap, inUse, entryOf, flightOf, lastUsed)
    <2>1. Moved(reader, reader', r, "idle", NoFlight)
      BY DEF Moved, Wake, Away
    <2>2. /\ reader[r].at = "wait" /\ flight[reader[r].id].result # "none"
          /\ flight' = [flight EXCEPT ![reader[r].id].waiters = Less(@)]
      BY DEF Wake
    <2>3. LeftDone(r, inUse)
      BY Zenon, <2>1, <2>2 DEF LeftDone
    <2> QED
      BY <2>3, LeaveDone
  <1>2. UNCHANGED <<snap, inUse, entryOf, flightOf, lastUsed>>
    BY DEF Wake
  <1> QED
    BY <1>1, <1>2 DEF SnapInv

LEMMA GiveUpDoneStep ==
  ASSUME SnapInv, NEW r \in Readers, GiveUpDone(r)
  PROVE  SnapInv'
  <1> DEFINE us == IF flight[reader[r].id].result = "ok"
                   THEN [inUse EXCEPT ![reader[r].id] = Less(@)] ELSE inUse
  <1>1. CacheInv(reader', flight', snap, us, entryOf, flightOf, lastUsed)
    <2>1. Moved(reader, reader', r, "idle", NoFlight)
      BY DEF Moved, GiveUpDone, Away
    <2>2. /\ reader[r].at = "wait" /\ flight[reader[r].id].result # "none"
          /\ flight' = [flight EXCEPT ![reader[r].id].waiters = Less(@)]
      BY DEF GiveUpDone
    <2>3. LeftDone(r, us)
      BY Zenon, <2>1, <2>2 DEF LeftDone
    <2> QED
      BY <2>3, LeaveDone
  <1>2. Prune(entryOf, us, lastUsed, snap) /\ flightOf' = flightOf
    BY DEF GiveUpDone
  <1> HIDE DEF us
  <1>3. /\ CacheInv(reader', flight', snap', inUse', entryOf', flightOf, lastUsed')
        /\ WithinSize(inUse', entryOf')
    BY <1>1, <1>2, PruneKeeps
  <1> QED
    BY <1>2, <1>3 DEF SnapInv

\* A query that gives up before the result cancels the build only when nobody
\* else waits for it.
LEMMA GiveUpEarlyStep ==
  ASSUME SnapInv, NEW r \in Readers, GiveUpEarly(r)
  PROVE  SnapInv'
  <1> DEFINE f == reader[r].id
             n == Less(flight[f].waiters)
  <1>1. /\ flight[f].result = "none"
        /\ flight' = [flight EXCEPT ![f].waiters = n, ![f].live = @ /\ n # 0]
        /\ flightOf' = IF n = 0 THEN Unlisted(f) ELSE flightOf
        /\ Prune(entryOf, inUse, lastUsed, snap)
    BY DEF GiveUpEarly, Abandoned
  <1>w. reader[r].at = "wait"
    BY DEF GiveUpEarly
  <1>u. /\ Typed(reader, flight, snap, inUse, entryOf, flightOf, lastUsed)
        /\ ReadersOK(reader, flight)
        /\ Counted(reader, flight, inUse)
        /\ Listed(flight, snap, entryOf, flightOf)
        /\ UsedIsOpen(reader, flight, snap)
        /\ Ordered(Kept(entryOf), lastUsed)
        /\ WithinSize(inUse, entryOf)
        /\ reader \in ReaderStates
    BY Unpacked, Found
  <1>2. /\ flight[f].waiters = Cardinality(Waiters(reader, f))
        /\ n = Cardinality(Waiters(reader, f)) - 1 /\ n \in Nat
    BY Zenon, <1>w, WaitCount
  <1>f. /\ reader[r].id = f /\ Moved(reader, reader', r, "idle", NoFlight)
        /\ f \in Flights /\ reader \in ReaderStates /\ r \in Readers
    BY Zenon, <1>w, Found DEF Moved, Away, GiveUpEarly
  <1>3. flight[f].live /\ flight[f].key \in SnapKeys /\ NoFlight \notin Flights
    BY Zenon, <1>u, <1>1, <1>w, <1>f, Found, SnapshotAssumption DEF ReadersOK
  <1> HIDE DEF f, n
  <1>4. /\ reader' \in ReaderStates
        /\ reader'[r].at = "idle" /\ reader'[r].id = NoFlight
        /\ \A q \in Readers \ {r} : reader'[q] = reader[q]
        /\ Users(reader', f) = Users(reader, f) \ {r}
        /\ Cardinality(Waiters(reader', f)) = Cardinality(Waiters(reader, f)) - 1
        /\ \A g \in Flights \ {f} :
             Users(reader', g) = Users(reader, g) /\ Waiters(reader', g) = Waiters(reader, g)
    <2>1. /\ reader' \in ReaderStates
          /\ reader'[r].at = "idle" /\ reader'[r].id = NoFlight
          /\ \A q \in Readers \ {r} : reader'[q] = reader[q]
          /\ Users(reader', f) = Users(reader, f) \ {r}
          /\ Cardinality(Users(reader, f)) > 0
          /\ Cardinality(Users(reader', f)) = Cardinality(Users(reader, f)) - 1
          /\ Cardinality(Waiters(reader', f)) =
               IF reader[r].at = "wait" THEN Cardinality(Waiters(reader, f)) - 1
               ELSE Cardinality(Waiters(reader, f))
          /\ \A g \in Flights \ {f} :
               Users(reader', g) = Users(reader, g) /\ Waiters(reader', g) = Waiters(reader, g)
      BY ONLY <1>f, Leaves
    <2> QED
      BY <1>w, <2>1
  <1>5. /\ flight' \in [Flights -> FlightState]
        /\ flight'[f].key = flight[f].key /\ flight'[f].result = "none"
        /\ flight'[f].waiters = n /\ flight'[f].live = (n # 0)
        /\ \A g \in Flights \ {f} : flight'[g] = flight[g]
    <2>1. flight[f] \in FlightState /\ flight \in [Flights -> FlightState]
      BY <1>u, <1>f DEF Typed
    <2>2. PICK b \in BOOLEAN : b = (n # 0)
      BY Zenon
    <2>3. (flight[f].live /\ n # 0) = b
      BY <1>3, <2>2
    <2>4. flight' = [flight EXCEPT ![f] = [flight[f] EXCEPT !.waiters = n, !.live = b]]
      BY Zenon, <1>1, <1>f, <2>1, <2>3
    <2>5. flight[f].result = "none"
      BY <1>1
    <2>6. /\ flight' \in [Flights -> FlightState]
          /\ flight'[f].key = flight[f].key /\ flight'[f].result = "none"
          /\ flight'[f].waiters = n /\ flight'[f].live = b
          /\ \A g \in Flights \ {f} : flight'[g] = flight[g]
      BY ZenonT(60), <1>2, <1>3, <1>f, <2>1, <2>4, <2>5 DEF FlightState
    <2> QED
      BY <2>2, <2>6
  <1>6. /\ flightOf' \in [SnapKeys -> Flights \cup {NoFlight}]
        /\ \A j \in SnapKeys :
             flightOf'[j] = IF n = 0 /\ flightOf[j] = f THEN NoFlight ELSE flightOf[j]
    BY <1>u, <1>1 DEF Typed, Unlisted
  <1>7. Typed(reader', flight', snap, inUse, entryOf, flightOf', lastUsed)
    BY Zenon, <1>u, <1>4, <1>5, <1>6 DEF Typed, ReaderStates
  <1>8. ReadersOK(reader', flight')
    <2>1. \A q \in Readers : reader[q].at # "idle" => reader[q].id \in Flights
      BY Found
    <2>2. ASSUME NEW q \in Readers \ {r}, reader[q].at = "wait", reader[q].id = f
          PROVE  n # 0
      <3>1. q \in Waiters(reader', f)
        BY Zenon, <1>4, <2>2 DEF Waiters
      <3> QED
        BY <1>2, <1>4, <3>1, UserSets, ReadersFinite
    <2> SUFFICES ASSUME NEW q \in Readers \ {r}
                 PROVE  /\ reader[q].at = "wait" =>
                             /\ flight'[reader[q].id].result # "canceled"
                             /\ flight'[reader[q].id].result = "none"
                                  => flight'[reader[q].id].live
                        /\ reader[q].at = "hold" => flight'[reader[q].id].result = "ok"
      BY <1>u, <1>4 DEF ReadersOK
    <2>3. CASE reader[q].id = f
      BY ZenonT(60), <1>u, <1>1, <1>5, <2>2, <2>3 DEF ReadersOK
    <2>4. CASE reader[q].id # f
      BY <1>u, <1>5, <2>1, <2>4 DEF ReadersOK
    <2> QED
      BY <2>3, <2>4
  <1>9. Counted(reader', flight', inUse)
    <2>1. \A g \in Flights :
            /\ flight[g].waiters = Cardinality(Waiters(reader, g))
            /\ inUse[g] = IF flight[g].result = "ok" THEN Cardinality(Users(reader, g)) ELSE 0
      BY <1>u DEF Counted
    <2>2. flight'[f].waiters = Cardinality(Waiters(reader', f)) /\ inUse[f] = 0
      BY Zenon, <1>1, <1>2, <1>4, <1>5, <1>f, <2>1
    <2>3. \A g \in Flights \ {f} :
            /\ flight'[g].waiters = Cardinality(Waiters(reader', g))
            /\ inUse[g] = IF flight'[g].result = "ok" THEN Cardinality(Users(reader', g)) ELSE 0
      BY <1>4, <1>5, <2>1
    <2> QED
      BY <1>5, <2>2, <2>3 DEF Counted
  <1>10. Listed(flight', snap, entryOf, flightOf')
    <2>1. ASSUME NEW j \in SnapKeys, NEW g \in Flights, entryOf[j] = g
          PROVE  flight'[g].result = "ok" /\ flight'[g].key = j /\ snap[g] = "open"
      <3>1. flight[g].result = "ok" /\ flight[g].key = j /\ snap[g] = "open"
        BY <1>u, <2>1 DEF Listed
      <3> QED
        BY <1>1, <1>5, <3>1
    <2>2. ASSUME NEW j \in SnapKeys, NEW g \in Flights, flightOf'[j] = g
          PROVE  /\ flight'[g].result = "none" /\ flight'[g].key = j /\ flight'[g].live
                 /\ entryOf[j] = NoFlight
      <3>1. flightOf[j] = g /\ (g = f => n # 0)
        BY Zenon, <1>3, <1>6, <2>2
      <3>2. /\ flight[g].result = "none" /\ flight[g].key = j /\ flight[g].live
            /\ entryOf[j] = NoFlight
        BY <1>u, <3>1 DEF Listed
      <3> QED
        BY ZenonT(60), <1>5, <3>1, <3>2
    <2>3. ASSUME NEW g \in Flights
          PROVE  /\ flight'[g].live => flightOf'[flight'[g].key] = g
                 /\ snap[g] = "open" => entryOf[flight'[g].key] = g
      <3>1. /\ flight[g].live => flightOf[flight[g].key] = g
            /\ snap[g] = "open" => entryOf[flight[g].key] = g
            /\ flight[g].key \in SnapKeys
        BY <1>u, Found DEF Listed
      <3>2. CASE g = f
        BY ZenonT(60), <1>3, <1>5, <1>6, <3>1, <3>2
      <3>3. CASE g # f
        BY <1>5, <1>6, <3>1, <3>3
      <3> QED
        BY Zenon, <3>2, <3>3
    <2> QED
      BY <2>1, <2>2, <2>3 DEF Listed
  <1>11. UsedIsOpen(reader', flight', snap)
    <2>1. \A g \in Flights : Users(reader', g) # {} => Users(reader, g) # {}
      BY <1>4
    <2>2. \A g \in Flights : flight'[g].result = flight[g].result
      BY <1>1, <1>5
    <2> QED
      BY Zenon, <1>u, <2>1, <2>2 DEF UsedIsOpen
  <1>12. CacheInv(reader', flight', snap, inUse, entryOf, flightOf', lastUsed)
    BY <1>u, <1>7, <1>8, <1>9, <1>10, <1>11 DEF CacheInv
  <1>13. /\ CacheInv(reader', flight', snap', inUse', entryOf', flightOf', lastUsed')
         /\ WithinSize(inUse', entryOf')
    BY <1>1, <1>12, PruneKeeps
  <1> QED
    BY <1>13 DEF SnapInv

\* A query that releases its snapshot leaves it to the others, or to Prune.
LEMMA ReleaseStep ==
  ASSUME SnapInv, NEW r \in Readers, ReleaseSnapshot(r)
  PROVE  SnapInv'
  <1> DEFINE f == reader[r].id
             us == [inUse EXCEPT ![f] = Less(inUse[f])]
             lu == IF us[f] = 0 THEN Newest(lastUsed, entryOf, f) ELSE lastUsed
  <1>1. Prune(entryOf, us, lu, snap) /\ flight' = flight /\ flightOf' = flightOf
    BY DEF ReleaseSnapshot
  <1>w. reader[r].at = "hold"
    BY DEF ReleaseSnapshot
  <1>u. /\ Typed(reader, flight, snap, inUse, entryOf, flightOf, lastUsed)
        /\ ReadersOK(reader, flight)
        /\ Counted(reader, flight, inUse)
        /\ Listed(flight, snap, entryOf, flightOf)
        /\ UsedIsOpen(reader, flight, snap)
        /\ Ordered(Kept(entryOf), lastUsed)
        /\ WithinSize(inUse, entryOf)
        /\ reader \in ReaderStates
    BY Unpacked, Found
  <1>f. /\ reader[r].id = f /\ Moved(reader, reader', r, "idle", NoFlight)
        /\ f \in Flights /\ reader \in ReaderStates /\ r \in Readers
    BY <1>w, Found DEF Moved, Away, ReleaseSnapshot
  <1>2. flight[f].result = "ok"
    BY <1>u, <1>w DEF ReadersOK
  <1>3. f \in Kept(entryOf) /\ Kept(entryOf) \in SUBSET Flights
    BY <1>2, <1>f, Found, KeptFinite
  <1> HIDE DEF f
  <1>4. /\ reader' \in ReaderStates
        /\ reader'[r].at = "idle" /\ reader'[r].id = NoFlight
        /\ \A q \in Readers \ {r} : reader'[q] = reader[q]
        /\ Users(reader', f) = Users(reader, f) \ {r}
        /\ Cardinality(Users(reader, f)) > 0
        /\ Cardinality(Users(reader', f)) = Cardinality(Users(reader, f)) - 1
        /\ Cardinality(Waiters(reader', f)) = Cardinality(Waiters(reader, f))
        /\ \A g \in Flights \ {f} :
             Users(reader', g) = Users(reader, g) /\ Waiters(reader', g) = Waiters(reader, g)
    <2>1. /\ reader' \in ReaderStates
          /\ reader'[r].at = "idle" /\ reader'[r].id = NoFlight
          /\ \A q \in Readers \ {r} : reader'[q] = reader[q]
          /\ Users(reader', f) = Users(reader, f) \ {r}
          /\ Cardinality(Users(reader, f)) > 0
          /\ Cardinality(Users(reader', f)) = Cardinality(Users(reader, f)) - 1
          /\ Cardinality(Waiters(reader', f)) =
               IF reader[r].at = "wait" THEN Cardinality(Waiters(reader, f)) - 1
               ELSE Cardinality(Waiters(reader, f))
          /\ \A g \in Flights \ {f} :
               Users(reader', g) = Users(reader, g) /\ Waiters(reader', g) = Waiters(reader, g)
      BY ONLY <1>f, Leaves
    <2> QED
      BY <1>w, <2>1
  <1>5. /\ us \in [Flights -> Nat] /\ us[f] = Less(inUse[f])
        /\ \A g \in Flights \ {f} : us[g] = inUse[g]
    <2>1. inUse \in [Flights -> Nat] /\ Less(inUse[f]) \in Nat
      BY <1>u, <1>f DEF Typed, Less
    <2> QED
      BY <1>f, <2>1
  <1> HIDE DEF us
  <1>6. Ordered(Kept(entryOf), lu) /\ lu \in [Flights -> SUBSET Flights]
    <2>1. lastUsed \in [Flights -> SUBSET Flights]
      BY <1>u DEF Typed
    <2>2. Kept(entryOf) = Kept(entryOf) \cup {f}
      BY <1>3
    <2>3. Ordered(Kept(entryOf) \cup {f}, Newest(lastUsed, entryOf, f))
          /\ Newest(lastUsed, entryOf, f) \in [Flights -> SUBSET Flights]
      BY Zenon, <1>u, <1>f, <1>3, <2>1, <2>2, NewestOrdered
    <2>4. CASE us[f] = 0
      BY Zenon, <2>2, <2>3, <2>4
    <2>5. CASE us[f] # 0
      BY <1>u, <2>1, <2>5
    <2> QED
      BY <2>4, <2>5
  <1> HIDE DEF lu
  <1>7. Typed(reader', flight, snap, us, entryOf, flightOf, lu)
    BY <1>u, <1>4, <1>5, <1>6 DEF Typed, ReaderStates
  <1>8. ReadersOK(reader', flight)
    BY <1>u, <1>4 DEF ReadersOK
  <1>9. Counted(reader', flight, us)
    <2>1. \A g \in Flights :
            /\ flight[g].waiters = Cardinality(Waiters(reader, g))
            /\ inUse[g] = IF flight[g].result = "ok" THEN Cardinality(Users(reader, g)) ELSE 0
      BY <1>u DEF Counted
    <2>2. us[f] = Cardinality(Users(reader', f))
      <3>1. us[f] = Less(Cardinality(Users(reader, f)))
        BY <1>2, <1>5, <1>f, <2>1
      <3>2. Cardinality(Users(reader, f)) \in Nat
        BY UserSets
      <3> QED
        BY <1>4, <3>1, <3>2 DEF Less
    <2>3. \A g \in Flights \ {f} :
            /\ flight[g].waiters = Cardinality(Waiters(reader', g))
            /\ us[g] = IF flight[g].result = "ok" THEN Cardinality(Users(reader', g)) ELSE 0
      BY <1>4, <1>5, <2>1
    <2>4. flight[f].waiters = Cardinality(Waiters(reader', f))
      BY <1>4, <1>f, <2>1
    <2> QED
      BY <1>2, <2>2, <2>3, <2>4 DEF Counted
  <1>10. UsedIsOpen(reader', flight, snap)
    <2>1. \A g \in Flights : Users(reader', g) # {} => Users(reader, g) # {}
      BY <1>4
    <2> QED
      BY <1>u, <2>1 DEF UsedIsOpen
  <1>11. CacheInv(reader', flight, snap, us, entryOf, flightOf, lu)
    BY <1>u, <1>6, <1>7, <1>8, <1>9, <1>10 DEF CacheInv
  <1>12. /\ CacheInv(reader', flight, snap', inUse', entryOf', flightOf, lastUsed')
         /\ WithinSize(inUse', entryOf')
    BY <1>1, <1>11, PruneKeeps
  <1> QED
    BY <1>1, <1>12 DEF SnapInv

-----------------------------------------------------------------------------
LEMMA SnapInvInit == SnapshotInit => SnapInv
  <1> SUFFICES ASSUME SnapshotInit PROVE SnapInv
    OBVIOUS
  <1> USE DEF SnapshotInit
  <1>1. NoFlight \notin Flights /\ MaxSnapshots \in Nat
    BY SnapshotAssumption
  <1>2. ASSUME NEW f \in Flights
        PROVE  flight[f].result = "canceled" /\ flight[f].live = FALSE
               /\ flight[f].waiters = 0
    BY DEF Landed
  <1>3. \A r \in Readers : reader[r].at = "idle" /\ reader[r].id = NoFlight
    BY DEF Away
  <1>4. Kept(entryOf) = {}
    BY <1>1 DEF Kept
  <1>5. \A f \in Flights : Users(reader, f) = {} /\ Waiters(reader, f) = {}
    BY <1>1, <1>3 DEF Users, Waiters
  <1>6. Typed(reader, flight, snap, inUse, entryOf, flightOf, lastUsed)
    <2>1. reader \in ReaderStates
      BY DEF Away, ReaderStates
    <2>2. flight \in [Flights -> FlightState]
      BY SnapshotAssumption DEF Landed, FlightState
    <2> QED
      BY <2>1, <2>2 DEF Typed, ReaderStates
  <1>7. ReadersOK(reader, flight)
    BY <1>3 DEF ReadersOK
  <1>8. Counted(reader, flight, inUse)
    BY Zenon, <1>2, <1>5, FS_EmptySet DEF Counted
  <1>9. Listed(flight, snap, entryOf, flightOf)
    BY Zenon, <1>1, <1>2 DEF Listed
  <1>10. UsedIsOpen(reader, flight, snap)
    BY <1>5 DEF UsedIsOpen
  <1>11. Ordered(Kept(entryOf), lastUsed)
    BY <1>4 DEF Ordered
  <1>12. WithinSize(inUse, entryOf)
    BY <1>4 DEF WithinSize
  <1> QED
    BY <1>6, <1>7, <1>8, <1>9, <1>10, <1>11, <1>12, Unpacked

LEMMA SnapInvStep ==
  ASSUME SnapInv, [SnapshotNext]_snapVars
  PROVE  SnapInv'
  <1>1. ASSUME NEW r \in Readers, AcquireSnapshot(r)
        PROVE  SnapInv'
    <2>1. reader[r] = Away
      BY <1>1 DEF AcquireSnapshot
    <2>2. PICK k \in SnapKeys : Hit(r, k) \/ Share(r, k) \/ Launch(r, k)
      BY <1>1 DEF AcquireSnapshot
    <2> QED
      BY <2>1, <2>2, HitStep, ShareStep, LaunchStep
  <1>2. ASSUME NEW r \in Readers, Wake(r)
        PROVE  SnapInv'
    BY <1>2, WakeOk, WakeFailed
  <1>3. ASSUME NEW r \in Readers, GiveUpDone(r)
        PROVE  SnapInv'
    BY <1>3, GiveUpDoneStep
  <1>4. ASSUME NEW r \in Readers, GiveUpEarly(r)
        PROVE  SnapInv'
    BY <1>4, GiveUpEarlyStep
  <1>5. ASSUME NEW r \in Readers, ReleaseSnapshot(r)
        PROVE  SnapInv'
    BY <1>5, ReleaseStep
  <1>6. ASSUME NEW f \in Flights, NEW built \in BOOLEAN, Complete(f, built)
        PROVE  SnapInv'
    <2>1. CASE built /\ Welcome(f)
      BY Zenon, <1>6, <2>1, CompleteKept
    <2>2. CASE ~(built /\ Welcome(f))
      BY <1>6, <2>2, CompleteDropped
    <2> QED
      BY <2>1, <2>2
  <1>7. CASE UNCHANGED snapVars
    BY <1>7 DEF snapVars, SnapInv
  <1> QED
    BY <1>1, <1>2, <1>3, <1>4, <1>5, <1>6, <1>7 DEF SnapshotNext

\* The counts of worktreeGraphCache are the queries there are, its entries and
\* shared flights are what it says they are, in every reachable state.
THEOREM SnapshotInvariance == SnapshotSpec => []SnapInv
  BY SnapInvInit, SnapInvStep, PTL DEF SnapshotSpec

\* Every variable of the snapshot cache keeps its type (worktreeGraphCache).
THEOREM SnapshotTypeCorrect == SnapshotSpec => []SnapshotTypeOK
  <1>1. SnapInv => SnapshotTypeOK
    BY DEF SnapInv, CacheInv, Typed, SnapshotTypeOK
  <1> QED
    BY <1>1, SnapshotInvariance, PTL

\* Snapshots are accounted for, for any number of queries and any cache size: none
\* is closed under a query, an open one can be found to be closed, and the cache is
\* over maxWorktreeGraphSnapshots only while all of it is in use.
THEOREM SnapshotsSafe == SnapshotSpec => []SnapshotsAreAccounted
  <1>1. SnapInv => SnapshotsAreAccounted
    <2> SUFFICES ASSUME SnapInv PROVE SnapshotsAreAccounted
      OBVIOUS
    <2>u. /\ Typed(reader, flight, snap, inUse, entryOf, flightOf, lastUsed)
          /\ ReadersOK(reader, flight)
          /\ Listed(flight, snap, entryOf, flightOf)
          /\ UsedIsOpen(reader, flight, snap)
          /\ WithinSize(inUse, entryOf)
      BY Unpacked
    <2>1. HeldIsOpen
      <3> SUFFICES ASSUME NEW r \in Readers, NEW f \in Flights,
                          Holds(r, f) \/ (Waits(r, f) /\ flight[f].result = "ok")
                   PROVE  snap[f] = "open" /\ entryOf[flight[f].key] = f
        BY DEF HeldIsOpen
      <3>1. reader[r].id = f /\ flight[f].result = "ok"
        BY <2>u DEF Holds, Waits, ReadersOK
      <3>2. Users(reader, f) # {}
        BY <3>1 DEF Users
      <3> QED
        BY <2>u, <3>1, <3>2 DEF UsedIsOpen, Listed
    <2>2. \A f \in Flights : snap[f] = "open" => \E k \in SnapKeys : entryOf[k] = f
      BY <2>u, Found DEF Listed
    <2>3. Cardinality(Kept(entryOf)) > MaxSnapshots => \A f \in Kept(entryOf) : inUse[f] > 0
      BY <2>u DEF WithinSize
    <2> QED
      BY <2>1, <2>2, <2>3 DEF SnapshotsAreAccounted, OpenIsCached
  <1> QED
    BY <1>1, SnapshotInvariance, PTL

\* A query that gives up never spoils a flight others wait for
\* (cancelWorktreeGraphWaiter cancels for the last waiter only).
THEOREM CancelSafe == SnapshotSpec => []CancelHurtsNobody
  <1>1. SnapInv => CancelHurtsNobody
    BY Unpacked DEF ReadersOK, CancelHurtsNobody, Waits
  <1> QED
    BY <1>1, SnapshotInvariance, PTL
=============================================================================
