----------------------- MODULE GraphGenerationsProofs -----------------------
(***************************************************************************)
(* Proofs about GraphGenerations for any source contents, any number of    *)
(* publications and any limit on the predecessor chain.                    *)
(***************************************************************************)
EXTENDS GraphGenerations, FiniteSetTheorems, TLAPS

(* The predecessor walk over given links, to compare the walks before and  *)
(* after a step.                                                           *)
Links == [GraphIds -> GraphIds \cup {NoGraph}]

ClosedIn(L, S) == \A g \in S : L[g] \in S \cup {NoGraph}

LineageIn(L, g) ==
    {h \in GraphIds : \A S \in SUBSET GraphIds : (g \in S /\ ClosedIn(L, S)) => h \in S}

SoundIn(L, st, g) ==
    /\ \E h \in LineageIn(L, g) : L[h] = NoGraph
    /\ \A h \in LineageIn(L, g) \ {g} : st[h] \in Readable

\* The rows reached from g are the least set with g that the links do not leave.
LEMMA LineageLeast ==
  ASSUME NEW L \in Links, NEW g \in GraphIds
  PROVE  /\ g \in LineageIn(L, g)
         /\ LineageIn(L, g) \subseteq GraphIds
         /\ ClosedIn(L, LineageIn(L, g))
         /\ \A S \in SUBSET GraphIds : g \in S /\ ClosedIn(L, S) => LineageIn(L, g) \subseteq S
  <1>1. g \in LineageIn(L, g) /\ LineageIn(L, g) \subseteq GraphIds
    BY DEF LineageIn
  <1>2. ASSUME NEW S \in SUBSET GraphIds, g \in S, ClosedIn(L, S)
        PROVE  LineageIn(L, g) \subseteq S
    BY <1>2 DEF LineageIn
  <1>3. ASSUME NEW h \in LineageIn(L, g), L[h] # NoGraph
        PROVE  L[h] \in LineageIn(L, g)
    <2>1. L[h] \in GraphIds
      BY <1>1, <1>3 DEF Links
    <2>2. ASSUME NEW S \in SUBSET GraphIds, g \in S, ClosedIn(L, S)
          PROVE  L[h] \in S
      <3>1. h \in S
        BY <1>2, <2>2
      <3> QED
        BY <1>3, <2>2, <3>1 DEF ClosedIn
    <2> QED
      BY <2>1, <2>2 DEF LineageIn
  <1>4. ClosedIn(L, LineageIn(L, g))
    BY <1>3 DEF ClosedIn
  <1> QED
    BY <1>1, <1>2, <1>4

\* Links that change outside what is reached from g change nothing for g.
LEMMA LineageAgree ==
  ASSUME NEW L \in Links, NEW M \in Links, NEW g \in GraphIds,
         \A h \in LineageIn(L, g) : M[h] = L[h]
  PROVE  LineageIn(M, g) = LineageIn(L, g)
  <1>1. ClosedIn(M, LineageIn(L, g))
    BY LineageLeast DEF ClosedIn
  <1>2. LineageIn(M, g) \subseteq LineageIn(L, g)
    BY <1>1, LineageLeast
  <1>3. ClosedIn(L, LineageIn(M, g))
    <2>1. ClosedIn(M, LineageIn(M, g))
      BY LineageLeast
    <2> QED
      BY <1>2, <2>1 DEF ClosedIn
  <1>4. LineageIn(L, g) \subseteq LineageIn(M, g)
    BY <1>3, LineageLeast
  <1> QED
    BY <1>2, <1>4

LEMMA SoundKept ==
  ASSUME NEW L \in Links, NEW M \in Links, NEW st, NEW tt, NEW g \in GraphIds,
         SoundIn(L, st, g),
         \A h \in LineageIn(L, g) : M[h] = L[h],
         \A h \in LineageIn(L, g) \ {g} : st[h] \in Readable => tt[h] \in Readable
  PROVE  SoundIn(M, tt, g)
  <1>1. LineageIn(M, g) = LineageIn(L, g)
    BY LineageAgree
  <1> QED
    BY <1>1 DEF SoundIn

\* Linking a row to one that does not lead back to it.
LEMMA SoundLinked ==
  ASSUME NEW L \in Links, NEW st, NEW tt, NEW g \in GraphIds, NEW a \in GraphIds,
         SoundIn(L, st, a), g \notin LineageIn(L, a),
         \A h \in LineageIn(L, a) : tt[h] \in Readable
  PROVE  SoundIn([L EXCEPT ![g] = a], tt, g)
  <1> DEFINE M == [L EXCEPT ![g] = a]
             A == LineageIn(L, a)
  <1>1. M \in Links
    BY DEF Links
  <1>2. A \subseteq GraphIds /\ a \in A /\ ClosedIn(L, A)
    BY LineageLeast
  <1>3. \A h \in A : M[h] = L[h]
    BY <1>2 DEF Links
  <1>4. LineageIn(M, a) = A
    BY Zenon, <1>1, <1>3, LineageAgree
  <1>5. a # NoGraph /\ M[g] = a
    BY GraphAssumption DEF GraphIds, Links
  <1>6. LineageIn(M, g) \subseteq A \cup {g}
    <2>1. ClosedIn(M, A \cup {g})
      BY <1>2, <1>3, <1>5 DEF ClosedIn
    <2>2. A \cup {g} \in SUBSET GraphIds /\ g \in A \cup {g}
      BY <1>2
    <2> HIDE DEF M, A
    <2> QED
      BY <1>1, <2>1, <2>2, LineageLeast
  <1>7. A \subseteq LineageIn(M, g)
    <2>1. g \in LineageIn(M, g) /\ ClosedIn(M, LineageIn(M, g)) /\ LineageIn(M, g) \in SUBSET GraphIds
      <3> HIDE DEF M
      <3> QED
        BY <1>1, LineageLeast
    <2>2. a \in LineageIn(M, g)
      BY Zenon, <1>5, <2>1 DEF ClosedIn
    <2>3. LineageIn(M, a) \subseteq LineageIn(M, g)
      <3> HIDE DEF M
      <3> QED
        BY <1>1, <2>1, <2>2, LineageLeast
    <2> QED
      BY Zenon, <1>4, <2>3
  <1>8. PICK r \in A : L[r] = NoGraph
    BY DEF SoundIn
  <1>9. r \in LineageIn(M, g) /\ M[r] = NoGraph
    BY Zenon, <1>3, <1>7, <1>8
  <1>10. \A h \in LineageIn(M, g) \ {g} : tt[h] \in Readable
    BY <1>6
  <1> QED
    BY Zenon, <1>9, <1>10 DEF SoundIn

\* A row that becomes a root.
LEMMA SoundRoot ==
  ASSUME NEW L \in Links, NEW tt, NEW g \in GraphIds, L[g] = NoGraph
  PROVE  SoundIn(L, tt, g)
  <1>1. ClosedIn(L, {g})
    BY DEF ClosedIn
  <1>2. LineageIn(L, g) = {g}
    BY <1>1, LineageLeast
  <1> QED
    BY <1>2 DEF SoundIn

\* Cutting the link of one row, wherever it is.
LEMMA SoundCut ==
  ASSUME NEW L \in Links, NEW st, NEW tt, NEW g \in GraphIds, NEW p \in GraphIds,
         SoundIn(L, st, g),
         \A h \in GraphIds : st[h] \in Readable => tt[h] \in Readable
  PROVE  SoundIn([L EXCEPT ![p] = NoGraph], tt, g)
  <1> DEFINE M == [L EXCEPT ![p] = NoGraph]
  <1>1. M \in Links /\ M[p] = NoGraph /\ \A h \in GraphIds : h # p => M[h] = L[h]
    BY DEF Links
  <1> HIDE DEF M
  <1>2. /\ LineageIn(L, g) \in SUBSET GraphIds /\ g \in LineageIn(L, g)
        /\ ClosedIn(L, LineageIn(L, g))
        /\ LineageIn(M, g) \in SUBSET GraphIds /\ g \in LineageIn(M, g)
        /\ ClosedIn(M, LineageIn(M, g))
    BY <1>1, LineageLeast
  <1>3. ClosedIn(M, LineageIn(L, g))
    BY <1>1, <1>2 DEF ClosedIn
  <1>4. LineageIn(M, g) \subseteq LineageIn(L, g)
    BY <1>1, <1>2, <1>3, LineageLeast
  <1>5. \E h \in LineageIn(M, g) : M[h] = NoGraph
    <2>1. CASE p \in LineageIn(M, g)
      BY <1>1, <2>1
    <2>2. CASE p \notin LineageIn(M, g)
      <3>1. ClosedIn(L, LineageIn(M, g))
        BY <1>1, <1>2, <2>2 DEF ClosedIn
      <3>2. LineageIn(L, g) \subseteq LineageIn(M, g)
        BY <1>2, <3>1, LineageLeast
      <3> QED
        BY <1>1, <1>2, <2>2, <3>2 DEF SoundIn
    <2> QED
      BY <2>1, <2>2
  <1>6. \A h \in LineageIn(M, g) \ {g} : tt[h] \in Readable
    BY <1>2, <1>4 DEF SoundIn
  <1>7. SoundIn(M, tt, g)
    BY <1>5, <1>6 DEF SoundIn
  <1> QED
    BY <1>7 DEF M

-----------------------------------------------------------------------------
(* The inductive invariant.  A pass that has activated its generation is   *)
(* in step with the catalog until another process publishes; the runtime   *)
(* state is bound to no catalog generation that is still to come; and the  *)
(* database has finitely many rows.                                        *)
PassInv ==
    /\ fg.pc \in {"stage", "activate"} => fg.graph # NoGraph
    /\ fg.kind = "full" /\ fg.graph # NoGraph => fg.code = fg.graph
    /\ fg.pc \in {"replace", "mark"} /\ ~overlap => activeGraph = fg.graph /\ lag = "none"

BindingInv ==
    /\ activeGraph = NoGraph => lag = "none"
    /\ gruntime.bound <= cat.gen \/ gruntime.bound = Skipped

RowsFinite == IsFiniteSet({g \in GraphIds : gstatus[g] # "none"})

GraphInv ==
    /\ GraphTypeOK /\ PassInv /\ BindingInv /\ RowsFinite
    /\ PointerIsTheActive /\ HistoryIsSound /\ OutrunOnlyUnbound

(* What a step may do to the rows of graph_generations and the pointers.   *)
RowStep ==
    \/ UNCHANGED rows
    \/ \E g \in GraphIds : Restaged(g)
    \/ \E g \in GraphIds : Activatable(g) /\ Activate(g)
    \/ RollbackGraphGeneration
    \/ RecoverGraphState
    \/ CleanupGraphGenerations

LEMMA EveryRowStep == GraphTypeOK /\ PassInv /\ [GraphNext]_gvars => RowStep
  <1> SUFFICES ASSUME GraphTypeOK, PassInv, [GraphNext]_gvars PROVE RowStep
    OBVIOUS
  <1>0. tree \in GraphIds /\ DocGraph \in GraphIds
        /\ (fg.pc \in {"stage", "activate"} => fg.graph \in GraphIds)
    BY DEF GraphTypeOK, PassInv, GraphIds
  <1>1. CASE EditTree \/ BeginFullPass \/ BeginFullPassWithoutGraph \/ BeginDocsPass
             \/ ReplaceForeground \/ MarkForeground \/ Interrupt
    BY <1>1 DEF RowStep, EditTree, BeginFullPass, BeginFullPassWithoutGraph, BeginDocsPass,
                ReplaceForeground, MarkForeground, Interrupt
  <1>2. CASE FullJobWithoutGraph \/ CatalogJob \/ MarkGraphStale \/ RefreshCatalogPaths
             \/ UNCHANGED gvars
    BY <1>2 DEF RowStep, FullJobWithoutGraph, CatalogJob, MarkGraphStale, RefreshCatalogPaths,
                gvars, rows
  <1>3. CASE StageForeground
    BY <1>0, <1>3 DEF RowStep, StageForeground
  <1>4. CASE ActivateForeground
    BY Zenon, <1>0, <1>4 DEF RowStep, ActivateForeground, Swaps
  <1>5. CASE PublishCodeAndGraph \/ RepairGraph
    BY Zenon, <1>0, <1>5 DEF RowStep, PublishCodeAndGraph, RepairGraph, Publishable
  <1>6. CASE DocsJob
    BY <1>0, <1>6 DEF RowStep, DocsJob, Publishable
  <1>7. CASE RollbackGraphGeneration \/ RecoverGraphState \/ CleanupGraphGenerations
    BY <1>7 DEF RowStep
  <1> QED
    BY <1>1, <1>2, <1>3, <1>4, <1>5, <1>6, <1>7 DEF GraphNext

\* The typed rows.
RowsOK ==
    /\ gstatus \in [GraphIds -> {"none", "staged", "active", "retired", "invalid"}]
    /\ glink \in Links
    /\ activeGraph \in GraphIds \cup {NoGraph}
    /\ previousGraph \in GraphIds \cup {NoGraph}

LEMMA RowsTyped == GraphTypeOK => RowsOK
  BY DEF GraphTypeOK, RowsOK, Links

LEMMA RowTypeStep == RowsOK /\ RowStep => RowsOK'
  <1> SUFFICES ASSUME RowsOK, RowStep PROVE RowsOK'
    OBVIOUS
  <1> USE DEF RowsOK, Links
  <1>1. CASE UNCHANGED rows
    BY <1>1 DEF rows
  <1>2. ASSUME NEW g \in GraphIds, Restaged(g) PROVE RowsOK'
    BY <1>2 DEF Restaged
  <1>3. ASSUME NEW g \in GraphIds, Activate(g) PROVE RowsOK'
    <2>1. CASE UNCHANGED rows
      BY <1>1, <2>1
    <2>2. CASE gstatus' = Succeeded(g) /\ glink' = Relinked(g)
               /\ previousGraph' = activeGraph /\ activeGraph' = g
      <3>1. gstatus' \in [GraphIds -> {"none", "staged", "active", "retired", "invalid"}]
        BY <2>2 DEF Succeeded
      <3>2. glink' \in Links
        BY <2>2 DEF Relinked
      <3> QED
        BY <2>2, <3>1, <3>2
    <2> QED
      BY <1>3, <2>1, <2>2 DEF Activate
  <1>4. CASE RollbackGraphGeneration
    BY <1>4 DEF RollbackGraphGeneration
  <1>5. CASE RecoverGraphState
    BY <1>5 DEF RecoverGraphState
  <1>6. CASE CleanupGraphGenerations
    BY <1>6 DEF CleanupGraphGenerations
  <1> QED
    BY <1>1, <1>2, <1>3, <1>4, <1>5, <1>6 DEF RowStep

\* Every change of the rows leaves the pointer on the one active row.
LEMMA PointerStep == RowsOK /\ PointerIsTheActive /\ RowStep => PointerIsTheActive'
  <1> SUFFICES ASSUME RowsOK, PointerIsTheActive, RowStep PROVE PointerIsTheActive'
    OBVIOUS
  <1> USE DEF RowsOK, PointerIsTheActive
  <1>1. CASE UNCHANGED rows
    BY <1>1 DEF rows
  <1>2. ASSUME NEW g \in GraphIds, Restaged(g) PROVE PointerIsTheActive'
    <2>1. \A h \in GraphIds : gstatus[h] \in Readable \/ gstatus'[h] \in Readable
                              => gstatus'[h] = gstatus[h]
      BY <1>2 DEF Restaged, Readable
    <2>2. gstatus' \in [GraphIds -> {"none", "staged", "active", "retired", "invalid"}]
          /\ UNCHANGED <<activeGraph, previousGraph>>
      BY <1>2 DEF Restaged
    <2> QED
      BY <2>1, <2>2 DEF Readable
  <1>3. ASSUME NEW g \in GraphIds, Activate(g) PROVE PointerIsTheActive'
    <2>1. CASE UNCHANGED rows
      BY <1>1, <2>1
    <2>2. CASE g # activeGraph /\ gstatus' = Succeeded(g)
               /\ previousGraph' = activeGraph /\ activeGraph' = g
      <3>1. \A h \in GraphIds : gstatus'[h] = IF h = g THEN "active"
                                              ELSE IF h = activeGraph THEN "retired"
                                              ELSE gstatus[h]
        BY <2>2 DEF Succeeded
      <3>2. g # NoGraph
        BY GraphAssumption DEF GraphIds
      <3> QED
        BY <2>2, <3>1, <3>2
    <2> QED
      BY <1>3, <2>1, <2>2 DEF Activate
  <1>4. CASE RollbackGraphGeneration
    <2>1. activeGraph \in GraphIds /\ previousGraph \in GraphIds /\ previousGraph # activeGraph
      BY <1>4 DEF RollbackGraphGeneration
    <2>2. \A h \in GraphIds : gstatus'[h] = IF h = previousGraph THEN "active"
                                            ELSE IF h = activeGraph THEN "retired"
                                            ELSE gstatus[h]
      BY <1>4, <2>1 DEF RollbackGraphGeneration
    <2>3. activeGraph' = previousGraph /\ previousGraph' = activeGraph
          /\ activeGraph # NoGraph /\ previousGraph # NoGraph
      BY <1>4 DEF RollbackGraphGeneration
    <2> QED
      BY <2>1, <2>2, <2>3
  <1>5. CASE RecoverGraphState
    BY <1>5 DEF RecoverGraphState
  <1>6. CASE CleanupGraphGenerations
    <2>1. PICK D \in SUBSET {g \in GraphIds : gstatus[g] \in {"invalid", "retired"}
                                              /\ g \notin {activeGraph, previousGraph}} :
                  gstatus' = [g \in GraphIds |-> IF g \in D THEN "none" ELSE gstatus[g]]
      BY <1>6 DEF CleanupGraphGenerations
    <2>2. UNCHANGED <<activeGraph, previousGraph>>
      BY <1>6 DEF CleanupGraphGenerations
    <2> QED
      BY <2>1, <2>2
  <1> QED
    BY <1>1, <1>2, <1>3, <1>4, <1>5, <1>6 DEF RowStep

\* Sound, before and after a step, in terms of the links and statuses.
LEMMA SoundMeans ==
  ASSUME NEW g \in GraphIds
  PROVE  /\ Lineage(g) = LineageIn(glink, g)
         /\ Sound(g) <=> SoundIn(glink, gstatus, g)
         /\ Sound(g)' <=> SoundIn(glink', gstatus', g)
  BY DEF Sound, SoundIn, Lineage, LineageIn, Closed, ClosedIn

\* Every change of the rows keeps the history of readable rows sound.
LEMMA HistoryStep ==
  RowsOK /\ PointerIsTheActive /\ HistoryIsSound /\ RowStep => HistoryIsSound'
  <1> SUFFICES ASSUME RowsOK, PointerIsTheActive, HistoryIsSound, RowStep,
                      NEW h \in GraphIds, gstatus'[h] \in Readable
               PROVE  SoundIn(glink', gstatus', h)
    BY SoundMeans DEF HistoryIsSound
  <1>0. /\ glink \in Links /\ glink' \in Links
        /\ \A g \in GraphIds : gstatus[g] \in Readable => SoundIn(glink, gstatus, g)
    BY SoundMeans, RowTypeStep DEF HistoryIsSound, RowsOK
  <1>1. CASE UNCHANGED rows
    BY <1>0, <1>1 DEF rows
  <1>2. ASSUME NEW g \in GraphIds, Restaged(g) PROVE SoundIn(glink', gstatus', h)
    <2>1. glink' = glink
          /\ \A k \in GraphIds : gstatus'[k] \in Readable <=> gstatus[k] \in Readable
      BY <1>2 DEF Restaged, RowsOK, Readable
    <2>2. \A k \in LineageIn(glink, h) : k \in GraphIds
      BY <1>0, LineageLeast
    <2> QED
      BY <1>0, <2>1, <2>2, SoundKept
  <1>3. ASSUME NEW g \in GraphIds, Activatable(g), Activate(g)
        PROVE  SoundIn(glink', gstatus', h)
    <2>1. CASE g = activeGraph
      BY <1>1, <1>3, <2>1 DEF Activate
    <2>2. CASE g # activeGraph
      <3>1. /\ gstatus' = Succeeded(g) /\ glink' = Relinked(g)
            /\ gstatus[g] = "retired"
               \/ (gstatus[g] \in {"none", "staged"} /\ WalkOKAfter(g, activeGraph))
        BY <1>3, <2>2 DEF Activate, Activatable, rows
      <3>2. \A k \in GraphIds : gstatus'[k] = IF k = g THEN "active"
                                              ELSE IF k = activeGraph THEN "retired"
                                              ELSE gstatus[k]
        BY <2>2, <3>1 DEF Succeeded
      <3>3. \A k \in GraphIds : gstatus[k] \in Readable => gstatus'[k] \in Readable
        BY <3>2 DEF Readable
      <3>4. h # g => gstatus[h] \in Readable
        BY <3>2, GraphAssumption DEF PointerIsTheActive, Readable, GraphIds
      <3>5. \A k \in LineageIn(glink, h) : k \in GraphIds
        BY <1>0, LineageLeast
      <3>6. CASE gstatus[g] = "retired"
        <4>1. glink' = glink
          BY <3>1, <3>6 DEF Relinked
        <4>2. gstatus[h] \in Readable
          BY <3>4, <3>6 DEF Readable
        <4> QED
          BY Zenon, <1>0, <3>3, <3>5, <4>1, <4>2, SoundKept
      <3>7. CASE gstatus[g] \in {"none", "staged"} /\ WalkOKAfter(g, activeGraph)
        <4>1. glink' = [glink EXCEPT ![g] = activeGraph]
          BY <3>1, <3>7 DEF Relinked
        <4>2. CASE h # g
          <5>1. SoundIn(glink, gstatus, h)
            BY <1>0, <3>4, <4>2
          <5>2. g \notin LineageIn(glink, h)
            BY <3>7, <4>2, <5>1 DEF SoundIn, Readable
          <5>3. \A k \in LineageIn(glink, h) : glink'[k] = glink[k]
            BY <1>0, <3>5, <4>1, <5>2 DEF Links
          <5> QED
            BY Zenon, <1>0, <3>3, <3>5, <5>1, <5>3, SoundKept
        <4>3. CASE h = g /\ activeGraph = NoGraph
          <5>1. glink'[g] = NoGraph
            BY <1>0, <4>1, <4>3 DEF Links
          <5> QED
            BY <1>0, <4>3, <5>1, SoundRoot
        <4>4. CASE h = g /\ activeGraph # NoGraph
          <5>1. activeGraph \in GraphIds /\ gstatus[activeGraph] = "active"
            BY <4>4 DEF RowsOK, PointerIsTheActive
          <5>2. SoundIn(glink, gstatus, activeGraph)
            BY <1>0, <5>1 DEF Readable
          <5>3. g \notin LineageIn(glink, activeGraph)
            BY <3>7, <4>4, <5>1, SoundMeans DEF WalkOKAfter
          <5>4. \A k \in LineageIn(glink, activeGraph) : gstatus'[k] \in Readable
            <6>1. \A k \in LineageIn(glink, activeGraph) : k \in GraphIds
              BY <1>0, <5>1, LineageLeast
            <6>2. \A k \in LineageIn(glink, activeGraph) : gstatus[k] \in Readable
              BY <5>1, <5>2 DEF SoundIn, Readable
            <6> QED
              BY <3>3, <6>1, <6>2
          <5> QED
            BY Zenon, <1>0, <4>1, <4>4, <5>1, <5>2, <5>3, <5>4, SoundLinked
        <4> QED
          BY <4>2, <4>3, <4>4
      <3> QED
        BY <3>1, <3>6, <3>7
    <2> QED
      BY <2>1, <2>2
  <1>4. CASE RollbackGraphGeneration
    <2>1. /\ previousGraph \in GraphIds
          /\ gstatus[activeGraph] = "active" /\ gstatus[previousGraph] = "retired"
          /\ glink' = [glink EXCEPT ![previousGraph] = NoGraph]
      BY <1>4 DEF RollbackGraphGeneration, RowsOK
    <2>2. \A k \in GraphIds : gstatus'[k] \in Readable <=> gstatus[k] \in Readable
      BY <1>4, <2>1 DEF RollbackGraphGeneration, RowsOK, Readable
    <2> QED
      BY Zenon, <1>0, <2>1, <2>2, SoundCut
  <1>5. CASE RecoverGraphState
    <2>1. glink' = glink
          /\ \A k \in GraphIds : gstatus'[k] \in Readable <=> gstatus[k] \in Readable
      BY <1>5 DEF RecoverGraphState, RowsOK, Readable
    <2>2. \A k \in LineageIn(glink, h) : k \in GraphIds
      BY Zenon, <1>0, LineageLeast
    <2> QED
      BY Zenon, <1>0, <2>1, <2>2, SoundKept
  <1>6. CASE CleanupGraphGenerations
    <2>1. PICK D \in SUBSET GraphIds :
            /\ \A g \in D : Referrers(g) \subseteq D
            /\ gstatus' = [g \in GraphIds |-> IF g \in D THEN "none" ELSE gstatus[g]]
            /\ glink' = [g \in GraphIds |-> IF g \in D THEN NoGraph ELSE glink[g]]
      BY <1>6 DEF CleanupGraphGenerations, Removable
    <2>2. h \notin D /\ gstatus[h] \in Readable
      BY <2>1 DEF Readable
    <2>3. ClosedIn(glink, GraphIds \ D)
      BY <1>0, <2>1 DEF ClosedIn, Referrers, Links
    <2>4. LineageIn(glink, h) \subseteq GraphIds \ D
      BY <1>0, <2>2, <2>3, LineageLeast
    <2>5. \A k \in LineageIn(glink, h) : glink'[k] = glink[k] /\ gstatus'[k] = gstatus[k]
      BY <2>1, <2>4
    <2> QED
      BY Zenon, <1>0, <2>2, <2>5, SoundKept
  <1> QED
    BY <1>1, <1>2, <1>3, <1>4, <1>5, <1>6 DEF RowStep

LEMMA FiniteStep == RowsOK /\ PointerIsTheActive /\ RowsFinite /\ RowStep => RowsFinite'
  <1> SUFFICES ASSUME RowsOK, PointerIsTheActive, RowsFinite, RowStep PROVE RowsFinite'
    OBVIOUS
  <1> DEFINE R == {g \in GraphIds : gstatus[g] # "none"}
             RP == {g \in GraphIds : gstatus'[g] # "none"}
  <1>1. ASSUME NEW g \in GraphIds, RP \subseteq R \cup {g} PROVE RowsFinite'
    <2>1. IsFiniteSet(R \cup {g})
      BY FS_AddElement DEF RowsFinite
    <2> QED
      BY <1>1, <2>1, FS_Subset DEF RowsFinite
  <1>2. ASSUME RP \subseteq R PROVE RowsFinite'
    BY <1>2, FS_Subset DEF RowsFinite
  <1>3. CASE UNCHANGED rows
    BY <1>2, <1>3 DEF rows
  <1>4. ASSUME NEW g \in GraphIds, Restaged(g) PROVE RowsFinite'
    BY <1>1, <1>4 DEF Restaged, RowsOK
  <1>5. ASSUME NEW g \in GraphIds, Activate(g) PROVE RowsFinite'
    <2>1. CASE UNCHANGED rows
      BY <1>3, <2>1
    <2>2. CASE gstatus' = Succeeded(g)
      <3>1. \A k \in GraphIds : gstatus'[k] \in {"active", "retired", gstatus[k]}
                                /\ (k \notin {g, activeGraph} => gstatus'[k] = gstatus[k])
        BY <2>2 DEF Succeeded
      <3>2. activeGraph \in GraphIds => gstatus[activeGraph] = "active"
        BY GraphAssumption DEF PointerIsTheActive, GraphIds
      <3>3. RP \subseteq R \cup {g}
        BY <3>1, <3>2
      <3> QED
        BY <1>1, <3>3
    <2> QED
      BY <1>5, <2>1, <2>2 DEF Activate
  <1>6. CASE RollbackGraphGeneration
    BY <1>2, <1>6 DEF RollbackGraphGeneration, RowsOK
  <1>7. CASE RecoverGraphState
    BY <1>2, <1>7 DEF RecoverGraphState
  <1>8. CASE CleanupGraphGenerations
    BY <1>2, <1>8 DEF CleanupGraphGenerations
  <1> QED
    BY <1>3, <1>4, <1>5, <1>6, <1>7, <1>8 DEF RowStep

-----------------------------------------------------------------------------
LEMMA GraphTypeStep == GraphTypeOK /\ PassInv /\ [GraphNext]_gvars => GraphTypeOK'
  <1> SUFFICES ASSUME GraphTypeOK, PassInv, [GraphNext]_gvars PROVE GraphTypeOK'
    OBVIOUS
  <1> DEFINE Passes == [pc : {"idle", "stage", "activate", "replace", "mark"},
                        kind : {"full", "docs"}, graph : GraphIds \cup {NoGraph},
                        code : Codes \cup {NoGraph}, prior : GraphIds \cup {NoGraph}]
             Cats == [gen : 0..MaxCatalog, of : Codes \cup {NoGraph}]
             States == [state : {"fresh", "stale"}, bound : 0..Skipped]
             Lags == {"none", "outrun", "rolled back"}
  <1>1. RowsOK'
    BY RowsTyped, EveryRowStep, RowTypeStep
  <1>2. tree \in Codes /\ fg \in Passes /\ cat \in Cats /\ gruntime \in States
        /\ lag \in Lags /\ overlap \in BOOLEAN /\ activeGraph \in GraphIds \cup {NoGraph}
    BY DEF GraphTypeOK
  <1>3. Codes \subseteq GraphIds /\ DocGraph \in GraphIds
    BY DEF GraphIds
  <1>4. NoPass \in Passes
    BY DEF NoPass
  <1>5. /\ Stale \in States
        /\ \A b \in 0..Skipped : Fresh(b) \in States
        /\ 0 \in 0..Skipped /\ cat.gen \in 0..Skipped /\ BoundToActive \in 0..Skipped
        /\ cat.gen < MaxCatalog => cat.gen + 1 \in 0..Skipped
    <2>1. cat.gen \in 0..MaxCatalog
      BY <1>2
    <2>2. 0 \in 0..Skipped /\ cat.gen \in 0..Skipped /\ Skipped \in 0..Skipped
          /\ (cat.gen < MaxCatalog => cat.gen + 1 \in 0..Skipped)
      BY <2>1, GraphAssumption DEF Skipped
    <2>3. \A b \in 0..Skipped : Fresh(b) \in States
      BY DEF Fresh
    <2> QED
      BY <2>2, <2>3 DEF Stale, BoundToActive
  <1>6. \A c \in Codes : cat.gen < MaxCatalog => NextGeneration(c) \in Cats
    <2>1. cat.gen \in 0..MaxCatalog
      BY <1>2
    <2>2. cat.gen < MaxCatalog => cat.gen + 1 \in 0..MaxCatalog
      BY <2>1, GraphAssumption
    <2> QED
      BY <2>2 DEF NextGeneration
  <1>7. \A c \in Codes \cup {NoGraph} : LagBehind(c) \in Lags
    BY <1>2 DEF LagBehind
  <1>8. tree' \in Codes
    BY <1>2 DEF GraphNext, EditTree, BeginFullPass, BeginFullPassWithoutGraph, BeginDocsPass,
         StageForeground, ActivateForeground, ReplaceForeground, MarkForeground, Interrupt,
         PublishCodeAndGraph, FullJobWithoutGraph, CatalogJob, DocsJob, RepairGraph,
         MarkGraphStale, RefreshCatalogPaths, RollbackGraphGeneration, RecoverGraphState,
         CleanupGraphGenerations, gvars
  <1>9. fg' \in Passes
    <2>1. CASE BeginFullPass \/ BeginDocsPass
      <3>1. ASSUME NEW k \in {"full", "docs"}, NEW g \in GraphIds, Publish(k, g)
            PROVE  fg' \in Passes
        <4>1. (IF g = activeGraph THEN "activate" ELSE "stage") \in {"activate", "stage"}
          OBVIOUS
        <4> QED
          BY <1>2, <3>1, <4>1 DEF Publish
      <3> QED
        BY <1>2, <1>3, <2>1, <3>1 DEF BeginFullPass, BeginDocsPass
    <2>2. CASE BeginFullPassWithoutGraph
      BY <1>2, <1>4, <2>2 DEF BeginFullPassWithoutGraph
    <2>3. CASE StageForeground \/ ActivateForeground
      BY <1>2, <1>4, <2>3 DEF StageForeground, ActivateForeground
    <2>4. CASE ReplaceForeground \/ MarkForeground \/ Interrupt
      BY <1>2, <1>4, <2>4 DEF ReplaceForeground, MarkForeground, Interrupt
    <2>5. CASE UNCHANGED fg
      BY <1>2, <2>5
    <2> QED
      BY Zenon, <2>1, <2>2, <2>3, <2>4, <2>5
      DEF GraphNext, EditTree, PublishCodeAndGraph, FullJobWithoutGraph, CatalogJob, DocsJob,
          RepairGraph, MarkGraphStale, RefreshCatalogPaths, RollbackGraphGeneration,
          RecoverGraphState, CleanupGraphGenerations, gvars
  <1>10. cat' \in Cats
    <2>1. CASE ReplaceForeground
      BY <1>2, <2>1 DEF ReplaceForeground
    <2>2. CASE PublishCodeAndGraph \/ FullJobWithoutGraph \/ CatalogJob \/ RefreshCatalogPaths
      BY <1>2, <1>6, <2>2
      DEF PublishCodeAndGraph, FullJobWithoutGraph, CatalogJob, RefreshCatalogPaths
    <2>3. CASE UNCHANGED cat
      BY <1>2, <2>3
    <2> QED
      BY <2>1, <2>2, <2>3
      DEF GraphNext, EditTree, BeginFullPass, BeginFullPassWithoutGraph, BeginDocsPass,
          StageForeground, ActivateForeground, MarkForeground, Interrupt, DocsJob, RepairGraph,
          MarkGraphStale, RollbackGraphGeneration, RecoverGraphState, CleanupGraphGenerations,
          gvars
  <1>11. gruntime' \in States
    <2>1. CASE MarkForeground
      BY <1>5, <2>1 DEF MarkForeground
    <2>2. CASE PublishCodeAndGraph \/ FullJobWithoutGraph \/ RefreshCatalogPaths
               \/ DocsJob \/ RepairGraph \/ MarkGraphStale
      BY Zenon, <1>5, <2>2 DEF PublishCodeAndGraph, FullJobWithoutGraph, RefreshCatalogPaths, DocsJob,
                        RepairGraph, MarkGraphStale
    <2>3. CASE UNCHANGED gruntime
      BY <1>2, <2>3
    <2> QED
      BY <2>1, <2>2, <2>3
      DEF GraphNext, EditTree, BeginFullPass, BeginFullPassWithoutGraph, BeginDocsPass,
          StageForeground, ActivateForeground, ReplaceForeground, Interrupt, CatalogJob,
          RollbackGraphGeneration, RecoverGraphState, CleanupGraphGenerations, gvars
  <1>12. lag' \in Lags
    <2>1. CASE ReplaceForeground
      BY <1>2, <1>7, <2>1 DEF ReplaceForeground
    <2>2. CASE CatalogJob \/ RefreshCatalogPaths
      BY <1>2, <1>7, <2>2 DEF CatalogJob, RefreshCatalogPaths
    <2>3. CASE lag' \in {lag, "none", "rolled back"}
      BY <1>2, <2>3
    <2> QED
      BY <2>1, <2>2, <2>3
      DEF GraphNext, EditTree, BeginFullPass, BeginFullPassWithoutGraph, BeginDocsPass,
          StageForeground, ActivateForeground, MarkForeground, Interrupt, PublishCodeAndGraph,
          FullJobWithoutGraph, DocsJob, RepairGraph, MarkGraphStale, RollbackGraphGeneration,
          RecoverGraphState, CleanupGraphGenerations, InStep, gvars
  <1>13. overlap' \in BOOLEAN
    BY <1>2
    DEF GraphNext, EditTree, BeginFullPass, BeginFullPassWithoutGraph, BeginDocsPass,
        StageForeground, ActivateForeground, ReplaceForeground, MarkForeground, Interrupt,
        PublishCodeAndGraph, FullJobWithoutGraph, CatalogJob, DocsJob, RepairGraph,
        MarkGraphStale, RefreshCatalogPaths, RollbackGraphGeneration, RecoverGraphState,
        CleanupGraphGenerations, InStep, Idle, gvars
  <1> QED
    BY <1>1, <1>8, <1>9, <1>10, <1>11, <1>12, <1>13 DEF RowsOK, Links, GraphTypeOK

\* The foreground pass knows what it activated, unless it was overtaken.
LEMMA PassStep ==
  GraphTypeOK /\ PassInv /\ BindingInv /\ [GraphNext]_gvars => PassInv'
  <1> SUFFICES ASSUME GraphTypeOK, PassInv, BindingInv, [GraphNext]_gvars PROVE PassInv'
    OBVIOUS
  <1>0. /\ DocGraph # NoGraph /\ tree # NoGraph
        /\ fg \in [pc : {"idle", "stage", "activate", "replace", "mark"},
                   kind : {"full", "docs"}, graph : GraphIds \cup {NoGraph},
                   code : Codes \cup {NoGraph}, prior : GraphIds \cup {NoGraph}]
        /\ overlap \in BOOLEAN
    BY GraphAssumption DEF GraphTypeOK
  <1>1. CASE fg' = NoPass
    BY <1>1 DEF NoPass, PassInv
  <1>2. CASE UNCHANGED <<fg, activeGraph, lag, overlap>>
    BY <1>2 DEF PassInv
  <1>3. CASE Idle /\ UNCHANGED fg
    BY <1>3 DEF PassInv, Idle
  <1>4. CASE UNCHANGED fg /\ overlap'
    BY <1>4 DEF PassInv
  <1>5. CASE BeginFullPass
    BY <1>0, <1>5 DEF BeginFullPass, Publish, PassInv
  <1>6. CASE BeginDocsPass
    BY <1>0, <1>6 DEF BeginDocsPass, Publish, PassInv
  <1>7. CASE BeginFullPassWithoutGraph
    <2>1. fg'.pc = "replace" /\ fg'.graph = NoGraph
      BY <1>7 DEF BeginFullPassWithoutGraph, NoPass
    <2>2. activeGraph' = NoGraph /\ lag' = "none"
      BY <1>7 DEF BeginFullPassWithoutGraph, WithoutGraph, BindingInv, rows
    <2> QED
      BY <2>1, <2>2 DEF PassInv
  <1>8. CASE StageForeground
    <2>1. CASE fg' = [fg EXCEPT !.pc = "activate"]
      BY <1>0, <1>8, <2>1 DEF StageForeground, PassInv
    <2> QED
      BY <1>1, <1>8, <2>1 DEF StageForeground
  <1>9. CASE ActivateForeground
    <2>1. CASE Swaps
      <3>1. fg' = [fg EXCEPT !.pc = "replace"] /\ activeGraph' = fg.graph /\ lag' = "none"
        BY <1>9, <2>1 DEF ActivateForeground, Activate, InStep, rows
      <3> QED
        BY <1>0, <3>1 DEF PassInv
    <2> QED
      BY Zenon, <1>1, <1>9, <2>1 DEF ActivateForeground
  <1>10. CASE ReplaceForeground
    <2>1. fg.pc = "replace" /\ fg' = [fg EXCEPT !.pc = "mark"]
          /\ UNCHANGED <<activeGraph, overlap>>
      BY <1>10 DEF ReplaceForeground, rows
    <2>2. ASSUME ~overlap PROVE lag' = "none"
      <3>1. activeGraph = fg.graph /\ lag = "none"
        BY <2>1, <2>2 DEF PassInv
      <3>2. CASE fg.kind = "full" /\ lag' = LagBehind(fg.code)
        <4>1. CASE fg.graph = NoGraph
          BY <3>1, <3>2, <4>1, GraphAssumption DEF LagBehind
        <4>2. CASE fg.graph # NoGraph
          BY <3>1, <3>2, <4>2 DEF LagBehind, PassInv
        <4> QED
          BY <4>1, <4>2
      <3> QED
        BY <1>10, <3>1, <3>2 DEF ReplaceForeground
    <2> QED
      BY <1>0, <2>1, <2>2 DEF PassInv
  <1>11. CASE MarkForeground \/ Interrupt
    BY <1>1, <1>11 DEF MarkForeground, Interrupt
  <1>12. CASE PublishCodeAndGraph
    BY Zenon, <1>3, <1>4, <1>12 DEF PublishCodeAndGraph, InStep
  <1>13. CASE RefreshCatalogPaths
    BY Zenon, <1>3, <1>4, <1>13 DEF RefreshCatalogPaths
  <1>14. CASE EditTree \/ MarkGraphStale \/ UNCHANGED gvars
    BY Zenon, <1>2, <1>14 DEF EditTree, MarkGraphStale, gvars, rows
  <1>15. CASE FullJobWithoutGraph \/ CatalogJob \/ DocsJob \/ RepairGraph
              \/ RollbackGraphGeneration \/ RecoverGraphState \/ CleanupGraphGenerations
    BY <1>3, <1>15 DEF FullJobWithoutGraph, CatalogJob, DocsJob, RepairGraph,
                       RollbackGraphGeneration, RecoverGraphState, CleanupGraphGenerations
  <1> QED
    BY Zenon, <1>5, <1>6, <1>7, <1>8, <1>9, <1>10, <1>11, <1>12, <1>13, <1>14, <1>15 DEF GraphNext

\* Once there is an active generation there always is one.
LEMMA GraphStays == [GraphNext]_gvars /\ GraphTypeOK /\ PassInv =>
                      (activeGraph' = NoGraph => activeGraph = NoGraph)
  <1> SUFFICES ASSUME [GraphNext]_gvars, GraphTypeOK, PassInv, activeGraph' = NoGraph
               PROVE  activeGraph = NoGraph
    OBVIOUS
  <1>1. NoGraph \notin GraphIds
    BY GraphAssumption DEF GraphIds
  <1> QED
    BY <1>1, EveryRowStep
    DEF RowStep, rows, Restaged, Activate, RollbackGraphGeneration, RecoverGraphState,
        CleanupGraphGenerations

\* A graph falls behind only while a generation is active, and the runtime
\* state is bound to no later catalog generation.
LEMMA BindingStep ==
  GraphTypeOK /\ PassInv /\ BindingInv /\ [GraphNext]_gvars => BindingInv'
  <1> SUFFICES ASSUME GraphTypeOK, PassInv, BindingInv, [GraphNext]_gvars PROVE BindingInv'
    OBVIOUS
  <1>1. cat.gen \in 0..MaxCatalog /\ gruntime.bound \in 0..Skipped
        /\ MaxCatalog \in Nat /\ Skipped = MaxCatalog + 1
    BY GraphAssumption DEF GraphTypeOK, Skipped
  <1>2. ASSUME activeGraph' = NoGraph PROVE lag' = "none"
    <2>1. activeGraph = NoGraph /\ lag = "none"
      BY <1>2, GraphStays DEF BindingInv
    <2>2. \A c : LagBehind(c) = "none"
      BY <2>1, GraphAssumption DEF LagBehind
    <2>3. ~RollbackGraphGeneration
      BY <2>1 DEF RollbackGraphGeneration
    <2> QED
      BY Zenon, <2>1, <2>2, <2>3
      DEF GraphNext, EditTree, BeginFullPass, BeginFullPassWithoutGraph, BeginDocsPass,
          StageForeground, ActivateForeground, ReplaceForeground, MarkForeground, Interrupt,
          PublishCodeAndGraph, FullJobWithoutGraph, CatalogJob, DocsJob, RepairGraph,
          MarkGraphStale, RefreshCatalogPaths, RecoverGraphState, CleanupGraphGenerations,
          InStep, gvars
  <1> DEFINE Bounded(b, n) == b <= n \/ b = Skipped
  <1>3. /\ \A b : Fresh(b).bound = b
        /\ Stale.bound = 0
        /\ \A c : NextGeneration(c).gen = cat.gen + 1
        /\ BoundToActive \in {cat.gen, Skipped}
    BY Zenon DEF Fresh, Stale, NextGeneration, BoundToActive
  <1>4. Bounded(gruntime'.bound, cat'.gen)
    <2>1. CASE ReplaceForeground
      <3>1. cat'.gen = cat.gen /\ gruntime' = gruntime
        BY <2>1 DEF ReplaceForeground, GraphTypeOK
      <3> QED
        BY <3>1 DEF BindingInv
    <2>2. CASE MarkForeground
      <3>1. gruntime'.bound \in {0, cat.gen} /\ cat' = cat
        BY <1>3, <2>2 DEF MarkForeground
      <3> QED
        BY <1>1, <3>1
    <2>3. CASE PublishCodeAndGraph
      <3>1. gruntime'.bound = cat.gen + 1 /\ cat'.gen = cat.gen + 1
        BY <1>3, <2>3 DEF PublishCodeAndGraph
      <3> QED
        BY <1>1, <3>1
    <2>4. CASE FullJobWithoutGraph \/ RefreshCatalogPaths
      <3>1. gruntime'.bound = 0 /\ cat'.gen = cat.gen + 1
        BY <1>3, <2>4 DEF FullJobWithoutGraph, RefreshCatalogPaths
      <3> QED
        BY <1>1, <3>1
    <2>5. CASE CatalogJob
      <3>1. gruntime' = gruntime /\ cat'.gen = cat.gen + 1
        BY <1>3, <2>5 DEF CatalogJob
      <3> QED
        BY <1>1, <3>1 DEF BindingInv
    <2>6. CASE DocsJob \/ RepairGraph \/ MarkGraphStale
      <3>1. gruntime'.bound \in {0, cat.gen, Skipped} /\ cat' = cat
        BY Zenon, <1>3, <2>6 DEF DocsJob, RepairGraph, MarkGraphStale
      <3> QED
        BY <1>1, <3>1
    <2>7. CASE UNCHANGED <<cat, gruntime>>
      BY <2>7 DEF BindingInv
    <2> QED
      BY <2>1, <2>2, <2>3, <2>4, <2>5, <2>6, <2>7
      DEF GraphNext, EditTree, BeginFullPass, BeginFullPassWithoutGraph, BeginDocsPass,
          StageForeground, ActivateForeground, Interrupt, RollbackGraphGeneration,
          RecoverGraphState, CleanupGraphGenerations, gvars
  <1> QED
    BY <1>2, <1>4 DEF BindingInv, Skipped

\* A graph that falls behind is unbound, overtaken or no longer served.
LEMMA OutrunStep ==
  GraphTypeOK /\ PassInv /\ BindingInv /\ OutrunOnlyUnbound /\ [GraphNext]_gvars
    => OutrunOnlyUnbound'
  <1> SUFFICES ASSUME GraphTypeOK, PassInv, BindingInv, OutrunOnlyUnbound, [GraphNext]_gvars,
                      Served', lag' = "outrun", ~overlap'
               PROVE  gruntime'.bound = 0
    BY DEF OutrunOnlyUnbound
  <1>1. cat.gen \in 0..MaxCatalog /\ gruntime.bound \in 0..Skipped
        /\ MaxCatalog \in Nat /\ Skipped = MaxCatalog + 1 /\ overlap \in BOOLEAN
    BY GraphAssumption DEF GraphTypeOK, Skipped
  <1>2. CASE UNCHANGED <<cat, gruntime, lag, overlap, activeGraph>>
    BY <1>2 DEF OutrunOnlyUnbound, Served
  <1>3. CASE ReplaceForeground
    <2>1. PassInv'
      BY PassStep
    <2>2. fg'.pc = "mark"
      BY <1>3 DEF ReplaceForeground, GraphTypeOK
    <2> QED
      BY <2>1, <2>2 DEF PassInv
  <1>4. CASE MarkForeground
    <2>1. fg.pc = "mark" /\ UNCHANGED <<lag, overlap>>
      BY <1>4 DEF MarkForeground
    <2> QED
      BY <2>1 DEF PassInv
  <1>5. CASE FullJobWithoutGraph \/ RefreshCatalogPaths \/ MarkGraphStale
    BY <1>5 DEF FullJobWithoutGraph, RefreshCatalogPaths, MarkGraphStale, Stale, Served
  <1>6. CASE CatalogJob
    <2>1. cat'.gen = cat.gen + 1 /\ cat.gen < MaxCatalog /\ gruntime' = gruntime
      BY <1>6 DEF CatalogJob, NextGeneration
    <2>2. gruntime.bound # cat'.gen /\ cat'.gen # 0
      BY <1>1, <2>1 DEF BindingInv
    <2> QED
      BY <2>1, <2>2 DEF Served
  <1>7. CASE ActivateForeground
    <2>1. CASE Swaps
      BY <1>7, <2>1 DEF ActivateForeground, InStep
    <2>2. CASE ~Swaps
      BY Zenon, <1>2, <1>7, <2>2 DEF ActivateForeground, rows
    <2> QED
      BY <2>1, <2>2
  <1>8. CASE PublishCodeAndGraph \/ DocsJob \/ RepairGraph \/ RollbackGraphGeneration
    BY Zenon, <1>8 DEF PublishCodeAndGraph, DocsJob, RepairGraph, RollbackGraphGeneration, InStep
  <1>9. CASE EditTree \/ BeginFullPass \/ BeginFullPassWithoutGraph \/ BeginDocsPass
             \/ Interrupt \/ RecoverGraphState \/ CleanupGraphGenerations \/ UNCHANGED gvars
    BY <1>2, <1>9
    DEF EditTree, BeginFullPass, BeginFullPassWithoutGraph, BeginDocsPass, Interrupt,
        RecoverGraphState, CleanupGraphGenerations, gvars, rows
  <1>10. CASE StageForeground
    BY <1>2, <1>10 DEF StageForeground, Restaged, rows
  <1> QED
    BY Zenon, <1>3, <1>4, <1>5, <1>6, <1>7, <1>8, <1>9, <1>10 DEF GraphNext

-----------------------------------------------------------------------------
LEMMA GraphInvInit == GraphInit => GraphInv
  <1> SUFFICES ASSUME GraphInit PROVE GraphInv
    OBVIOUS
  <1>1. 0 \in 0..MaxCatalog /\ 0 \in 0..Skipped /\ 0 <= 0
    BY GraphAssumption DEF Skipped
  <1>2. GraphTypeOK
    BY Zenon, <1>1 DEF GraphInit, GraphTypeOK, NoPass
  <1>3. PassInv /\ BindingInv /\ OutrunOnlyUnbound
    BY <1>1 DEF GraphInit, PassInv, BindingInv, OutrunOnlyUnbound, NoPass
  <1>4. \A g \in GraphIds : gstatus[g] = "none"
    BY DEF GraphInit
  <1>5. RowsFinite
    <2>1. {g \in GraphIds : gstatus[g] # "none"} = {}
      BY <1>4
    <2> QED
      BY <2>1, FS_EmptySet DEF RowsFinite
  <1>6. PointerIsTheActive /\ HistoryIsSound
    BY <1>4 DEF GraphInit, PointerIsTheActive, HistoryIsSound, Readable
  <1> QED
    BY <1>2, <1>3, <1>5, <1>6 DEF GraphInv

(* The inductive invariant of the graph generations: it holds whatever     *)
(* publications, repairs, rollbacks, recoveries and clean-ups meet a       *)
(* foreground pass that may be interrupted after any of its commits.       *)
THEOREM GraphInvariance == GraphSpec => []GraphInv
  <1>1. GraphInit => GraphInv
    BY GraphInvInit
  <1>2. GraphInv /\ [GraphNext]_gvars => GraphInv'
    <2> SUFFICES ASSUME GraphInv, [GraphNext]_gvars PROVE GraphInv'
      OBVIOUS
    <2>1. GraphTypeOK' /\ PassInv' /\ BindingInv' /\ OutrunOnlyUnbound'
      BY GraphTypeStep, PassStep, BindingStep, OutrunStep DEF GraphInv
    <2>2. PointerIsTheActive' /\ HistoryIsSound' /\ RowsFinite'
      BY EveryRowStep, RowsTyped, PointerStep, HistoryStep, FiniteStep DEF GraphInv
    <2> QED
      BY <2>1, <2>2 DEF GraphInv
  <1> QED
    BY <1>1, <1>2, PTL DEF GraphSpec

(* Rows, pointers, catalog and runtime state keep their types.             *)
THEOREM GraphTypeCorrect == GraphSpec => []GraphTypeOK
  BY GraphInvariance, PTL DEF GraphInv

(* Compare-and-swap activation, rollback and clean-up keep exactly the row *)
(* of the active pointer active, and the previous pointer on a retired     *)
(* row.                                                                    *)
THEOREM PointerSound == GraphSpec => []PointerIsTheActive
  BY GraphInvariance, PTL DEF GraphInv

(* A graph the catalog has outrun is served as current only when unbound   *)
(* or when the foreground pass was overtaken.                              *)
THEOREM OutrunBounded == GraphSpec => []OutrunOnlyUnbound
  BY GraphInvariance, PTL DEF GraphInv

LEMMA InvRefuses == GraphInv => RefusedOnlyByLeftovers
  <1> SUFFICES ASSUME GraphInv PROVE RefusedOnlyByLeftovers
    OBVIOUS
  <1>1. GraphTypeOK /\ PointerIsTheActive /\ HistoryIsSound /\ RowsFinite /\ RowsOK
    BY RowsTyped DEF GraphInv
  <1>2. ASSUME NEW g \in GraphIds, gstatus[g] \in Readable
        PROVE  /\ Sound(g)
               /\ \A h \in Lineage(g) : gstatus[h] \in Readable
               /\ Cardinality(Lineage(g)) \in Nat
    <2>1. Sound(g)
      BY <1>1, <1>2 DEF HistoryIsSound
    <2>2. \A h \in Lineage(g) : h \in GraphIds /\ gstatus[h] \in Readable
      BY <1>2, <2>1 DEF Sound, Lineage
    <2>3. Lineage(g) \subseteq {h \in GraphIds : gstatus[h] # "none"}
      BY <2>2 DEF Readable
    <2>4. IsFiniteSet(Lineage(g))
      BY Zenon, <1>1, <2>3, FS_Subset DEF RowsFinite
    <2> QED
      BY <2>1, <2>2, <2>4, FS_CardinalityType
  <1>3. tree \in GraphIds /\ MaxAncestry \in Nat
    BY <1>1, GraphAssumption DEF GraphTypeOK, GraphIds
  <1>4. activeGraph # NoGraph => activeGraph \in GraphIds /\ gstatus[activeGraph] = "active"
    BY <1>1 DEF RowsOK, PointerIsTheActive
  <1>5. gstatus[tree] = "active" => tree = activeGraph
    BY <1>1, <1>3 DEF PointerIsTheActive
  <1>6. SUFFICES ASSUME gstatus[tree] \notin {"staged", "invalid"},
                        activeGraph # NoGraph => ~(Cardinality(Lineage(activeGraph)) >= MaxAncestry),
                        ~(Cardinality(Lineage(tree)) > MaxAncestry)
                 PROVE  Publishable(tree)
    BY <1>1 DEF RefusedOnlyByLeftovers
  <1>7. gstatus[tree] \in {"none", "active", "retired"}
    BY <1>1, <1>3, <1>6 DEF RowsOK
  <1>8. activeGraph # NoGraph =>
          /\ gstatus[activeGraph] = "active" /\ WalkOK(activeGraph)
          /\ Cardinality(Lineage(activeGraph)) < MaxAncestry
    <2> SUFFICES ASSUME activeGraph # NoGraph
                 PROVE  /\ gstatus[activeGraph] = "active" /\ WalkOK(activeGraph)
                        /\ Cardinality(Lineage(activeGraph)) < MaxAncestry
      OBVIOUS
    <2>1. Sound(activeGraph) /\ Cardinality(Lineage(activeGraph)) \in Nat
      BY <1>2, <1>4 DEF Readable
    <2>2. Cardinality(Lineage(activeGraph)) < MaxAncestry
      BY <1>3, <1>6, <2>1
    <2> QED
      BY <1>3, <1>4, <2>1, <2>2 DEF WalkOK
  <1>9. Activatable(tree)
    <2>1. CASE gstatus[tree] = "active"
      BY <1>5, <1>8, <2>1 DEF Activatable
    <2>2. CASE gstatus[tree] = "retired"
      <3>1. Sound(tree) /\ Cardinality(Lineage(tree)) \in Nat
        BY <1>2, <1>3, <2>2 DEF Readable
      <3>2. WalkOK(tree)
        BY <1>3, <1>6, <3>1 DEF WalkOK
      <3> QED
        BY <1>8, <2>2, <3>2 DEF Activatable
    <2>3. CASE gstatus[tree] = "none"
      <3>1. activeGraph # NoGraph => tree \notin Lineage(activeGraph)
        BY <1>2, <1>4, <2>3 DEF Readable
      <3>2. WalkOKAfter(tree, activeGraph)
        BY <1>8, <3>1 DEF WalkOKAfter
      <3> QED
        BY <1>8, <2>3, <3>2 DEF Activatable
    <2> QED
      BY Zenon, <1>7, <2>1, <2>2, <2>3
  <1> QED
    BY <1>7, <1>9 DEF Publishable, Stageable, Readable

(* The history of readable rows never has a cycle, a gap or a row that was *)
(* staged or invalidated, so that publication is refused only for a        *)
(* leftover row or a full predecessor chain.                               *)
THEOREM PublicationPossible == GraphSpec => []RefusedOnlyByLeftovers
  BY GraphInvariance, InvRefuses, PTL
=============================================================================
