--------------------------- MODULE ServingProofs ----------------------------
(***************************************************************************)
(* The query caches, for any requests, arguments, cache size and number of *)
(* publications.                                                           *)
(***************************************************************************)
EXTENDS QueryCaches, TLAPS

(* QueryCaches: cached documents are never old and cached results stale    *)
(* only by an overlap.  CachesInv bounds what a request and a cache entry  *)
(* can know by the published generations, and says that a request that     *)
(* nothing overtook knows just what is published.                          *)

Steps == {"idle", "get", "gen", "docs", "putDocs", "scores", "putScores", "code",
          "identity", "set"}
\* Where the generation read at the beginning is what the caches are asked for.
Keyed == {"docs", "putDocs", "scores", "putScores"}

Pointers == [docs : Nat, code : Nat]
Read == Nat \cup {Unread}
RequestType ==
    [at : Steps, arg : Args \cup {Request0.arg}, gen : Nat,
     seen : [docs : Read, scores : Read, code : Read], id : Pointers, clean : BOOLEAN]

\* What a request has read is no older than its generation and no newer than
\* what is published, and is what is published when nothing overtook it.
RequestOK(r, ix) ==
    /\ r \in RequestType
    /\ r.gen <= ix.docs
    /\ \A field \in {"docs", "scores"} :
         r.seen[field] # Unread => r.gen <= r.seen[field] /\ r.seen[field] <= ix.docs
    /\ r.at \in {"idle", "get", "gen"} => r.seen = Request0.seen
    /\ r.at \in Keyed \cup {"gen"} => r.arg \in Slots
    /\ r.at \notin {"idle"} => r.arg \in Args
    /\ r.at = "putDocs" => r.seen.docs # Unread
    /\ r.at = "putScores" => r.seen.scores # Unread
    /\ r.at \in {"identity", "set"} => r.seen.code # Unread
    /\ r.clean =>
         /\ r.at \in Keyed => r.gen = ix.docs
         /\ r.seen.docs \in {Unread, ix.docs} /\ r.seen.scores \in {Unread, ix.docs}
         /\ r.seen.code \in {Unread, ix.code}
         /\ r.at = "set" => r.id = ix

\* A cache entry is no older than the generation it is kept for.
EntryOK(e, ix) ==
    /\ e \in [gen : Int, val : Int]
    /\ e # NoEntry => e.val \in Nat /\ e.gen <= e.val /\ e.val <= ix.docs

CachesInv ==
    /\ index \in Pointers
    /\ req \in [Requests -> RequestType] /\ \A q \in Requests : RequestOK(req[q], index)
    /\ docs \in [Slots -> [gen : Int, val : Int]] /\ \A s \in Slots : EntryOK(docs[s], index)
    /\ StaleOnlyByOverlap

\* A request that has not begun knows nothing.
LEMMA IdleOK ==
  ASSUME NEW ix \in Pointers
  PROVE  RequestOK(Request0, ix)
  BY DEF RequestOK, RequestType, Request0, Pointers, Steps, Keyed, Read, Unread

\* One request goes on.
LEMMA RequestGoesOn ==
  ASSUME CachesInv, NEW q \in Requests, NEW r, RequestOK(r, index), index' = index,
         req' = [req EXCEPT ![q] = r]
  PROVE  req' \in [Requests -> RequestType] /\ \A p \in Requests : RequestOK(req'[p], index')
  <1>1. r \in RequestType
    BY DEF RequestOK
  <1>2. ASSUME NEW p \in Requests
        PROVE  req'[p] = IF p = q THEN r ELSE req[p]
    BY DEF CachesInv
  <1> QED
    BY <1>1, <1>2 DEF CachesInv

LEMMA CachesInitInv == CachesInit => CachesInv
  <1> SUFFICES ASSUME CachesInit PROVE CachesInv
    OBVIOUS
  <1>1. index \in Pointers
    BY DEF CachesInit, Pointers
  <1>2. RequestOK(Request0, index)
    BY Zenon, <1>1, IdleOK
  <1>3. req \in [Requests -> RequestType] /\ \A q \in Requests : RequestOK(req[q], index)
    BY <1>2 DEF CachesInit, RequestOK
  <1>4. docs \in [Slots -> [gen : Int, val : Int]] /\ \A s \in Slots : EntryOK(docs[s], index)
    BY DEF CachesInit, EntryOK, NoEntry
  <1>5. StaleOnlyByOverlap
    BY DEF CachesInit, StaleOnlyByOverlap
  <1> QED
    BY <1>1, <1>3, <1>4, <1>5 DEF CachesInv

\* A publication leaves behind what was read before it, and the requests that
\* are under way are no longer clean.
LEMMA PublishKeeps ==
  ASSUME CachesInv, NEW kind \in {"docs", "code"}, PublishIndex(kind)
  PROVE  CachesInv'
  <1>1. index' \in Pointers /\ index.docs <= index'.docs
    BY DEF CachesInv, PublishIndex, Pointers
  <1>2. ASSUME NEW q \in Requests
        PROVE  req'[q] \in RequestType /\ RequestOK(req'[q], index')
    <2> DEFINE r == req[q]
    <2>1. RequestOK(r, index) /\ r \in RequestType
      BY DEF CachesInv
    <2>2. req'[q] = [r EXCEPT !.clean = r.at = "idle"]
      BY DEF PublishIndex
    <2> HIDE DEF r
    <2>3. [r EXCEPT !.clean = r.at = "idle"] \in RequestType
      BY Zenon, <2>1 DEF RequestType
    <2>4. RequestOK([r EXCEPT !.clean = r.at = "idle"], index')
      BY <2>1, <2>3, <1>1 DEF RequestOK, RequestType, Request0, Read, Unread, Pointers, CachesInv, Keyed
    <2> QED
      BY <2>2, <2>3, <2>4
  <1>3. req' \in [Requests -> RequestType]
    BY <1>2 DEF PublishIndex
  <1>4. ASSUME NEW s \in Slots PROVE EntryOK(docs'[s], index')
    BY <1>1 DEF CachesInv, EntryOK, PublishIndex, Pointers
  <1> QED
    BY Zenon, <1>1, <1>2, <1>3, <1>4 DEF CachesInv, StaleOnlyByOverlap, PublishIndex

LEMMA PurgeKeeps ==
  ASSUME CachesInv, PurgeCaches
  PROVE  CachesInv'
  BY DEF CachesInv, PurgeCaches, EntryOK, NoEntry, StaleOnlyByOverlap

\* A request begins, looks up its result, or reads the generation.
LEMMA LookupKeeps ==
  ASSUME CachesInv, NEW q \in Requests, Lookup(q)
  PROVE  CachesInv'
  <1>1. PICK a \in Args : req' = [req EXCEPT ![q] = [Request0 EXCEPT
                                    !.at = "get", !.arg = a, !.id = index]]
    BY Zenon DEF Lookup, Identity
  <1> DEFINE r == [Request0 EXCEPT !.at = "get", !.arg = a, !.id = index]
  <1>2. RequestOK(r, index)
    <2>1. r \in RequestType
      BY Zenon DEF CachesInv, RequestType, Request0, Pointers, Steps, Read
    <2>2. r.at = "get" /\ r.arg = a /\ r.gen = 0 /\ r.seen = Request0.seen
      BY DEF Request0
    <2>3. r.seen.docs = Unread /\ r.seen.scores = Unread /\ r.seen.code = Unread
      BY <2>2 DEF Request0
    <2> HIDE DEF r
    <2> QED
      BY <2>1, <2>2, <2>3 DEF CachesInv, RequestOK, Pointers, Keyed
  <1> HIDE DEF r
  <1>3. req' \in [Requests -> RequestType] /\ \A p \in Requests : RequestOK(req'[p], index')
    BY Zenon, <1>1, <1>2, RequestGoesOn DEF r, Lookup
  <1> QED
    BY SMTT(60), <1>3 DEF CachesInv, Lookup, StaleOnlyByOverlap

LEMMA BeginOK ==
  ASSUME NEW ix \in Pointers, NEW a \in Args
  PROVE  RequestOK([Request0 EXCEPT !.at = Begin(a), !.arg = a], ix)
  <1>1. Begin(a) \in {"code", "gen"} /\ (Begin(a) = "gen" => a \in Slots)
    BY DEF Begin, Slots
  <1> DEFINE r == [Request0 EXCEPT !.at = Begin(a), !.arg = a]
  <1>2. r \in RequestType
    BY Zenon, <1>1 DEF RequestType, Request0, Pointers, Steps, Read
  <1>3. r.at = Begin(a) /\ r.arg = a /\ r.gen = 0 /\ r.seen = Request0.seen
    BY DEF Request0
  <1>4. r.seen.docs = Unread /\ r.seen.scores = Unread /\ r.seen.code = Unread
    BY <1>3 DEF Request0
  <1> HIDE DEF r
  <1>5. RequestOK(r, ix)
    BY <1>1, <1>2, <1>3, <1>4 DEF RequestOK, Pointers, Keyed
  <1> QED
    BY <1>5 DEF r

LEMMA WarmupKeeps ==
  ASSUME CachesInv, NEW q \in Requests, Warmup(q)
  PROVE  CachesInv'
  <1>1. PICK a \in GraphArgs : req' = [req EXCEPT ![q] = [Request0 EXCEPT !.at = Begin(a), !.arg = a]]
    BY ZenonT(60) DEF Warmup
  <1>2. RequestOK([Request0 EXCEPT !.at = Begin(a), !.arg = a], index)
    BY Zenon, CachesAssumption, BeginOK DEF CachesInv
  <1>3. req' \in [Requests -> RequestType] /\ \A p \in Requests : RequestOK(req'[p], index')
    BY Zenon, <1>1, <1>2, RequestGoesOn DEF Warmup
  <1> QED
    BY SMTT(60), <1>3 DEF CachesInv, Warmup, StaleOnlyByOverlap

LEMMA GetResultKeeps ==
  ASSUME CachesInv, NEW q \in Requests, GetResult(q)
  PROVE  CachesInv'
  <1> DEFINE r == [req[q] EXCEPT !.at = Begin(req[q].arg), !.id = Request0.id]
             k == ResultKey(req[q].id, req[q].arg)
  <1>1. req[q].at = "get" /\ req[q] \in RequestType /\ RequestOK(req[q], index) /\ index' = index
        /\ docs' = docs /\ index \in Pointers
    BY DEF GetResult, CachesInv
  <1>2. RequestOK(r, index)
    <2>1. Begin(req[q].arg) \in {"code", "gen"} /\ (Begin(req[q].arg) = "gen" => req[q].arg \in Slots)
      BY <1>1 DEF Begin, Slots, RequestOK
    <2> QED
      BY Zenon, <1>1, <2>1 DEF RequestOK, RequestType, Request0, Pointers, Steps, Keyed, Read, Unread
  <1>3. req' = [req EXCEPT ![q] = Request0] \/ req' = [req EXCEPT ![q] = r]
    BY Zenon DEF GetResult, CachesInv
  <1>4. results' = results \/ results' = Forget(results, {k})
    BY DEF GetResult
  <1> HIDE DEF r, k
  <1>5. req' \in [Requests -> RequestType] /\ \A p \in Requests : RequestOK(req'[p], index')
    BY <1>1, <1>2, <1>3, IdleOK, RequestGoesOn
  <1>6. StaleOnlyByOverlap'
    BY <1>4 DEF CachesInv, StaleOnlyByOverlap, Forget
  <1> QED
    BY Zenon, <1>1, <1>5, <1>6 DEF CachesInv

LEMMA ReadGenerationKeeps ==
  ASSUME CachesInv, NEW q \in Requests, ReadGeneration(q)
  PROVE  CachesInv'
  <1> DEFINE r == [req[q] EXCEPT !.at = "docs", !.gen = index.docs]
  <1>1. req[q].at = "gen" /\ req[q] \in RequestType /\ RequestOK(req[q], index) /\ index \in Pointers
    BY DEF ReadGeneration, CachesInv
  <1>2. RequestOK(r, index)
    <2>1. r \in RequestType
      BY Zenon, <1>1 DEF RequestType, Pointers, Steps
    <2>2. r.at = "docs" /\ r.arg = req[q].arg /\ r.gen = index.docs /\ r.seen = Request0.seen
          /\ r.arg \in Slots /\ r.arg \in Args
      BY <1>1 DEF RequestType, RequestOK
    <2>3. r.seen.docs = Unread /\ r.seen.scores = Unread /\ r.seen.code = Unread
      BY <2>2 DEF Request0
    <2> HIDE DEF r
    <2> QED
      BY <1>1, <2>1, <2>2, <2>3 DEF RequestOK, Pointers, Keyed
  <1>3. req' = [req EXCEPT ![q] = r] /\ index' = index
    BY Zenon DEF ReadGeneration, CachesInv
  <1> HIDE DEF r
  <1>4. req' \in [Requests -> RequestType] /\ \A p \in Requests : RequestOK(req'[p], index')
    BY Zenon, <1>2, <1>3, RequestGoesOn
  <1> QED
    BY <1>4 DEF CachesInv, ReadGeneration, StaleOnlyByOverlap

\* A load answers with an entry of the request's generation or with what is
\* published.
LEMMA LoadKeeps ==
  ASSUME CachesInv, NEW q \in Requests, LoadDocs(q) \/ LoadScores(q)
  PROVE  CachesInv'
  <1>1. req[q] \in RequestType /\ RequestOK(req[q], index) /\ index \in Pointers
    BY DEF CachesInv
  <1>2. ASSUME NEW slot \in Slots
        PROVE  EntryOK(docs[slot], index)
    BY Zenon DEF CachesInv
  <1> DEFINE Got(slot) == IF Serves(slot, req[q].gen) THEN docs[slot].val ELSE index.docs
  <1>3. ASSUME NEW slot \in Slots
        PROVE  Got(slot) \in Nat /\ req[q].gen <= Got(slot) /\ Got(slot) <= index.docs
    BY <1>1, <1>2 DEF EntryOK, Serves, RequestOK, RequestType, Pointers
  <1>4. \E r : RequestOK(r, index) /\ req' = [req EXCEPT ![q] = r] /\ index' = index
    <2>1. CASE LoadDocs(q)
      <3> DEFINE v == Got("docs")
                 n == IF Serves("docs", req[q].gen) THEN "scores" ELSE "putDocs"
                 r == [req[q] EXCEPT !.seen.docs = v, !.at = n]
      <3>1. v \in Nat /\ req[q].gen <= v /\ v <= index.docs /\ n \in {"scores", "putDocs"}
        BY <1>3 DEF Slots
      <3>2. req' = [req EXCEPT ![q] = r] /\ index' = index /\ req[q].at = "docs"
        BY ZenonT(60), <2>1 DEF LoadDocs, CacheLoad, CachesInv
      <3> HIDE DEF v, n
      <3>3. RequestOK(r, index)
        <4>1. r \in RequestType
          BY Zenon, <1>1, <3>1, <3>2 DEF RequestType, Pointers, Steps, Read
        <4>2. r.at = n /\ r.arg = req[q].arg /\ r.gen = req[q].gen /\ r.clean = req[q].clean
              /\ r.seen.docs = v /\ r.seen.scores = req[q].seen.scores
              /\ r.seen.code = req[q].seen.code
          BY <1>1, <3>1, <3>2 DEF RequestType
        <4> HIDE DEF r
        <4> QED
          BY <1>1, <3>1, <3>2, <4>1, <4>2 DEF RequestOK, RequestType, Pointers, Keyed, Read, Unread
      <3> QED
        BY Zenon, <3>2, <3>3
    <2>2. CASE LoadScores(q)
      <3> DEFINE v == Got(req[q].arg)
                 n == IF Serves(req[q].arg, req[q].gen) THEN "code" ELSE "putScores"
                 r == [req[q] EXCEPT !.seen.scores = v, !.at = n]
      <3>1. req[q].at = "scores" /\ req[q].arg \in Slots
        BY Zenon, <2>2, <1>1 DEF LoadScores, RequestOK, Keyed
      <3>2. v \in Nat /\ req[q].gen <= v /\ v <= index.docs /\ n \in {"code", "putScores"}
        BY <1>3, <3>1
      <3>3. req' = [req EXCEPT ![q] = r] /\ index' = index
        BY Zenon, <2>2 DEF LoadScores, CacheLoad, CachesInv
      <3> HIDE DEF v, n
      <3>4. RequestOK(r, index)
        <4>1. r \in RequestType
          BY Zenon, <1>1, <3>1, <3>2 DEF RequestType, Pointers, Steps, Read
        <4>2. r.at = n /\ r.arg = req[q].arg /\ r.gen = req[q].gen /\ r.clean = req[q].clean
              /\ r.seen.scores = v /\ r.seen.docs = req[q].seen.docs
              /\ r.seen.code = req[q].seen.code
          BY <1>1, <3>1, <3>2 DEF RequestType
        <4> HIDE DEF r
        <4> QED
          BY <1>1, <3>1, <3>2, <4>1, <4>2 DEF RequestOK, RequestType, Pointers, Keyed, Read, Unread
      <3> QED
        BY ZenonT(60), <3>3, <3>4
    <2> QED
      BY <2>1, <2>2
  <1>5. req' \in [Requests -> RequestType] /\ \A p \in Requests : RequestOK(req'[p], index')
    BY Zenon, <1>4, RequestGoesOn
  <1>6. UNCHANGED <<index, docs, results, order>>
    BY DEF LoadDocs, LoadScores, CacheLoad
  <1> QED
    BY <1>5, <1>6 DEF CachesInv, StaleOnlyByOverlap

\* What a load read is stored for the generation the request asked for.
LEMMA PutKeeps ==
  ASSUME CachesInv, NEW q \in Requests, PutDocs(q) \/ PutScores(q)
  PROVE  CachesInv'
  <1>1. req[q] \in RequestType /\ RequestOK(req[q], index) /\ index \in Pointers
        /\ index' = index /\ results' = results
    BY DEF CachesInv, PutDocs, PutScores
  <1>2. CASE PutDocs(q)
    <2> DEFINE r == [req[q] EXCEPT !.at = "scores"]
               e == [gen |-> req[q].gen, val |-> req[q].seen.docs]
    <2>1. RequestOK(r, index)
      BY Zenon, <1>1, <1>2 DEF PutDocs, RequestOK, RequestType, Request0, Pointers, Steps, Keyed, Read, Unread
    <2>2. EntryOK(e, index)
      BY <1>1, <1>2 DEF PutDocs, RequestOK, RequestType, EntryOK, Read, Unread
    <2>3. req' = [req EXCEPT ![q] = r] /\ docs' = [docs EXCEPT !["docs"] = e]
      BY <1>2 DEF PutDocs, CachesInv
    <2> HIDE DEF r, e
    <2>4. req' \in [Requests -> RequestType] /\ \A p \in Requests : RequestOK(req'[p], index')
      BY Zenon, <1>1, <2>1, <2>3, RequestGoesOn
    <2>5. docs' \in [Slots -> [gen : Int, val : Int]] /\ \A s \in Slots : EntryOK(docs'[s], index')
      BY ZenonT(60), <1>1, <2>2, <2>3 DEF CachesInv, EntryOK
    <2> QED
      BY Zenon, <1>1, <2>4, <2>5 DEF CachesInv, StaleOnlyByOverlap
  <1>3. CASE PutScores(q)
    <2> DEFINE r == [req[q] EXCEPT !.at = "code"]
               e == [gen |-> req[q].gen, val |-> req[q].seen.scores]
    <2>1. RequestOK(r, index)
      BY Zenon, <1>1, <1>3 DEF PutScores, RequestOK, RequestType, Request0, Pointers, Steps, Keyed, Read, Unread
    <2>2. EntryOK(e, index)
      BY <1>1, <1>3 DEF PutScores, RequestOK, RequestType, EntryOK, Read, Unread
    <2>3. req' = [req EXCEPT ![q] = r]
      BY <1>3 DEF PutScores, CachesInv
    <2>4. PICK gone \in SUBSET (Slots \ {"docs", req[q].arg}) :
            docs' = [s \in Slots |-> IF s = req[q].arg THEN e
                                     ELSE IF s \in gone THEN NoEntry ELSE docs[s]]
      BY Zenon, <1>3 DEF PutScores
    <2> HIDE DEF r, e
    <2>5. req' \in [Requests -> RequestType] /\ \A p \in Requests : RequestOK(req'[p], index')
      BY Zenon, <1>1, <2>1, <2>3, RequestGoesOn
    <2>6. EntryOK(NoEntry, index)
      BY DEF EntryOK, NoEntry
    <2>7. docs' \in [Slots -> [gen : Int, val : Int]] /\ \A s \in Slots : EntryOK(docs'[s], index')
      BY <1>1, <2>2, <2>4, <2>6 DEF CachesInv, EntryOK
    <2> QED
      BY Zenon, <1>1, <2>5, <2>7 DEF CachesInv, StaleOnlyByOverlap
  <1> QED
    BY <1>2, <1>3

LEMMA ExecuteKeeps ==
  ASSUME CachesInv, NEW q \in Requests, ExecuteRest(q) \/ ReadIdentity(q)
  PROVE  CachesInv'
  <1>1. req[q] \in RequestType /\ RequestOK(req[q], index) /\ index \in Pointers
        /\ UNCHANGED <<index, docs, results, order>>
    BY Zenon DEF CachesInv, ExecuteRest, ReadIdentity
  <1> DEFINE r == [req[q] EXCEPT !.seen.code = index.code, !.at = "identity"]
             s == [req[q] EXCEPT !.at = "set", !.id = index]
  <1>2. ExecuteRest(q) => RequestOK(r, index)
    <2> SUFFICES ASSUME req[q].at = "code" PROVE RequestOK(r, index)
      BY DEF ExecuteRest
    <2>1. r \in RequestType
      BY Zenon, <1>1 DEF RequestType, Pointers, Steps, Read
    <2>2. r.at = "identity" /\ r.arg = req[q].arg /\ r.gen = req[q].gen /\ r.clean = req[q].clean
          /\ r.seen.docs = req[q].seen.docs /\ r.seen.scores = req[q].seen.scores
          /\ r.seen.code = index.code
      BY <1>1 DEF RequestType
    <2> HIDE DEF r
    <2> QED
      BY <1>1, <2>1, <2>2 DEF RequestOK, RequestType, Pointers, Keyed, Read, Unread
  <1>3. ReadIdentity(q) => RequestOK(s, index)
    BY Zenon, <1>1 DEF ReadIdentity, RequestOK, RequestType, Request0, Pointers, Steps, Keyed, Read, Unread
  <1>4. ExecuteRest(q) => req' = [req EXCEPT ![q] = Request0] \/ req' = [req EXCEPT ![q] = r]
    BY Zenon DEF ExecuteRest, CachesInv
  <1>5. ReadIdentity(q) => req' = [req EXCEPT ![q] = s]
    BY Zenon DEF ReadIdentity, CachesInv, Identity
  <1> HIDE DEF r, s
  <1>6. req' \in [Requests -> RequestType] /\ \A p \in Requests : RequestOK(req'[p], index')
    BY <1>1, <1>2, <1>3, <1>4, <1>5, IdleOK, RequestGoesOn
  <1> QED
    BY <1>1, <1>6 DEF CachesInv, StaleOnlyByOverlap

\* A clean request stores what belongs to the generation in its key.
LEMMA SetResultKeeps ==
  ASSUME CachesInv, NEW q \in Requests, SetResult(q)
  PROVE  CachesInv'
  <1> DEFINE k == ResultKey(req[q].id, req[q].arg)
             v == [seen |-> req[q].seen, clean |-> req[q].clean]
             full == k \notin DOMAIN results /\ Len(order) >= CacheSize
             kept == IF full THEN Forget(results, {order[1]}) ELSE results
  <1>1. req[q].at = "set" /\ req[q] \in RequestType /\ RequestOK(req[q], index)
        /\ index \in Pointers /\ index' = index /\ docs' = docs
        /\ req' = [req EXCEPT ![q] = Request0] /\ results' = With(kept, k, v)
    BY Zenon DEF CachesInv, SetResult
  <1>2. v.clean => Belongs(v.seen, k.id)
    BY <1>1 DEF RequestOK, Belongs, ResultKey
  <1>3. DOMAIN kept \subseteq DOMAIN results /\ \A x \in DOMAIN kept : kept[x] = results[x]
    BY DEF Forget
  <1> HIDE DEF k, v, full, kept
  <1>4. DOMAIN results' = DOMAIN kept \cup {k}
        /\ \A x \in DOMAIN results' : results'[x] = IF x = k THEN v ELSE kept[x]
    BY <1>1 DEF With
  <1>5. StaleOnlyByOverlap'
    BY <1>2, <1>3, <1>4 DEF CachesInv, StaleOnlyByOverlap
  <1>6. req' \in [Requests -> RequestType] /\ \A p \in Requests : RequestOK(req'[p], index')
    BY Zenon, <1>1, IdleOK, RequestGoesOn
  <1> QED
    BY <1>1, <1>5, <1>6 DEF CachesInv

LEMMA CachesNextInv == CachesInv /\ [CachesNext]_cacheVars => CachesInv'
  <1> SUFFICES ASSUME CachesInv, [CachesNext]_cacheVars PROVE CachesInv'
    OBVIOUS
  <1>1. CASE UNCHANGED cacheVars
    BY <1>1 DEF cacheVars, CachesInv, StaleOnlyByOverlap
  <1>2. CASE CachesNext
    BY Zenon, <1>2, PublishKeeps, PurgeKeeps, LookupKeeps, WarmupKeeps, GetResultKeeps, ReadGenerationKeeps,
       LoadKeeps, PutKeeps, ExecuteKeeps, SetResultKeeps DEF CachesNext
  <1> QED
    BY <1>1, <1>2
-----------------------------------------------------------------------------
\* The inductive invariant of the caches.
THEOREM CachesInvariance == CachesSpec => []CachesInv
  BY CachesInitInv, CachesNextInv, PTL DEF CachesSpec

\* A query of the daemon never works on documents or scores older than the docs
\* generation it read at its beginning, whoever filled the caches, whatever was
\* published or purged meanwhile (loadDocRecordsCached, ftsScoresCached).
THEOREM DocsFresh == CachesSpec => []DocsNeverOld
  <1>1. CachesInv => DocsNeverOld
    BY DEF CachesInv, RequestOK, DocsNeverOld, RequestType, Read
  <1> QED BY <1>1, CachesInvariance, PTL

\* A result in the daemon's cache belongs to the generations in its key unless a
\* publication was committed between the request's first look at the index and
\* its last (the handler's default branch, resultCache.set).
THEOREM ResultsFresh == CachesSpec => []StaleOnlyByOverlap
  <1>1. CachesInv => StaleOnlyByOverlap
    BY DEF CachesInv
  <1> QED BY <1>1, CachesInvariance, PTL
=============================================================================
