---------------------------- MODULE QueryCaches ----------------------------
(***************************************************************************)
(* The caches a documentation query of the daemon goes through while the   *)
(* index is being republished: the result cache of daemon/result_cache.go  *)
(* around the request handler, and inside the execution the document and   *)
(* full-text-score caches of service/doc_cache.go.  Each read of the index *)
(* is its own SQLite transaction, so a publication may fall between any    *)
(* two of them.                                                            *)
(***************************************************************************)
EXTENDS Integers, Sequences, FiniteSets

CONSTANTS
    Requests,   \* requests and warm-ups being handled
    Args,       \* operations with their canonical arguments
    GraphArgs,  \* those of the graph queries, which read no documents
    MaxDocsGen, \* bound: publications that rotate the documents
    MaxCodeGen, \* bound: publications of the catalog only
    CacheSize   \* resultCacheMaxSize

ASSUME CachesAssumption == GraphArgs \subseteq Args

VARIABLES
    index,   \* what is published: content and generation pointers move together
    req,     \* the requests
    docs,    \* docRecordsCache, and per query ftsScoresCache
    results, \* resultCache.entries
    order    \* resultCache.lru, least recently used first

cacheVars == <<index, req, docs, results, order>>

Content == [docs : 0..MaxDocsGen, code : 0..MaxCodeGen]
Slots == {"docs"} \cup (Args \ GraphArgs)
Unread == -1
NoEntry == [gen |-> -1, val |-> -1]
\* `seen` is what the answer is computed from, `id` the identity of the cache key and
\* `clean` whether nothing was published since the request looked at the index first.
Request0 == [at |-> "idle", arg |-> CHOOSE a \in Args : TRUE, gen |-> 0,
             seen |-> [docs |-> Unread, scores |-> Unread, code |-> Unread],
             id |-> [docs |-> 0, code |-> 0], clean |-> TRUE]

CachesInit ==
    /\ index = [docs |-> 0, code |-> 0]
    /\ req = [q \in Requests |-> Request0]
    /\ docs = [s \in Slots |-> NoEntry]
    /\ results = <<>>
    /\ order = <<>>

ResultKey(id, arg) == [id |-> id, arg |-> arg]
Without(s, k) == SelectSeq(s, LAMBDA x : x # k)
Recent(s, k) == Append(Without(s, k), k)
With(f, k, v) == [x \in DOMAIN f \cup {k} |-> IF x = k THEN v ELSE f[x]]
Forget(f, K) == [x \in DOMAIN f \ K |-> f[x]]

----------------------------------------------------------------------------
\* publishForeground / publishOwned, and setActiveDocsGenerationTx: the rows and the
\* pointers of one transaction.
PublishIndex(kind) ==
    /\ index' = [index EXCEPT ![kind] = @ + 1]
    /\ index' \in Content
    /\ req' = [q \in Requests |-> [req[q] EXCEPT !.clean = req[q].at = "idle"]]
    /\ UNCHANGED <<docs, results, order>>

\* What indexGeneration makes of the published pointers.
IdentityOfCode == [index EXCEPT !.docs = 0]
Identity == index

Begin(a) == IF a \in GraphArgs THEN "code" ELSE "gen"
\* The handler's default branch begins with the identity of the index ...
Lookup(q) ==
    /\ req[q].at = "idle"
    /\ \E a \in Args : req' = [req EXCEPT ![q] = [Request0 EXCEPT
                                  !.at = "get", !.arg = a, !.id = Identity]]
    /\ UNCHANGED <<index, docs, results, order>>
\* ... a warm-up (warmGraphJoinCaches) executes without looking.
Warmup(q) ==
    /\ req[q].at = "idle"
    /\ \E a \in GraphArgs : req' = [req EXCEPT ![q] = [Request0 EXCEPT !.at = Begin(a), !.arg = a]]
    /\ UNCHANGED <<index, docs, results, order>>

\* resultCache.get: a hit answers the request.
\* After a miss the operation is executed; the identity is not looked at again.
GetResult(q) ==
    LET k == ResultKey(req[q].id, req[q].arg)
        missed == [req EXCEPT ![q].at = Begin(req[q].arg), ![q].id = Request0.id]
    IN  /\ req[q].at = "get"
        /\ \/ /\ k \in DOMAIN results
              /\ order' = Recent(order, k)
              /\ req' = [req EXCEPT ![q] = Request0]
              /\ UNCHANGED results
           \/ /\ k \in DOMAIN results \* resultCacheTTL has run out
              /\ results' = Forget(results, {k}) /\ order' = Without(order, k)
              /\ req' = missed
           \/ /\ k \notin DOMAIN results
              /\ req' = missed
              /\ UNCHANGED <<results, order>>
        /\ UNCHANGED <<index, docs>>

\* loadDocQueryContext: docsGeneration is read once, before the documents.
ReadGeneration(q) ==
    /\ req[q].at = "gen"
    /\ req' = [req EXCEPT ![q].at = "docs", ![q].gen = index.docs]
    /\ UNCHANGED <<index, docs, results, order>>

\* A cached entry serves the generation it was stored for.
ServesAny(slot, gen) == docs[slot] # NoEntry
Serves(slot, gen) == docs[slot] # NoEntry /\ docs[slot].gen = gen
\* loadDocRecordsCached and ftsScoresCached: from the cache, or from the index as it is.
CacheLoad(q, field, slot, hit, miss) ==
    /\ req' = [req EXCEPT ![q].seen[field] = IF Serves(slot, req[q].gen) THEN docs[slot].val
                                             ELSE index.docs,
                          ![q].at = IF Serves(slot, req[q].gen) THEN hit ELSE miss]
    /\ UNCHANGED <<index, docs, results, order>>
LoadDocs(q) == req[q].at = "docs" /\ CacheLoad(q, "docs", "docs", "scores", "putDocs")
LoadScores(q) == req[q].at = "scores" /\ CacheLoad(q, "scores", req[q].arg, "code", "putScores")

PutDocs(q) ==
    /\ req[q].at = "putDocs"
    /\ docs' = [docs EXCEPT !["docs"] = [gen |-> req[q].gen, val |-> req[q].seen.docs]]
    /\ req' = [req EXCEPT ![q].at = "scores"]
    /\ UNCHANGED <<index, results, order>>
\* ftsLRUCache.put may evict another query's scores.
PutScores(q) ==
    /\ req[q].at = "putScores"
    /\ \E gone \in SUBSET (Slots \ {"docs", req[q].arg}) :
         docs' = [s \in Slots |->
                    IF s = req[q].arg THEN [gen |-> req[q].gen, val |-> req[q].seen.scores]
                    ELSE IF s \in gone THEN NoEntry ELSE docs[s]]
    /\ req' = [req EXCEPT ![q].at = "code"]
    /\ UNCHANGED <<index, results, order>>

\* PurgeWorkspaceCaches, when the workspace is removed from the registry.
PurgeCaches ==
    /\ docs' = [s \in Slots |-> NoEntry]
    /\ UNCHANGED <<index, req, results, order>>

\* The other rows the operation reads; it may also fail, and then nothing is cached.
ExecuteRest(q) ==
    /\ req[q].at = "code"
    /\ \/ req' = [req EXCEPT ![q].seen.code = index.code, ![q].at = "identity"]
       \/ req' = [req EXCEPT ![q] = Request0]
    /\ UNCHANGED <<index, docs, results, order>>

\* The result is stored under the identity the index has by now.
ReadIdentity(q) ==
    /\ req[q].at = "identity"
    /\ req' = [req EXCEPT ![q].at = "set", ![q].id = Identity]
    /\ UNCHANGED <<index, docs, results, order>>

\* resultCache.set
SetResult(q) ==
    LET k == ResultKey(req[q].id, req[q].arg)
        full == k \notin DOMAIN results /\ Len(order) >= CacheSize
        kept == IF full THEN Forget(results, {order[1]}) ELSE results
    IN  /\ req[q].at = "set"
        /\ results' = With(kept, k, [seen |-> req[q].seen, clean |-> req[q].clean])
        /\ order' = Recent(IF full THEN Tail(order) ELSE order, k)
        /\ req' = [req EXCEPT ![q] = Request0]
        /\ UNCHANGED <<index, docs>>

CachesNext ==
    \/ \E kind \in {"docs", "code"} : PublishIndex(kind)
    \/ PurgeCaches
    \/ \E q \in Requests :
        \/ Lookup(q) \/ Warmup(q) \/ GetResult(q) \/ ReadGeneration(q) \/ LoadDocs(q)
        \/ PutDocs(q) \/ LoadScores(q) \/ PutScores(q) \/ ExecuteRest(q)
        \/ ReadIdentity(q) \/ SetResult(q)

CachesSpec == CachesInit /\ [][CachesNext]_cacheVars

----------------------------------------------------------------------------
\* The document caches never serve an older generation than the one the query read:
\* what a query works on is at least as new, whoever filled the cache and whenever.
DocsNeverOld ==
    \A q \in Requests :
        \A field \in {"docs", "scores"} :
            req[q].seen[field] # Unread => req[q].seen[field] >= req[q].gen

Belongs(seen, id) ==
    /\ seen.docs \in {Unread, id.docs} /\ seen.scores \in {Unread, id.docs}
    /\ seen.code = id.code
\* A stored result belongs to the generation in its key unless a publication was
\* committed while it was being computed.
StaleOnlyByOverlap ==
    \A k \in DOMAIN results : results[k].clean => Belongs(results[k].seen, k.id)
=============================================================================
