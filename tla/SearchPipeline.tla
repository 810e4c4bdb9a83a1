--------------------------- MODULE SearchPipeline ---------------------------
(***************************************************************************)
(* A search request from the gRPC handler to its response:                 *)
(* executeSearchCore of api/core.go (overload and critical checks, deep    *)
(* gate, one orchestrator search per collection, aggregation) and Search   *)
(* of the orchestrator (cache, mode, confirm gate, tier fallback, deep     *)
(* search beside a broad one, escalation, negative cache, cache store).    *)
(* Requests run concurrently and share the result cache and the negative   *)
(* cache.  The CPU monitor may switch its flags between any two reads of   *)
(* them, so a read of IsOverloaded or IsCriticalOverloaded is a choice.    *)
(*                                                                         *)
(* A result list is abstracted to the set of collections its hits come     *)
(* from before the limits on their number, which never empty a list.       *)
(* Reasons, scores, latencies and the list of searched collections are     *)
(* left out.  The caches are abstract: ResultCache and DeepNegativeCache   *)
(* model how they work.  A tier's parallel searches meet only in the       *)
(* result they collect, so they are one step with an outcome for each.     *)
(***************************************************************************)
EXTENDS Integers, Sequences, FiniteSets

CONSTANTS
    Requests,                       \* concurrent requests
    Shapes,                         \* Shapes[r]: what the client of request r may ask
    Queries,
    DeepQueries, VectorQueries,     \* DetectMode answers query, or vsearch
    BudgetQueries,                  \* allowAutoDeepQuery answers true
    Names,                          \* collection names that clients use
    Collections, Tier1, Tier2,      \* the configured collections
    RequireExplicit, SafetyPrompt,  \* the collections with the flag set
    HasDeepQuery, HasVector,
    FallbackEnabled,
    TopK,
    MaxEntries,                     \* cache.max_entries
    All                             \* the empty collection name, and scope "all"

Shape == [query : Queries, requested : {"core", "broad", "deep", "auto"},
          collections : Seq(Names), fallback : BOOLEAN, confirm : BOOLEAN,
          filesAll : BOOLEAN, topK : Nat]

ASSUME PipelineAssumption ==
    /\ \A r \in Requests : Shapes[r] \subseteq Shape /\ Shapes[r] # {}
    /\ Collections \subseteq Names /\ All \notin Names
    /\ Tier1 \subseteq Collections /\ Tier2 \subseteq Collections
    /\ HasDeepQuery \in BOOLEAN /\ HasVector \in BOOLEAN /\ FallbackEnabled \in BOOLEAN
    /\ TopK \in Nat \ {0} /\ MaxEntries \in Nat \ {0}

VARIABLES
    cache,          \* the result cache: a function from cached keys to entries
    neg,            \* the negative cache: <<query, scope>> pairs to skip
    pc,
    req,            \* the shape of the request
    todo,           \* the collections still to probe or to search
    mode,           \* the mode the core passes to the orchestrator
    quiet,          \* disableDeepEscalation
    work,           \* the orchestrator's result in the making
    resp            \* the response in the making

vars == <<cache, neg, pc, req, todo, mode, quiet, work, resp>>

-----------------------------------------------------------------------------
(* Data                                                                    *)

Outcomes == {"hits", "low", "empty", "error"}   \* low: all below min_score

\* lost is history: a deep search was due and the result is not its result.
Result(hits, m, fallback, degraded, lost) ==
    [hits |-> hits, mode |-> m, fallback |-> fallback, degraded |-> degraded, lost |-> lost]

NoResult == Result({}, "none", FALSE, FALSE, FALSE)
NoResponse == [status |-> "none", hits |-> {}, mode |-> "none", fallback |-> FALSE,
               degraded |-> FALSE, pre |-> FALSE, served |-> "none", lost |-> FALSE]

\* topK of the core: unset is top_k, or no limit for all files.
CoreN(s) == IF s.topK > 0 THEN s.topK ELSE IF s.filesAll THEN 0 ELSE TopK

MutKeyWithoutMode(r, n) ==
    [query |-> req[r].query, mode |-> "auto", collection |-> Head(todo[r]), n |-> n,
     fallback |-> req[r].fallback, filesAll |-> req[r].filesAll]

MutKeyWithoutCollection(r, n) ==
    [query |-> req[r].query, mode |-> mode[r], collection |-> All, n |-> n,
     fallback |-> req[r].fallback, filesAll |-> req[r].filesAll]

MakeCacheKey(r, n) ==
    [query |-> req[r].query, mode |-> mode[r], collection |-> Head(todo[r]), n |-> n,
     fallback |-> req[r].fallback, filesAll |-> req[r].filesAll]
ProbeKey(r) == MakeCacheKey(r, CoreN(req[r]))
SearchKey(r) == MakeCacheKey(r, IF CoreN(req[r]) > 0 THEN CoreN(req[r]) ELSE TopK)

ToSearch(s) == IF s.collections = <<>> THEN <<All>> ELSE s.collections

allowFallbackFromProto(s) ==
    \/ s.fallback \/ s.requested \in {"deep", "broad"}
    \/ s.requested = "auto" /\ FallbackEnabled

requestedModeToOrchestratorMode(m) ==
    CASE m \in {"core", "broad"} -> "search" [] m = "deep" -> "query" [] OTHER -> "auto"

DetectMode(q) ==
    IF q \in DeepQueries /\ HasDeepQuery THEN "query"
    ELSE IF q \in VectorQueries /\ HasVector THEN "vsearch"
    ELSE "search"

collectionsByTier(tier) == (IF tier = 1 THEN Tier1 ELSE Tier2) \ RequireExplicit

Init ==
    /\ cache = <<>> /\ neg = {}
    /\ pc = [r \in Requests |-> "idle"]
    /\ req = [r \in Requests |-> CHOOSE s \in Shapes[r] : TRUE]
    /\ todo = [r \in Requests |-> <<>>]
    /\ mode = [r \in Requests |-> "none"]
    /\ quiet = [r \in Requests |-> FALSE]
    /\ work = [r \in Requests |-> NoResult]
    /\ resp = [r \in Requests |-> NoResponse]

Go(r, point) == pc' = [pc EXCEPT ![r] = point]

-----------------------------------------------------------------------------
(* executeSearchCore, before the searches                                  *)

Arrive(r, s) ==
    /\ pc[r] = "idle"
    /\ Go(r, "admit")
    /\ req' = [req EXCEPT ![r] = [s EXCEPT !.fallback = allowFallbackFromProto(s)]]
    /\ todo' = [todo EXCEPT ![r] = ToSearch(s)]
    /\ mode' = [mode EXCEPT ![r] = requestedModeToOrchestratorMode(s.requested)]
    /\ quiet' = [quiet EXCEPT ![r] = s.requested \in {"core", "broad"}]
    /\ resp' = [resp EXCEPT ![r] = NoResponse]
    /\ UNCHANGED <<cache, neg, work>>

\* Send the request to plain search and mark the response (preDegraded).
Downgrade(r, when) ==
    /\ mode' = [mode EXCEPT ![r] = IF when THEN "search" ELSE @]
    /\ quiet' = [quiet EXCEPT ![r] = @ \/ when]
    /\ resp' = [resp EXCEPT ![r] = [resp[r] EXCEPT !.pre = @ \/ when]]

CheckOverload(r, overloaded) ==
    /\ pc[r] = "admit"
    /\ Downgrade(r, overloaded)
    /\ Go(r, "critical")
    /\ UNCHANGED <<cache, neg, req, todo, work>>

CheckCritical(r, critical) ==
    /\ pc[r] = "critical"
    /\ Go(r, IF critical THEN "probe" ELSE "gate")
    /\ UNCHANGED <<cache, neg, req, todo, mode, quiet, work, resp>>

MutProbe(r) ==  \* the collections are not listed again for the searches
    /\ pc[r] = "probe"
    /\ IF ProbeKey(r) \notin DOMAIN cache
       THEN /\ Go(r, "idle")
            /\ resp' = [resp EXCEPT ![r] = [@ EXCEPT !.status = "shed"]]
            /\ UNCHANGED todo
       ELSE /\ todo' = [todo EXCEPT ![r] = Tail(@)]
            /\ Go(r, IF Len(todo[r]) = 1 THEN "gate" ELSE "probe")
            /\ UNCHANGED resp
    /\ UNCHANGED <<cache, neg, req, mode, quiet, work>>

\* HasCachedResult, once per collection until one is not cached.
Probe(r) ==
    /\ pc[r] = "probe"
    /\ IF ProbeKey(r) \notin DOMAIN cache
       THEN /\ Go(r, "idle")
            /\ resp' = [resp EXCEPT ![r] = [@ EXCEPT !.status = "shed"]]
            /\ UNCHANGED todo
       ELSE /\ todo' = [todo EXCEPT ![r] = IF Len(@) = 1 THEN ToSearch(req[r]) ELSE Tail(@)]
            /\ Go(r, IF Len(todo[r]) = 1 THEN "gate" ELSE "probe")
            /\ UNCHANGED resp
    /\ UNCHANGED <<cache, neg, req, mode, quiet, work>>

\* Explicit deep requests are guarded when fallback is allowed.
DeepGate(r) ==
    /\ pc[r] = "gate"
    /\ Downgrade(r, /\ req[r].requested = "deep" /\ req[r].fallback
                    /\ req[r].query \notin BudgetQueries)
    /\ Go(r, "search")
    /\ UNCHANGED <<cache, neg, req, todo, work>>

-----------------------------------------------------------------------------
(* The loop over the collections                                           *)

\* One search ended in the result e, which joins the response so far.
Joined(p, e) ==
    [p EXCEPT !.status = "ok",
              !.hits = @ \union e.hits,
              !.mode = IF e.mode = "query" \/ @ = "none" THEN e.mode ELSE @,
              !.fallback = @ \/ e.fallback,
              !.degraded = @ \/ e.degraded,
              !.lost = @ \/ e.lost]

Accumulate(r, e) ==
    /\ resp' = [resp EXCEPT ![r] = Joined(@, e)]
    /\ todo' = [todo EXCEPT ![r] = Tail(@)]
    /\ work' = [work EXCEPT ![r] = NoResult]
    /\ Go(r, "search")

\* One search ended in an error, which counts when no search succeeds.
AccumulateError(r) ==
    /\ resp' = [resp EXCEPT ![r] =
                 [resp[r] EXCEPT !.status = IF @ = "ok" THEN @ ELSE "error"]]
    /\ todo' = [todo EXCEPT ![r] = Tail(@)]
    /\ work' = [work EXCEPT ![r] = NoResult]
    /\ Go(r, "search")

deriveServedMode(requested, m, fallback, degraded) ==
    CASE m = "query" -> "deep"
      [] m # "query" /\ requested \in {"deep", "broad"} -> "broad"
      [] m # "query" /\ requested = "core" -> IF fallback THEN "broad" ELSE "core"
      [] OTHER -> IF fallback \/ degraded THEN "broad" ELSE "core"

\* The response p to a request for the mode requested is complete.
Completed(p, requested, capped) ==
    LET served == deriveServedMode(requested, p.mode, p.fallback, p.degraded)
    IN  [p EXCEPT !.served = served,
                  !.degraded = @ \/ p.pre \/ capped \/ (requested = "deep" /\ served # "deep")]

\* A response with all files may be cut at files_all_max_hits.
Respond(r) ==
    /\ pc[r] = "search" /\ todo[r] = <<>>
    /\ resp[r].status = "ok"
    /\ \E capped \in IF req[r].filesAll THEN BOOLEAN ELSE {FALSE} :
         resp' = [resp EXCEPT ![r] = Completed(@, req[r].requested, capped)]
    /\ Go(r, "idle")
    /\ UNCHANGED <<cache, neg, req, todo, mode, quiet, work>>

\* No search succeeded: the first error is the answer.
RespondError(r) ==
    /\ pc[r] = "search" /\ todo[r] = <<>>
    /\ resp[r].status = "error"
    /\ Go(r, "idle")
    /\ UNCHANGED <<cache, neg, req, todo, mode, quiet, work, resp>>

-----------------------------------------------------------------------------
(* Search of the orchestrator                                              *)

Lookup(r) ==
    /\ pc[r] = "search" /\ todo[r] # <<>>
    /\ IF SearchKey(r) \in DOMAIN cache
       THEN Accumulate(r, cache[SearchKey(r)])
       ELSE Go(r, "resolve") /\ UNCHANGED <<resp, todo, work>>
    /\ UNCHANGED <<cache, neg, req, mode, quiet>>

resolveMode(m, q, overloaded) ==
    LET wanted == IF m = "auto" THEN DetectMode(q) ELSE m IN
    CASE overloaded -> "search"
      [] ~overloaded /\ wanted = "query" ->
           IF HasDeepQuery /\ (m = "auto" => q \in BudgetQueries) THEN "query" ELSE "search"
      [] OTHER -> wanted

\* The collection does not exist, or it wants a confirmation.
Refused(r) ==
    LET c == Head(todo[r]) IN
    /\ c # All
    /\ \/ c \notin Collections
       \/ c \in RequireExplicit \intersect SafetyPrompt /\ ~req[r].confirm

Resolve(r, overloaded) ==
    /\ pc[r] = "resolve"
    /\ IF Refused(r)
       THEN AccumulateError(r)
       ELSE LET m == resolveMode(mode[r], req[r].query, overloaded) IN
            /\ work' = [work EXCEPT ![r] = [@ EXCEPT !.mode = m]]
            /\ Go(r, IF m = "query" THEN "deep" ELSE "broad")
            /\ UNCHANGED <<resp, todo>>
    /\ UNCHANGED <<cache, neg, req, mode, quiet>>

-----------------------------------------------------------------------------
(* Running qmd                                                             *)

With(out, cols, o) == {c \in cols : out[c] = o}

\* searchPrimaryWithTierFallback, or the search of the one named collection; the
\* errors of single collections are logged and dropped.
Broad(r, m, degraded, lost, out) ==
    LET c == Head(todo[r])
        t1 == IF c = All THEN collectionsByTier(1) ELSE {c}
        t2 == collectionsByTier(2)
        fallback == /\ c = All /\ With(out, t1, "hits") = {}
                    /\ req[r].fallback /\ FallbackEnabled /\ t2 # {}
    IN  Result(With(out, IF fallback THEN t2 ELSE t1, "hits"), m, fallback, degraded, lost)

\* searchDeepTier1, or the deep search of the named collection: an error if no
\* collection gave a result and one failed.
DeepTargets(r) == IF Head(todo[r]) = All THEN collectionsByTier(1) ELSE {Head(todo[r])}
DeepError(r, out) ==
    \/ DeepTargets(r) = {}
    \/ /\ With(out, DeepTargets(r), "error") # {}
       /\ \A c \in DeepTargets(r) : out[c] \in {"empty", "error"}

\* searchSingleCollection returns the error of its only search; searchWithFallback
\* goes on with what the tiers gave.
RunBroad(r, out) ==
    /\ pc[r] = "broad"
    /\ IF Head(todo[r]) # All /\ ~work[r].degraded /\ out[Head(todo[r])] = "error"
       THEN AccumulateError(r)
       ELSE /\ work' = [work EXCEPT ![r] = Broad(r, @.mode, @.degraded, @.lost, out)]
            /\ Go(r, IF Head(todo[r]) # All \/ work[r].degraded THEN "store" ELSE "escalate")
            /\ UNCHANGED <<resp, todo>>
    /\ UNCHANGED <<cache, neg, req, mode, quiet>>

\* shouldSkipDeepByNegativeCache: a broad search alone, marked degraded.
ConsultNegative(r) ==
    /\ pc[r] = "deep"
    /\ IF <<req[r].query, Head(todo[r])>> \in neg
       THEN /\ work' = [work EXCEPT ![r] = [@ EXCEPT !.mode = "search", !.degraded = TRUE,
                                                    !.lost = TRUE]]
            /\ Go(r, "broad")
       ELSE Go(r, "both") /\ UNCHANGED work
    /\ UNCHANGED <<cache, neg, req, todo, mode, quiet, resp>>

\* The broad and the deep goroutine; both are waited for.
RunBoth(r, out, deepOut) ==
    /\ pc[r] = "both"
    /\ LET hits == With(deepOut, DeepTargets(r), "hits") IN
       /\ work' = [work EXCEPT ![r] =
            IF DeepError(r, deepOut) \/ hits = {}
            THEN Broad(r, "search", TRUE, TRUE, out)
            ELSE Result(hits, "query", FALSE, FALSE, FALSE)]
       /\ Go(r, IF DeepError(r, deepOut) THEN "mark" ELSE "store")
    /\ UNCHANGED <<cache, neg, req, todo, mode, quiet, resp>>

\* searchWithFallback escalates a plain search that found nothing.
Escalate(r, overloaded) ==
    /\ pc[r] = "escalate"
    /\ LET wanted == /\ ~quiet[r] /\ work[r].mode = "search" /\ work[r].hits = {}
                     /\ HasDeepQuery /\ ~overloaded /\ req[r].query \in BudgetQueries
           skip == <<req[r].query, All>> \in neg
       IN  /\ work' = [work EXCEPT ![r] = [@ EXCEPT !.degraded = wanted /\ skip,
                                                   !.lost = wanted /\ skip]]
           /\ Go(r, IF wanted /\ ~skip THEN "deepTier" ELSE "store")
    /\ UNCHANGED <<cache, neg, req, todo, mode, quiet, resp>>

RunDeepTier(r, out) ==
    /\ pc[r] = "deepTier"
    /\ LET hits == With(out, DeepTargets(r), "hits") IN
       /\ work' = [work EXCEPT ![r] =
            IF DeepError(r, out) \/ hits = {}
            THEN [@ EXCEPT !.degraded = TRUE, !.lost = TRUE]
            ELSE Result(hits, "query", @.fallback, FALSE, FALSE)]
       /\ Go(r, IF DeepError(r, out) THEN "mark" ELSE "store")
    /\ UNCHANGED <<cache, neg, req, todo, mode, quiet, resp>>

\* markDeepNegative; the third failure of a scope takes all its queries.
MarkNegative(r, cooldown) ==
    /\ pc[r] = "mark"
    /\ neg' = neg \union (IF cooldown THEN Queries ELSE {req[r].query}) \X {Head(todo[r])}
    /\ Go(r, "store")
    /\ UNCHANGED <<cache, req, todo, mode, quiet, work, resp>>

MutStore(r) ==  \* the entry loses the degraded mark
    /\ pc[r] = "store"
    /\ LET k == SearchKey(r)
           full == k \notin DOMAIN cache /\ Cardinality(DOMAIN cache) >= MaxEntries
       IN  \E kept \in IF full THEN {DOMAIN cache \ {v} : v \in DOMAIN cache} ELSE {DOMAIN cache} :
             cache' = [x \in kept \union {k} |->
                         IF x = k THEN [work[r] EXCEPT !.degraded = FALSE] ELSE cache[x]]
    /\ Accumulate(r, work[r])
    /\ UNCHANGED <<neg, req, mode, quiet>>

\* cacheAndBuildSearchResult; a full cache evicts an entry for a new key.
Store(r) ==
    /\ pc[r] = "store"
    /\ LET k == SearchKey(r)
           full == k \notin DOMAIN cache /\ Cardinality(DOMAIN cache) >= MaxEntries
       IN  \E kept \in IF full THEN {DOMAIN cache \ {v} : v \in DOMAIN cache} ELSE {DOMAIN cache} :
             cache' = [x \in kept \union {k} |-> IF x = k THEN work[r] ELSE cache[x]]
    /\ Accumulate(r, work[r])
    /\ UNCHANGED <<neg, req, mode, quiet>>

-----------------------------------------------------------------------------
(* The environment                                                         *)

\* An entry expires, is cleared, or of an old index version.
Drop(k) ==
    /\ k \in DOMAIN cache
    /\ cache' = [x \in DOMAIN cache \ {k} |-> cache[x]]
    /\ UNCHANGED <<neg, pc, req, todo, mode, quiet, work, resp>>

Forget(p) ==
    /\ p \in neg
    /\ neg' = neg \ {p}
    /\ UNCHANGED <<cache, pc, req, todo, mode, quiet, work, resp>>

\* What the searches of a request may come to.
BroadTargets(r) ==
    IF Head(todo[r]) = All THEN collectionsByTier(1) \union collectionsByTier(2)
    ELSE {Head(todo[r])}
BroadOutcomes(r) == [BroadTargets(r) -> Outcomes]
DeepOutcomes(r) == [DeepTargets(r) -> Outcomes]

Next ==
    \/ \E r \in Requests : \E s \in Shapes[r] : Arrive(r, s)
    \/ \E r \in Requests :
         \/ Probe(r) \/ DeepGate(r) \/ Lookup(r) \/ ConsultNegative(r)
         \/ Store(r) \/ Respond(r) \/ RespondError(r)
    \/ \E r \in Requests, flag \in BOOLEAN :
         \/ CheckOverload(r, flag) \/ CheckCritical(r, flag)
         \/ Resolve(r, flag) \/ Escalate(r, flag)
    \/ \E r \in Requests :
         /\ todo[r] # <<>>
         /\ \/ \E out \in BroadOutcomes(r) : RunBroad(r, out)
            \/ \E out \in BroadOutcomes(r), deepOut \in DeepOutcomes(r) : RunBoth(r, out, deepOut)
            \/ \E out \in DeepOutcomes(r) : RunDeepTier(r, out)
    \/ \E r \in Requests, cooldown \in BOOLEAN : MarkNegative(r, cooldown)
    \/ \E k \in DOMAIN cache : Drop(k)
    \/ \E p \in neg : Forget(p)

Spec == Init /\ [][Next]_vars

-----------------------------------------------------------------------------
(* Properties                                                              *)

Modes == {"none", "search", "vsearch", "query"}
Points == {"idle", "admit", "critical", "probe", "gate", "search", "resolve", "deep",
           "broad", "both", "escalate", "deepTier", "mark", "store"}
Results == [hits : SUBSET Names, mode : Modes, fallback : BOOLEAN, degraded : BOOLEAN,
            lost : BOOLEAN]
Responses == [status : {"none", "ok", "error", "shed"}, hits : SUBSET Names, mode : Modes,
              fallback : BOOLEAN, degraded : BOOLEAN, pre : BOOLEAN,
              served : {"none", "core", "broad", "deep"}, lost : BOOLEAN]
CacheKeys == [query : Queries, mode : {"search", "query", "auto"},
              collection : Names \union {All}, n : Nat, fallback : BOOLEAN,
              filesAll : BOOLEAN]

\* Type invariant; a request that runs qmd or stores a result has a collection to
\* do it for.
TypeOK ==
    /\ DOMAIN cache \subseteq CacheKeys
    /\ \A k \in DOMAIN cache : cache[k] \in Results
    /\ neg \subseteq Queries \X (Names \union {All})
    /\ pc \in [Requests -> Points]
    /\ req \in [Requests -> Shape]
    /\ todo \in [Requests -> Seq(Names \union {All})]
    /\ mode \in [Requests -> {"none", "search", "query", "auto"}]
    /\ quiet \in [Requests -> BOOLEAN]
    /\ work \in [Requests -> Results]
    /\ resp \in [Requests -> Responses]
    /\ \A r \in Requests : pc[r] \notin {"idle", "search"} => todo[r] # <<>>

\* The request s that comes to the orchestrator in mode m may use deep search: it
\* has not come down to plain search (it asked for core or broad, it met the
\* overload flag on admission, or the deep gate), qmd can do it, and the query is
\* within the limits of allowAutoDeepQuery.
DeepAllowed(s, m) == m # "search" /\ HasDeepQuery /\ s.query \in BudgetQueries

\* A request that may not use deep search runs none and is not answered with deep
\* results: an explicit deep request and an auto request, through mode resolution,
\* escalation and the deep gate, or through a cache entry of a request that could
\* go deep, though the cache key says nothing of disableDeepEscalation.  (The later
\* reads of the overload flag, in resolveMode and before an escalation, decide for
\* that moment only: the request may still go deep when the next one finds it off.)
DeepOnlyIfAllowed ==
    \A r \in Requests :
      \/ DeepAllowed(req[r], mode[r])
      \/ /\ pc[r] \notin {"both", "deepTier"}
         /\ resp[r].mode # "query" /\ resp[r].served # "deep"

Named(r) == {req[r].collections[i] : i \in DOMAIN req[r].collections}

\* The hits of a response come from the collections the request named or, if it
\* named none, from the tiers without require_explicit, and from tier 2 only if
\* the request allows fallback (collectionsByTier, searchPrimaryWithTierFallback),
\* whoever filled the cache.
ScopeRespected ==
    \A r \in Requests :
      resp[r].hits \subseteq
        IF Named(r) # {} THEN Named(r)
        ELSE IF req[r].fallback THEN collectionsByTier(1) \union collectionsByTier(2)
        ELSE collectionsByTier(1)

\* When a deep search was due and failed, found nothing or was skipped by the
\* negative cache, the response says it is degraded: in the request it happened
\* to, among several collections, and in every request served from the entry.
\* (Other losses are none here, as the code does not report them: a deep search of
\* tier 1 that failed for some collections, the error of one named collection
\* among several, and an auto request that the overload flag sends to plain search
\* in resolveMode.)
LossIsReported ==
    \A r \in Requests : resp[r].lost => resp[r].degraded

\* README: a collection with safety_prompt requires confirm=true; the confirmation
\* test expects FAILED_PRECONDITION without it.
ConfirmRequired ==
    \A r \in Requests :
      resp[r].hits \intersect RequireExplicit \intersect SafetyPrompt # {} => req[r].confirm
=============================================================================
