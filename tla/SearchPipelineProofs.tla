------------------------ MODULE SearchPipelineProofs ------------------------
(***************************************************************************)
(* Search requests of any number and shape, over any collections: the      *)
(* types, and what a response may hold.  The invariant behind the three    *)
(* promises is that each cache entry answers its key, whoever stored it,   *)
(* and that a result in the making answers the request it is made for.     *)
(***************************************************************************)
EXTENDS SearchPipeline, SequenceTheorems, TLAPS

-----------------------------------------------------------------------------
(* The invariant                                                           *)

\* The collections that a search of the collection c may bring hits from.
Reach(c, fallback) ==
    IF c # All THEN {c}
    ELSE IF fallback THEN collectionsByTier(1) \union collectionsByTier(2)
    ELSE collectionsByTier(1)

\* What a request asks to be searched: the collections it names, or all.
Asked(q) == IF q.collections = <<>> THEN {All}
            ELSE {q.collections[i] : i \in DOMAIN q.collections}

\* Where the hits of its response may come from.
Scope(q) == UNION {Reach(c, q.fallback) : c \in Asked(q)}

\* The result e answers every request that looks under the key k.
Answers(k, e) ==
    /\ e.hits \subseteq Reach(k.collection, k.fallback)
    /\ ~DeepAllowed(k, k.mode) => e.mode # "query"
    /\ e.lost => e.degraded

\* Points with a result in the making, and points before the first search.
Running == {"deep", "broad", "both", "escalate", "deepTier", "mark", "store"}
Before == {"admit", "critical", "probe", "gate"}

\* Only what the request q asked for is searched; plain search never escalates.
PlanOK(q, t, m, u) ==
    /\ \A i \in DOMAIN t : t[i] \in Asked(q)
    /\ m = "search" => u

\* The result w in the making answers the search at hand.
WorkOK(p, q, t, m, w) ==
    /\ p \notin Running => w = NoResult
    /\ p \in Running => w.hits \subseteq Reach(Head(t), q.fallback)
    /\ ~DeepAllowed(q, m) => w.mode # "query" /\ p \notin {"deep", "both", "deepTier", "mark"}
    /\ w.lost => w.degraded

\* The response a in the making keeps the promises so far.
ResponseOK(p, q, m, a) ==
    /\ p \in Before => a.mode = "none" /\ a.served = "none"
    /\ a.hits \subseteq Scope(q)
    /\ ~DeepAllowed(q, m) => a.mode # "query" /\ a.served # "deep"
    /\ a.lost => a.degraded

\* Only a deep request has the mode query, and behind the gate its query is within
\* the limits.
GateOK(p, q, m) ==
    /\ m = "query" => q.requested = "deep" /\ q.fallback
    /\ (m = "query" /\ p \notin Before \union {"idle"}) => q.query \in BudgetQueries

\* The state of one request: its point, shape, list, mode, quiet flag, result, response.
RequestOK(p, q, t, m, u, w, a) ==
    /\ PlanOK(q, t, m, u) /\ WorkOK(p, q, t, m, w) /\ ResponseOK(p, q, m, a)
    /\ GateOK(p, q, m)

\* A request that runs has a mode.
TypeInv == TypeOK /\ \A r \in Requests : pc[r] # "idle" => mode[r] # "none"

CacheOK ==
    /\ DOMAIN cache \subseteq CacheKeys
    /\ \A k \in DOMAIN cache : cache[k] \in Results /\ Answers(k, cache[k])

RequestsOK ==
    \A x \in Requests :
      RequestOK(pc[x], req[x], todo[x], mode[x], quiet[x], work[x], resp[x])

\* The inductive invariant.
Inv == TypeInv /\ CacheOK /\ RequestsOK

-----------------------------------------------------------------------------
(* Types                                                                   *)

\* A response without any hits, and a result that is none yet, are well typed.
LEMMA NothingType == NoResult \in Results /\ NoResponse \in Responses
BY DEF NoResult, NoResponse, Result, Results, Responses, Modes

\* Joining a result to a response gives a response (executeSearchCore).
LEMMA JoinedType ==
    ASSUME NEW p \in Responses, NEW e \in Results PROVE Joined(p, e) \in Responses
<1>1. /\ (p.fallback \/ e.fallback) \in BOOLEAN /\ (p.degraded \/ e.degraded) \in BOOLEAN
      /\ (p.lost \/ e.lost) \in BOOLEAN
  BY Zenon
<1>2. p.hits \in SUBSET Names /\ e.hits \in SUBSET Names /\ p.mode \in Modes /\ e.mode \in Modes
  BY DEF Responses, Results
<1>3. /\ p.hits \union e.hits \in SUBSET Names
      /\ (IF e.mode = "query" \/ p.mode = "none" THEN e.mode ELSE p.mode) \in Modes
  BY <1>2
<1> QED
  BY <1>1, <1>3 DEF Joined, Responses

\* deriveServedMode answers with one of the three modes.
LEMMA ServedType ==
    ASSUME NEW q, NEW m, NEW f \in BOOLEAN, NEW d \in BOOLEAN
    PROVE  deriveServedMode(q, m, f, d) \in {"core", "broad", "deep"}
BY DEF deriveServedMode

\* The complete response is well typed (executeSearchCore).
LEMMA CompletedType ==
    ASSUME NEW p \in Responses, NEW q, NEW capped \in BOOLEAN
    PROVE  Completed(p, q, capped) \in Responses
<1>1. p.fallback \in BOOLEAN /\ p.degraded \in BOOLEAN
  BY DEF Responses
<1>2. deriveServedMode(q, p.mode, p.fallback, p.degraded) \in {"core", "broad", "deep"}
  BY <1>1, ServedType
<1> QED
  BY <1>2 DEF Completed, Responses

\* resolveMode gives a mode that qmd has.
LEMMA ResolveType ==
    ASSUME NEW m \in {"search", "query", "auto"}, NEW q, NEW o \in BOOLEAN
    PROVE  resolveMode(m, q, o) \in {"search", "vsearch", "query"}
BY DEF resolveMode, DetectMode

\* What a broad search ends with is a result over the names (searchPrimaryWithTierFallback).
LEMMA BroadType ==
    ASSUME TypeOK, NEW r \in Requests, todo[r] # <<>>, NEW m \in Modes,
           NEW d \in BOOLEAN, NEW l \in BOOLEAN, NEW out
    PROVE  Broad(r, m, d, l, out) \in Results
<1>1. Head(todo[r]) \in Names \union {All}
  BY DEF TypeOK
<1>2. Tier1 \subseteq Names /\ Tier2 \subseteq Names
  BY PipelineAssumption
<1> QED
  BY <1>1, <1>2 DEF Broad, Result, Results, With, collectionsByTier

\* The keys of the cache: a request that runs has a query, a mode and a collection
\* at hand (MakeCacheKey).
LEMMA KeyType ==
    ASSUME TypeInv, NEW r \in Requests, pc[r] # "idle", todo[r] # <<>>
    PROVE  SearchKey(r) \in CacheKeys
<1>1. /\ req[r].query \in Queries /\ req[r].fallback \in BOOLEAN
      /\ req[r].filesAll \in BOOLEAN /\ req[r].topK \in Nat
  BY DEF TypeInv, TypeOK, Shape
<1>2. mode[r] \in {"search", "query", "auto"} /\ Head(todo[r]) \in Names \union {All}
  BY DEF TypeInv, TypeOK
<1>3. CoreN(req[r]) \in Nat /\ TopK \in Nat
  BY <1>1, PipelineAssumption DEF CoreN
<1> DEFINE n == IF CoreN(req[r]) > 0 THEN CoreN(req[r]) ELSE TopK
<1>4. n \in Nat
  BY <1>3
<1> HIDE DEF n
<1>5. MakeCacheKey(r, n) \in CacheKeys
  BY <1>1, <1>2, <1>4 DEF MakeCacheKey, CacheKeys
<1> QED
  BY <1>5 DEF SearchKey, n

\* Requests start without a result, a response or a mode (Init).
LEMMA InitTypeInv == Init => TypeInv
<1> SUFFICES ASSUME Init PROVE TypeInv
  OBVIOUS
<1>1. \A r \in Requests : (CHOOSE s \in Shapes[r] : TRUE) \in Shape
  BY PipelineAssumption
<1>2. req \in [Requests -> Shape]
  BY <1>1 DEF Init
<1>3. quiet \in [Requests -> BOOLEAN]
  BY Zenon DEF Init
<1>4. work \in [Requests -> Results] /\ resp \in [Requests -> Responses]
  BY NothingType DEF Init
<1>5. DOMAIN cache = {}
  BY DEF Init
<1>6. /\ neg = {} /\ pc = [r \in Requests |-> "idle"] /\ mode = [r \in Requests |-> "none"]
      /\ todo = [r \in Requests |-> <<>>]
  BY DEF Init
<1> QED
  BY <1>2, <1>3, <1>4, <1>5, <1>6 DEF TypeInv, TypeOK, Points

\* A client's request is taken as it is, but for its permission to fall back, and
\* has something to search (SearchRequest to core).
LEMMA ArriveType ==
    ASSUME TypeInv, NEW r \in Requests, NEW s \in Shapes[r], Arrive(r, s) PROVE TypeInv'
<1>1. s \in Shape
  BY PipelineAssumption
<1>2. allowFallbackFromProto(s) \in BOOLEAN
  BY <1>1, PipelineAssumption, Zenon DEF allowFallbackFromProto
<1>3. [s EXCEPT !.fallback = allowFallbackFromProto(s)] \in Shape
  BY <1>1, <1>2 DEF Shape
<1>4. req' \in [Requests -> Shape]
  BY <1>3 DEF Arrive, TypeInv, TypeOK
<1>5. ToSearch(s) \in Seq(Names \union {All}) /\ ToSearch(s) # <<>>
  <2>1. s.collections \in Seq(Names)
    BY <1>1 DEF Shape
  <2>2. s.collections \in Seq(Names \union {All})
    BY <2>1, SeqDef
  <2>3. <<All>> \in Seq(Names \union {All}) /\ <<All>> # <<>>
    OBVIOUS
  <2> QED BY <2>2, <2>3 DEF ToSearch
<1>6. /\ todo' \in [Requests -> Seq(Names \union {All})] /\ todo'[r] # <<>>
      /\ \A x \in Requests \ {r} : todo'[x] = todo[x]
  BY <1>5 DEF Arrive, TypeInv, TypeOK
<1>7. requestedModeToOrchestratorMode(s.requested) \in {"search", "query", "auto"}
  BY DEF requestedModeToOrchestratorMode
<1>8. /\ mode' \in [Requests -> {"none", "search", "query", "auto"}] /\ mode'[r] # "none"
      /\ \A x \in Requests \ {r} : mode'[x] = mode[x]
  BY <1>7 DEF Arrive, TypeInv, TypeOK
<1>9. quiet' \in [Requests -> BOOLEAN]
  <2>1. (s.requested \in {"core", "broad"}) \in BOOLEAN
    OBVIOUS
  <2> QED BY <2>1 DEF Arrive, TypeInv, TypeOK
<1>10. resp' \in [Requests -> Responses]
  BY NothingType DEF Arrive, TypeInv, TypeOK
<1>11. /\ pc' \in [Requests -> Points] /\ pc'[r] = "admit"
       /\ \A x \in Requests \ {r} : pc'[x] = pc[x]
  BY DEF Arrive, Go, TypeInv, TypeOK, Points
<1>12. UNCHANGED <<cache, neg, work>>
  BY DEF Arrive
<1> QED
  BY <1>4, <1>6, <1>8, <1>9, <1>10, <1>11, <1>12 DEF TypeInv, TypeOK

\* Marking a response as degraded beforehand keeps it well typed (preDegraded).
LEMMA PreType ==
    ASSUME NEW p \in Responses, NEW b \in BOOLEAN
    PROVE  [p EXCEPT !.pre = @ \/ b] \in Responses
<1>1. (p.pre \/ b) \in BOOLEAN
  BY Zenon
<1> QED
  BY <1>1 DEF Responses

-----------------------------------------------------------------------------
(* A step of one request                                                   *)

\* Request r goes to the point p with the list t, the result w and the response a.
Step(r, p, t, w, a) ==
    /\ pc' = [pc EXCEPT ![r] = p] /\ todo' = [todo EXCEPT ![r] = t]
    /\ work' = [work EXCEPT ![r] = w] /\ resp' = [resp EXCEPT ![r] = a]
    /\ UNCHANGED <<req, mode, quiet>>

\* An entry set to its own value changes nothing.
LEMMA SameEntry ==
    ASSUME NEW D, NEW R, NEW f \in [D -> R], NEW d \in D
    PROVE  f = [f EXCEPT ![d] = f[d]]
OBVIOUS

\* What a request that runs can rely on.
LEMMA Facts ==
    ASSUME Inv, NEW r \in Requests
    PROVE  /\ req[r] \in Shape /\ req[r].fallback \in BOOLEAN
           /\ todo[r] \in Seq(Names \union {All})
           /\ work[r] \in Results /\ resp[r] \in Responses
           /\ pc[r] \in Points
           /\ RequestOK(pc[r], req[r], todo[r], mode[r], quiet[r], work[r], resp[r])
           /\ todo = [todo EXCEPT ![r] = todo[r]] /\ work = [work EXCEPT ![r] = work[r]]
           /\ resp = [resp EXCEPT ![r] = resp[r]]
           /\ CacheOK /\ TypeInv /\ TypeOK
<1>1. TypeOK /\ TypeInv /\ CacheOK /\ RequestsOK
  BY DEF Inv, TypeInv
<1>2. /\ req[r] \in Shape /\ todo[r] \in Seq(Names \union {All}) /\ pc[r] \in Points
      /\ work[r] \in Results /\ resp[r] \in Responses
  BY <1>1 DEF TypeOK
<1>3. req[r].fallback \in BOOLEAN
  BY <1>2 DEF Shape
<1>4. /\ todo = [todo EXCEPT ![r] = todo[r]] /\ work = [work EXCEPT ![r] = work[r]]
      /\ resp = [resp EXCEPT ![r] = resp[r]]
  <2>1. /\ todo \in [Requests -> Seq(Names \union {All})]
        /\ work \in [Requests -> Results] /\ resp \in [Requests -> Responses]
    BY <1>1 DEF TypeOK
  <2> QED BY <2>1, SameEntry, Zenon
<1>5. RequestOK(pc[r], req[r], todo[r], mode[r], quiet[r], work[r], resp[r])
  BY <1>1 DEF RequestsOK
<1> QED
  BY <1>1, <1>2, <1>3, <1>4, <1>5

\* A step that leaves its request well typed and right, and the caches too, keeps the
\* invariant: it touches no other request.
LEMMA StepInv ==
    ASSUME Inv, NEW r \in Requests, NEW p \in Points, NEW t \in Seq(Names \union {All}),
           NEW w \in Results, NEW a \in Responses, Step(r, p, t, w, a), pc[r] # "idle",
           p \notin {"idle", "search"} => t # <<>>,
           RequestOK(p, req[r], t, mode[r], quiet[r], w, a),
           CacheOK', neg' \subseteq Queries \X (Names \union {All})
    PROVE  Inv'
<1>1. TypeOK /\ TypeInv /\ RequestsOK
  BY DEF Inv, TypeInv
<1>2. /\ pc' \in [Requests -> Points] /\ todo' \in [Requests -> Seq(Names \union {All})]
      /\ work' \in [Requests -> Results] /\ resp' \in [Requests -> Responses]
      /\ pc'[r] = p /\ todo'[r] = t /\ work'[r] = w /\ resp'[r] = a
      /\ \A x \in Requests \ {r} : /\ pc'[x] = pc[x] /\ todo'[x] = todo[x]
                                   /\ work'[x] = work[x] /\ resp'[x] = resp[x]
  BY <1>1 DEF Step, TypeOK
<1>3. req' = req /\ mode' = mode /\ quiet' = quiet
  BY DEF Step
<1>4. \A x \in Requests : pc'[x] \notin {"idle", "search"} => todo'[x] # <<>>
  BY <1>1, <1>2 DEF TypeOK
<1>5. \A x \in Requests : pc'[x] # "idle" => mode'[x] # "none"
  BY <1>1, <1>2, <1>3 DEF TypeInv
<1>6. DOMAIN cache' \subseteq CacheKeys /\ \A k \in DOMAIN cache' : cache'[k] \in Results
  BY DEF CacheOK
<1>7. TypeOK'
  <2>1. /\ req' \in [Requests -> Shape]
        /\ mode' \in [Requests -> {"none", "search", "query", "auto"}]
        /\ quiet' \in [Requests -> BOOLEAN]
    BY <1>1, <1>3 DEF TypeOK
  <2> QED BY <2>1, <1>2, <1>4, <1>6, Zenon DEF TypeOK
<1>8. TypeInv'
  BY <1>7, <1>5, Zenon DEF TypeInv
<1>9. RequestsOK'
  <2> SUFFICES ASSUME NEW x \in Requests
               PROVE  RequestOK(pc'[x], req'[x], todo'[x], mode'[x], quiet'[x], work'[x], resp'[x])
    BY Zenon DEF RequestsOK
  <2>1. CASE x = r
    BY <2>1, <1>2, <1>3, Zenon
  <2>2. CASE x # r
    <3>1. RequestOK(pc[x], req[x], todo[x], mode[x], quiet[x], work[x], resp[x])
      BY <1>1, Zenon DEF RequestsOK
    <3>2. x \in Requests \ {r}
      BY <2>2
    <3> QED BY <3>1, <3>2, <1>2, <1>3, Zenon
  <2> QED BY <2>1, <2>2
<1> QED
  BY <1>8, <1>9, Zenon DEF Inv

\* A step that leaves the caches alone leaves them right.
LEMMA KeepCaches ==
    ASSUME Inv, UNCHANGED <<cache, neg>>
    PROVE  CacheOK' /\ neg' \subseteq Queries \X (Names \union {All})
<1>1. CacheOK /\ neg \subseteq Queries \X (Names \union {All})
  BY DEF Inv, TypeInv, TypeOK
<1> QED
  BY <1>1, Zenon DEF CacheOK

-----------------------------------------------------------------------------
(* Data                                                                    *)

\* The collection at hand is one the request asked for, so are the ones after it.
LEMMA ListFacts ==
    ASSUME NEW q, NEW t \in Seq(Names \union {All}), t # <<>>,
           \A i \in DOMAIN t : t[i] \in Asked(q)
    PROVE  /\ Head(t) \in Asked(q) /\ Head(t) \in Names \union {All}
           /\ Tail(t) \in Seq(Names \union {All})
           /\ \A i \in DOMAIN Tail(t) : Tail(t)[i] \in Asked(q)
<1>1. Len(t) \in Nat \ {0} /\ DOMAIN t = 1..Len(t)
  BY EmptySeq, LenProperties
<1>2. Head(t) = t[1] /\ 1 \in DOMAIN t
  BY <1>1
<1>3. /\ Tail(t) \in Seq(Names \union {All}) /\ Len(Tail(t)) = Len(t) - 1
      /\ \A i \in 1..Len(Tail(t)) : Tail(t)[i] = t[i + 1]
  BY HeadTailProperties
<1>4. DOMAIN Tail(t) = 1..(Len(t) - 1)
  BY <1>3, LenProperties
<1>5. \A i \in DOMAIN Tail(t) : Tail(t)[i] \in Asked(q)
  <2> SUFFICES ASSUME NEW i \in DOMAIN Tail(t) PROVE Tail(t)[i] \in Asked(q)
    OBVIOUS
  <2>1. i + 1 \in DOMAIN t /\ Tail(t)[i] = t[i + 1]
    BY <1>1, <1>3, <1>4
  <2> QED BY <2>1
<1> QED
  BY <1>2, <1>3, <1>5

\* A list of several collections has more after the first.
LEMMA TailNotEmpty ==
    ASSUME NEW S, NEW t \in Seq(S), t # <<>>, Len(t) # 1 PROVE Tail(t) # <<>>
<1> DEFINE v == Tail(t)
<1>1. Len(t) \in Nat \ {0} /\ Len(v) = Len(t) - 1
  BY EmptySeq, HeadTailProperties
<1> HIDE DEF v
<1>2. Len(v) # 0
  BY <1>1
<1>3. v # <<>>
  BY <1>2
<1> QED
  BY <1>3 DEF v

\* What a search asked for reaches is within the scope of the request.
LEMMA ReachInScope ==
    ASSUME NEW q, NEW c \in Asked(q) PROVE Reach(c, q.fallback) \subseteq Scope(q)
BY Zenon DEF Scope

\* What joining a result does to what the promises are about (executeSearchCore).
LEMMA JoinedFacts ==
    ASSUME NEW p \in Responses, NEW e \in Results
    PROVE  /\ Joined(p, e).hits = p.hits \union e.hits
           /\ Joined(p, e).mode = "query" => p.mode = "query" \/ e.mode = "query"
           /\ Joined(p, e).served = p.served
           /\ Joined(p, e).lost <=> p.lost \/ e.lost
           /\ Joined(p, e).degraded <=> p.degraded \/ e.degraded
BY DEF Joined, Responses, Results

\* What completing a response does to it.
LEMMA CompletedFacts ==
    ASSUME NEW p \in Responses, NEW q, NEW capped \in BOOLEAN
    PROVE  /\ Completed(p, q, capped).hits = p.hits
           /\ Completed(p, q, capped).mode = p.mode
           /\ p.mode # "query" => Completed(p, q, capped).served # "deep"
           /\ Completed(p, q, capped).lost = p.lost
           /\ p.degraded => Completed(p, q, capped).degraded
<1>1. p.mode # "query" => deriveServedMode(q, p.mode, p.fallback, p.degraded) # "deep"
  BY DEF deriveServedMode
<1> QED
  BY <1>1 DEF Completed, Responses

\* The hits of a broad search are within reach of its collection, and its other fields
\* are as given.
LEMMA BroadFacts ==
    ASSUME NEW r, NEW m, NEW d, NEW l, NEW out
    PROVE  /\ Broad(r, m, d, l, out).hits \subseteq Reach(Head(todo[r]), req[r].fallback)
           /\ Broad(r, m, d, l, out).mode = m /\ Broad(r, m, d, l, out).degraded = d
           /\ Broad(r, m, d, l, out).lost = l
BY DEF Broad, Result, With, Reach

\* A deep search stays within reach, too.
LEMMA DeepFacts ==
    ASSUME NEW r, NEW out
    PROVE  With(out, DeepTargets(r), "hits") \subseteq Reach(Head(todo[r]), req[r].fallback)
BY DEF With, DeepTargets, Reach

\* Deep search is resolved only where it is allowed: plain search stays plain search,
\* a deep request is behind the gate, and an auto request asks for the limits.
LEMMA ResolveAllowed ==
    ASSUME NEW s, NEW m, NEW o \in BOOLEAN, m = "query" => s.query \in BudgetQueries,
           resolveMode(m, s.query, o) = "query"
    PROVE  DeepAllowed(s, m)
BY DEF resolveMode, DetectMode, DeepAllowed

-----------------------------------------------------------------------------
(* The loop over the collections                                           *)

\* Joining a result that answers the search at hand keeps the invariant.
LEMMA AccumulateInv ==
    ASSUME Inv, NEW r \in Requests, todo[r] # <<>>, pc[r] # "idle", pc[r] \notin Before,
           NEW e \in Results, Accumulate(r, e),
           e.hits \subseteq Reach(Head(todo[r]), req[r].fallback),
           ~DeepAllowed(req[r], mode[r]) => e.mode # "query", e.lost => e.degraded,
           UNCHANGED <<neg, req, mode, quiet>>, CacheOK'
    PROVE  Inv'
<1> DEFINE t == Tail(todo[r])
           a == Joined(resp[r], e)
<1>1. /\ RequestOK(pc[r], req[r], todo[r], mode[r], quiet[r], work[r], resp[r])
      /\ todo[r] \in Seq(Names \union {All}) /\ resp[r] \in Responses
  BY Facts
<1>2. Step(r, "search", t, NoResult, a)
  BY DEF Accumulate, Step, Go
<1>3. /\ Head(todo[r]) \in Asked(req[r]) /\ t \in Seq(Names \union {All})
      /\ \A i \in DOMAIN t : t[i] \in Asked(req[r])
  BY <1>1, ListFacts DEF RequestOK, PlanOK
<1>4. e.hits \subseteq Scope(req[r])
  BY <1>3, ReachInScope
<1>5. a \in Responses /\ NoResult \in Results
  BY <1>1, JoinedType, NothingType
<1>6. PlanOK(req[r], t, mode[r], quiet[r])
  BY <1>1, <1>3 DEF RequestOK, PlanOK
<1>7. WorkOK("search", req[r], t, mode[r], NoResult)
  BY DEF WorkOK, NoResult, Result, Running
<1>8. ResponseOK("search", req[r], mode[r], a)
  <2>1. ResponseOK(pc[r], req[r], mode[r], resp[r])
    BY <1>1 DEF RequestOK
  <2>2. /\ a.hits = resp[r].hits \union e.hits
        /\ a.mode = "query" => resp[r].mode = "query" \/ e.mode = "query"
        /\ a.served = resp[r].served
        /\ a.lost <=> resp[r].lost \/ e.lost
        /\ a.degraded <=> resp[r].degraded \/ e.degraded
    BY <1>1, JoinedFacts
  <2> HIDE DEF a
  <2> QED BY <2>1, <2>2, <1>4 DEF ResponseOK, Before
<1>9. RequestOK("search", req[r], t, mode[r], quiet[r], NoResult, a)
  BY <1>1, <1>6, <1>7, <1>8 DEF RequestOK, GateOK
<1>10. neg' \subseteq Queries \X (Names \union {All})
  BY DEF Inv, TypeInv, TypeOK
<1> HIDE DEF t, a
<1> QED
  BY <1>2, <1>3, <1>5, <1>9, <1>10, StepInv DEF Points

\* So does an error of one search.
LEMMA AccumulateErrorInv ==
    ASSUME Inv, NEW r \in Requests, todo[r] # <<>>, pc[r] # "idle", pc[r] \notin Before,
           AccumulateError(r), UNCHANGED <<cache, neg, req, mode, quiet>>
    PROVE  Inv'
<1> DEFINE t == Tail(todo[r])
           a == [resp[r] EXCEPT !.status = IF @ = "ok" THEN @ ELSE "error"]
<1>1. /\ RequestOK(pc[r], req[r], todo[r], mode[r], quiet[r], work[r], resp[r])
      /\ todo[r] \in Seq(Names \union {All}) /\ resp[r] \in Responses
  BY Facts
<1>2. Step(r, "search", t, NoResult, a)
  BY DEF AccumulateError, Step, Go
<1>3. /\ t \in Seq(Names \union {All})
      /\ \A i \in DOMAIN t : t[i] \in Asked(req[r])
  BY <1>1, ListFacts DEF RequestOK, PlanOK
<1>5. /\ a \in Responses /\ NoResult \in Results
      /\ a.hits = resp[r].hits /\ a.mode = resp[r].mode /\ a.served = resp[r].served
      /\ a.lost = resp[r].lost /\ a.degraded = resp[r].degraded
  BY <1>1, NothingType DEF Responses
<1>6. PlanOK(req[r], t, mode[r], quiet[r])
  BY <1>1, <1>3 DEF RequestOK, PlanOK
<1>7. WorkOK("search", req[r], t, mode[r], NoResult)
  BY DEF WorkOK, NoResult, Result, Running
<1> HIDE DEF t, a
<1>8. ResponseOK("search", req[r], mode[r], a)
  BY <1>1, <1>5 DEF RequestOK, ResponseOK, Before
<1>9. RequestOK("search", req[r], t, mode[r], quiet[r], NoResult, a)
  BY <1>1, <1>6, <1>7, <1>8 DEF RequestOK, GateOK
<1> QED
  BY <1>2, <1>3, <1>5, <1>9, StepInv, KeepCaches DEF Points

\* A cached result answers the request that finds it: the key carries the mode, the
\* collection and the permission to fall back (Search, cache hit).
LEMMA LookupInv == ASSUME Inv, NEW r \in Requests, Lookup(r) PROVE Inv'
<1>1. pc[r] = "search" /\ todo[r] # <<>> /\ UNCHANGED <<cache, neg, req, mode, quiet>>
  BY DEF Lookup
<1>2. CASE SearchKey(r) \in DOMAIN cache
  <2> DEFINE k == SearchKey(r)
  <2>1. /\ k.collection = Head(todo[r]) /\ k.fallback = req[r].fallback
        /\ DeepAllowed(k, k.mode) <=> DeepAllowed(req[r], mode[r])
    BY DEF SearchKey, MakeCacheKey, DeepAllowed
  <2>2. cache[k] \in Results /\ Answers(k, cache[k])
    BY <1>2, Facts DEF CacheOK
  <2>3. Accumulate(r, cache[k])
    BY <1>2 DEF Lookup
  <2> HIDE DEF k
  <2>4. /\ cache[k].hits \subseteq Reach(Head(todo[r]), req[r].fallback)
        /\ ~DeepAllowed(req[r], mode[r]) => cache[k].mode # "query"
        /\ cache[k].lost => cache[k].degraded
    BY <2>1, <2>2 DEF Answers
  <2>5. CacheOK'
    BY <1>1, KeepCaches
  <2> QED BY <1>1, <2>2, <2>3, <2>4, <2>5, AccumulateInv DEF Before
<1>3. CASE SearchKey(r) \notin DOMAIN cache
  <2>1. Step(r, "resolve", todo[r], work[r], resp[r])
    BY <1>1, <1>3, Facts DEF Lookup, Step, Go
  <2>2. RequestOK("resolve", req[r], todo[r], mode[r], quiet[r], work[r], resp[r])
    BY <1>1, Facts DEF RequestOK, WorkOK, ResponseOK, GateOK, Running, Before
  <2> QED BY <1>1, <2>1, <2>2, Facts, StepInv, KeepCaches DEF Points
<1> QED
  BY <1>2, <1>3

\* The complete response keeps the promises (the end of executeSearchCore).
LEMMA RespondInv == ASSUME Inv, NEW r \in Requests, Respond(r) PROVE Inv'
<1>1. /\ pc[r] = "search" /\ Go(r, "idle")
      /\ UNCHANGED <<cache, neg, req, todo, mode, quiet, work>>
  BY DEF Respond
<1>2. PICK capped \in BOOLEAN :
        resp' = [resp EXCEPT ![r] = Completed(resp[r], req[r].requested, capped)]
  BY DEF Respond
<1> DEFINE a == Completed(resp[r], req[r].requested, capped)
<1>3. Step(r, "idle", todo[r], work[r], a)
  BY <1>1, <1>2, Facts DEF Step, Go
<1>4. /\ a \in Responses /\ a.hits = resp[r].hits /\ a.mode = resp[r].mode
      /\ resp[r].mode # "query" => a.served # "deep"
      /\ a.lost = resp[r].lost
      /\ resp[r].degraded => a.degraded
  BY Facts, CompletedType, CompletedFacts
<1> HIDE DEF a
<1>5. RequestOK("idle", req[r], todo[r], mode[r], quiet[r], work[r], a)
  <2>1. RequestOK("search", req[r], todo[r], mode[r], quiet[r], work[r], resp[r])
    BY <1>1, Facts
  <2>2. WorkOK("idle", req[r], todo[r], mode[r], work[r])
    BY <2>1 DEF RequestOK, WorkOK, Running
  <2>3. ResponseOK("idle", req[r], mode[r], a)
    BY <2>1, <1>4 DEF RequestOK, ResponseOK, Before
  <2> QED BY <2>1, <2>2, <2>3 DEF RequestOK, GateOK
<1> QED
  BY <1>1, <1>3, <1>4, <1>5, Facts, StepInv, KeepCaches DEF Points

\* An error for an answer changes nothing else.
LEMMA RespondErrorInv == ASSUME Inv, NEW r \in Requests, RespondError(r) PROVE Inv'
<1>1. /\ pc[r] = "search" /\ Go(r, "idle")
      /\ UNCHANGED <<cache, neg, req, todo, mode, quiet, work, resp>>
  BY DEF RespondError
<1>2. Step(r, "idle", todo[r], work[r], resp[r])
  BY <1>1, Facts DEF Step, Go
<1>3. RequestOK("idle", req[r], todo[r], mode[r], quiet[r], work[r], resp[r])
  BY <1>1, Facts DEF RequestOK, WorkOK, ResponseOK, GateOK, Running, Before
<1> QED
  BY <1>1, <1>2, <1>3, Facts, StepInv, KeepCaches DEF Points

-----------------------------------------------------------------------------
(* The searches of the orchestrator                                        *)

\* A step that changes only the point and the result of a request.
LEMMA WorkStepInv ==
    ASSUME Inv, NEW r \in Requests, NEW p \in Running, NEW w \in Results,
           pc[r] \in Running \union {"resolve"}, Go(r, p), work' = [work EXCEPT ![r] = w],
           WorkOK(p, req[r], todo[r], mode[r], w),
           UNCHANGED <<cache, neg, req, todo, mode, quiet, resp>>
    PROVE  Inv'
<1>1. Step(r, p, todo[r], w, resp[r])
  BY Facts DEF Step, Go
<1>2. RequestOK(p, req[r], todo[r], mode[r], quiet[r], w, resp[r])
  <2>1. RequestOK(pc[r], req[r], todo[r], mode[r], quiet[r], work[r], resp[r])
    BY Facts
  <2>2. p \notin Before /\ pc[r] \notin Before \union {"idle"}
    BY DEF Running, Before
  <2> QED BY <2>1, <2>2 DEF RequestOK, ResponseOK, GateOK
<1>3. p \in Points /\ pc[r] # "idle" /\ todo[r] # <<>>
  <2>1. p \in Points /\ pc[r] \notin {"idle", "search"}
    BY DEF Running, Points
  <2> QED BY <2>1, Facts DEF TypeOK
<1> QED
  BY <1>1, <1>2, <1>3, Facts, StepInv, KeepCaches

\* The mode is decided once per search; plain search is never turned into a deep one
\* (resolveMode and the confirmation gate).
LEMMA ResolveInv ==
    ASSUME Inv, NEW r \in Requests, NEW o \in BOOLEAN, Resolve(r, o) PROVE Inv'
<1>1. pc[r] = "resolve" /\ UNCHANGED <<cache, neg, req, mode, quiet>>
  BY DEF Resolve
<1>2. todo[r] # <<>>
  BY <1>1, Facts DEF TypeOK
<1>3. CASE Refused(r)
  BY <1>1, <1>2, <1>3, AccumulateErrorInv DEF Resolve, Before
<1>4. CASE ~Refused(r)
  <2> DEFINE m == resolveMode(mode[r], req[r].query, o)
             w == [work[r] EXCEPT !.mode = m]
             p == IF m = "query" THEN "deep" ELSE "broad"
  <2>1. Go(r, p) /\ work' = [work EXCEPT ![r] = w] /\ UNCHANGED <<todo, resp>>
    BY <1>4 DEF Resolve
  <2>2. m \in {"search", "vsearch", "query"}
    <3>1. mode[r] \in {"search", "query", "auto"}
      BY <1>1, Facts DEF TypeInv, TypeOK
    <3> QED BY <3>1, ResolveType
  <2>3. ~DeepAllowed(req[r], mode[r]) => m # "query"
    <3>1. mode[r] = "query" => req[r].query \in BudgetQueries
      BY <1>1, Facts DEF RequestOK, GateOK, Before
    <3> QED BY <3>1, ResolveAllowed
  <2>4. work[r] = NoResult
    BY <1>1, Facts DEF RequestOK, WorkOK, Running
  <2> HIDE DEF m
  <2>5. w \in Results
    BY <2>2, Facts DEF Results, Modes
  <2>6. w.hits = {} /\ w.mode = m /\ w.lost = FALSE
    BY <2>4 DEF NoResult, Result
  <2>7. p \in Running
    BY DEF Running
  <2>8. WorkOK(p, req[r], todo[r], mode[r], w)
    BY <2>3, <2>6, <2>7 DEF WorkOK
  <2> HIDE DEF w, p
  <2> QED BY <1>1, <2>1, <2>5, <2>7, <2>8, WorkStepInv
<1> QED
  BY <1>3, <1>4

\* A broad search stays in reach and in its mode (searchPrimaryWithTierFallback).
LEMMA RunBroadInv ==
    ASSUME Inv, NEW r \in Requests, NEW out, todo[r] # <<>>, RunBroad(r, out) PROVE Inv'
<1>1. pc[r] = "broad" /\ UNCHANGED <<cache, neg, req, mode, quiet>>
  BY DEF RunBroad
<1> DEFINE failed == Head(todo[r]) # All /\ ~work[r].degraded /\ out[Head(todo[r])] = "error"
<1>2. CASE failed
  BY <1>1, <1>2, AccumulateErrorInv DEF RunBroad, Before
<1>3. CASE ~failed
  <2> DEFINE w == Broad(r, work[r].mode, work[r].degraded, work[r].lost, out)
             p == IF Head(todo[r]) # All \/ work[r].degraded THEN "store" ELSE "escalate"
  <2>1. Go(r, p) /\ work' = [work EXCEPT ![r] = w] /\ UNCHANGED <<todo, resp>>
    BY <1>3 DEF RunBroad
  <2>2. /\ work[r].mode \in Modes /\ work[r].degraded \in BOOLEAN /\ work[r].lost \in BOOLEAN
    BY Facts DEF Results
  <2>3. w \in Results
    BY <2>2, Facts, BroadType
  <2>4. /\ w.hits \subseteq Reach(Head(todo[r]), req[r].fallback) /\ w.mode = work[r].mode
        /\ w.degraded = work[r].degraded /\ w.lost = work[r].lost
    BY BroadFacts
  <2>5. p \in Running /\ p \notin {"deep", "both", "deepTier", "mark"}
    BY DEF Running
  <2> HIDE DEF w, p
  <2>6. WorkOK(pc[r], req[r], todo[r], mode[r], work[r])
    BY Facts DEF RequestOK
  <2>7. WorkOK(p, req[r], todo[r], mode[r], w)
    BY <2>4, <2>5, <2>6 DEF WorkOK
  <2>8. pc[r] \in Running
    BY <1>1 DEF Running
  <2> QED BY <1>1, <2>1, <2>3, <2>5, <2>7, <2>8, WorkStepInv
<1> QED
  BY <1>2, <1>3

\* A skipped deep search is marked as lost and as degraded (shouldSkipDeepByNegativeCache).
LEMMA ConsultNegativeInv == ASSUME Inv, NEW r \in Requests, ConsultNegative(r) PROVE Inv'
<1>1. pc[r] = "deep" /\ UNCHANGED <<cache, neg, req, todo, mode, quiet, resp>>
  BY DEF ConsultNegative
<1>2. WorkOK("deep", req[r], todo[r], mode[r], work[r])
  BY <1>1, Facts DEF RequestOK
<1>3. "deep" \in Running /\ "broad" \in Running /\ "both" \in Running
  BY DEF Running
<1>4. CASE <<req[r].query, Head(todo[r])>> \in neg
  <2> DEFINE w == [work[r] EXCEPT !.mode = "search", !.degraded = TRUE, !.lost = TRUE]
  <2>1. Go(r, "broad") /\ work' = [work EXCEPT ![r] = w]
    BY <1>4 DEF ConsultNegative
  <2>2. w \in Results /\ w.hits = work[r].hits /\ w.mode = "search" /\ w.degraded = TRUE
    BY Facts DEF Results, Modes
  <2> HIDE DEF w
  <2>3. WorkOK("broad", req[r], todo[r], mode[r], w)
    BY <1>2, <1>3, <2>2 DEF WorkOK
  <2> QED BY <1>1, <1>3, <2>1, <2>2, <2>3, WorkStepInv
<1>5. CASE <<req[r].query, Head(todo[r])>> \notin neg
  <2>1. Go(r, "both") /\ work' = [work EXCEPT ![r] = work[r]]
    BY <1>5, Facts DEF ConsultNegative
  <2>2. WorkOK("both", req[r], todo[r], mode[r], work[r])
    BY <1>2, <1>3 DEF WorkOK
  <2> QED BY <1>1, <1>3, <2>1, <2>2, Facts, WorkStepInv
<1> QED
  BY <1>4, <1>5

\* The deep result, or the broad one marked as degraded; both in reach (the two
\* goroutines of searchDeepWithBroad).
LEMMA RunBothInv ==
    ASSUME Inv, NEW r \in Requests, NEW out, NEW deepOut, todo[r] # <<>>,
           RunBoth(r, out, deepOut)
    PROVE  Inv'
<1> DEFINE hits == With(deepOut, DeepTargets(r), "hits")
           w == IF DeepError(r, deepOut) \/ hits = {}
                THEN Broad(r, "search", TRUE, TRUE, out)
                ELSE Result(hits, "query", FALSE, FALSE, FALSE)
           p == IF DeepError(r, deepOut) THEN "mark" ELSE "store"
<1>1. /\ pc[r] = "both" /\ UNCHANGED <<cache, neg, req, todo, mode, quiet, resp>>
      /\ work' = [work EXCEPT ![r] = w] /\ Go(r, p)
  BY DEF RunBoth
<1>2. DeepAllowed(req[r], mode[r])
  BY <1>1, Facts DEF RequestOK, WorkOK
<1>3. hits \subseteq Reach(Head(todo[r]), req[r].fallback) /\ hits \subseteq Names
  <2>1. hits \subseteq Reach(Head(todo[r]), req[r].fallback)
    BY DeepFacts
  <2>2. Head(todo[r]) \in Names \union {All}
    BY Facts
  <2>3. DeepTargets(r) \subseteq Names
    BY <2>2, PipelineAssumption DEF DeepTargets, collectionsByTier
  <2> QED BY <2>1, <2>3 DEF With
<1>4. /\ w \in Results /\ w.hits \subseteq Reach(Head(todo[r]), req[r].fallback)
      /\ w.lost => w.degraded
  <2>1. Broad(r, "search", TRUE, TRUE, out) \in Results
    <3>1. "search" \in Modes
      BY DEF Modes
    <3> QED BY <3>1, Facts, BroadType
  <2>2. /\ Broad(r, "search", TRUE, TRUE, out).hits \subseteq Reach(Head(todo[r]), req[r].fallback)
        /\ Broad(r, "search", TRUE, TRUE, out).degraded = TRUE
    BY DEF Broad, Result, With, Reach
  <2> HIDE DEF hits
  <2>3. /\ Result(hits, "query", FALSE, FALSE, FALSE) \in Results
        /\ Result(hits, "query", FALSE, FALSE, FALSE).hits = hits
        /\ Result(hits, "query", FALSE, FALSE, FALSE).lost = FALSE
    BY <1>3 DEF Result, Results, Modes
  <2> QED BY <1>3, <2>1, <2>2, <2>3
<1>5. p \in Running /\ pc[r] \in Running
  BY <1>1 DEF Running
<1> HIDE DEF hits, w, p
<1>6. WorkOK(p, req[r], todo[r], mode[r], w)
  BY <1>2, <1>4, <1>5 DEF WorkOK
<1> QED
  BY <1>1, <1>4, <1>5, <1>6, WorkStepInv

\* Escalation needs the permission that plain search does not have; a skipped one is
\* lost and degraded (searchWithFallback).
LEMMA EscalateInv ==
    ASSUME Inv, NEW r \in Requests, NEW o \in BOOLEAN, Escalate(r, o) PROVE Inv'
<1> DEFINE wanted == /\ ~quiet[r] /\ work[r].mode = "search" /\ work[r].hits = {}
                     /\ HasDeepQuery /\ ~o /\ req[r].query \in BudgetQueries
           b == wanted /\ <<req[r].query, All>> \in neg
           w == [work[r] EXCEPT !.degraded = b, !.lost = b]
           p == IF wanted /\ ~(<<req[r].query, All>> \in neg) THEN "deepTier" ELSE "store"
<1>1. /\ pc[r] = "escalate" /\ UNCHANGED <<cache, neg, req, todo, mode, quiet, resp>>
      /\ work' = [work EXCEPT ![r] = w] /\ Go(r, p)
  BY DEF Escalate
<1>2. /\ WorkOK("escalate", req[r], todo[r], mode[r], work[r])
      /\ mode[r] = "search" => quiet[r]
  BY <1>1, Facts DEF RequestOK, PlanOK
<1>3. p \in Running /\ pc[r] \in Running
  BY <1>1 DEF Running
<1>4. ~DeepAllowed(req[r], mode[r]) => p = "store"
  BY <1>2 DEF DeepAllowed
<1>5. b \in BOOLEAN
  BY Zenon
<1> HIDE DEF b
<1>6. /\ w \in Results /\ w.hits = work[r].hits /\ w.mode = work[r].mode
      /\ w.lost => w.degraded
  BY <1>5, Facts DEF Results
<1> HIDE DEF w, p
<1>7. WorkOK(p, req[r], todo[r], mode[r], w)
  <2>1. "escalate" \in Running
    BY DEF Running
  <2> QED BY <2>1, <1>2, <1>3, <1>4, <1>6 DEF WorkOK
<1> QED
  BY <1>1, <1>3, <1>6, <1>7, WorkStepInv

\* The result of the escalation, or the empty broad one marked as degraded
\* (searchDeepTier1).
LEMMA RunDeepTierInv ==
    ASSUME Inv, NEW r \in Requests, NEW out, todo[r] # <<>>, RunDeepTier(r, out) PROVE Inv'
<1> DEFINE hits == With(out, DeepTargets(r), "hits")
           kept == [work[r] EXCEPT !.degraded = TRUE, !.lost = TRUE]
           deep == Result(hits, "query", work[r].fallback, FALSE, FALSE)
           w == IF DeepError(r, out) \/ hits = {} THEN kept ELSE deep
           p == IF DeepError(r, out) THEN "mark" ELSE "store"
<1>1. /\ pc[r] = "deepTier" /\ UNCHANGED <<cache, neg, req, todo, mode, quiet, resp>>
      /\ work' = [work EXCEPT ![r] = w] /\ Go(r, p)
  BY DEF RunDeepTier
<1>2. /\ DeepAllowed(req[r], mode[r]) /\ work[r].hits \subseteq Reach(Head(todo[r]), req[r].fallback)
  BY <1>1, Facts DEF RequestOK, WorkOK, Running
<1>3. hits \subseteq Reach(Head(todo[r]), req[r].fallback) /\ hits \subseteq Names
  <2>1. hits \subseteq Reach(Head(todo[r]), req[r].fallback)
    BY DeepFacts
  <2>2. Head(todo[r]) \in Names \union {All}
    BY Facts
  <2>3. DeepTargets(r) \subseteq Names
    BY <2>2, PipelineAssumption DEF DeepTargets, collectionsByTier
  <2> QED BY <2>1, <2>3 DEF With
<1> HIDE DEF hits
<1>4. kept \in Results /\ kept.hits = work[r].hits /\ kept.degraded = TRUE
  BY Facts DEF Results
<1>5. deep \in Results /\ deep.hits = hits /\ deep.lost = FALSE
  <2>1. work[r].fallback \in BOOLEAN
    BY Facts DEF Results
  <2> QED BY <2>1, <1>3 DEF Result, Results, Modes
<1> HIDE DEF kept, deep
<1>6. /\ w \in Results /\ w.hits \subseteq Reach(Head(todo[r]), req[r].fallback)
      /\ w.lost => w.degraded
  BY <1>2, <1>3, <1>4, <1>5
<1>7. p \in Running /\ pc[r] \in Running
  BY <1>1 DEF Running
<1> HIDE DEF w, p
<1>8. WorkOK(p, req[r], todo[r], mode[r], w)
  BY <1>2, <1>6, <1>7 DEF WorkOK
<1> QED
  BY <1>1, <1>6, <1>7, <1>8, WorkStepInv

\* A failed deep search is marked for a query and a collection that exist
\* (markDeepNegative).
LEMMA MarkNegativeInv ==
    ASSUME Inv, NEW r \in Requests, NEW cooldown \in BOOLEAN, MarkNegative(r, cooldown)
    PROVE  Inv'
<1>1. /\ pc[r] = "mark" /\ Go(r, "store")
      /\ UNCHANGED <<cache, req, todo, mode, quiet, work, resp>>
  BY DEF MarkNegative
<1>2. todo[r] # <<>>
  BY <1>1, Facts DEF TypeOK
<1>3. Head(todo[r]) \in Names \union {All} /\ req[r].query \in Queries
  BY <1>2, Facts DEF Shape
<1>4. neg' \subseteq Queries \X (Names \union {All})
  <2> DEFINE Q == IF cooldown THEN Queries ELSE {req[r].query}
  <2>1. Q \subseteq Queries
    BY <1>3
  <2>2. neg' = neg \union (Q \X {Head(todo[r])}) /\ neg \subseteq Queries \X (Names \union {All})
    BY Facts DEF MarkNegative, TypeOK
  <2> HIDE DEF Q
  <2> QED BY <2>1, <2>2, <1>3
<1>5. Step(r, "store", todo[r], work[r], resp[r])
  BY <1>1, Facts DEF Step, Go
<1>6. RequestOK("store", req[r], todo[r], mode[r], quiet[r], work[r], resp[r])
  <2>1. RequestOK("mark", req[r], todo[r], mode[r], quiet[r], work[r], resp[r])
    BY <1>1, Facts
  <2> QED BY <2>1 DEF RequestOK, WorkOK, ResponseOK, GateOK, Running, Before
<1>7. CacheOK'
  <2>1. CacheOK
    BY DEF Inv
  <2> QED BY <2>1, <1>1, Zenon DEF CacheOK
<1> QED
  BY <1>1, <1>2, <1>4, <1>5, <1>6, <1>7, Facts, StepInv DEF Points

\* A result is stored under a key it answers: the request's own
\* (cacheAndBuildSearchResult).
LEMMA StoreInv == ASSUME Inv, NEW r \in Requests, Store(r) PROVE Inv'
<1> DEFINE k == SearchKey(r)
<1>1. /\ pc[r] = "store" /\ Accumulate(r, work[r]) /\ UNCHANGED <<neg, req, mode, quiet>>
  BY DEF Store
<1>2. todo[r] # <<>>
  BY <1>1, Facts DEF TypeOK
<1>3. PICK kept \in SUBSET DOMAIN cache :
        cache' = [x \in kept \union {k} |-> IF x = k THEN work[r] ELSE cache[x]]
  <2> DEFINE full == k \notin DOMAIN cache /\ Cardinality(DOMAIN cache) >= MaxEntries
  <2>1. \E kept \in IF full THEN {DOMAIN cache \ {v} : v \in DOMAIN cache} ELSE {DOMAIN cache} :
          cache' = [x \in kept \union {k} |-> IF x = k THEN work[r] ELSE cache[x]]
    BY DEF Store
  <2> HIDE DEF full, k
  <2> QED BY <2>1
<1>4. /\ work[r] \in Results /\ work[r].hits \subseteq Reach(Head(todo[r]), req[r].fallback)
      /\ ~DeepAllowed(req[r], mode[r]) => work[r].mode # "query"
      /\ work[r].lost => work[r].degraded
  BY <1>1, Facts DEF RequestOK, WorkOK, Running
<1>5. /\ k.collection = Head(todo[r]) /\ k.fallback = req[r].fallback
      /\ DeepAllowed(k, k.mode) <=> DeepAllowed(req[r], mode[r])
  BY DEF SearchKey, MakeCacheKey, DeepAllowed
<1>6. k \in CacheKeys
  BY <1>1, <1>2, Facts, KeyType
<1> HIDE DEF k
<1>7. Answers(k, work[r])
  BY <1>4, <1>5 DEF Answers
<1>8. CacheOK'
  <2>1. DOMAIN cache' = kept \union {k} /\ DOMAIN cache \subseteq CacheKeys
    BY <1>3, Facts DEF CacheOK
  <2>2. ASSUME NEW x \in DOMAIN cache' PROVE cache'[x] \in Results /\ Answers(x, cache'[x])
    <3>1. CASE x = k
      BY <3>1, <1>3, <1>4, <1>7
    <3>2. CASE x # k
      <4>1. x \in DOMAIN cache /\ cache'[x] = cache[x]
        BY <3>2, <2>1, <1>3
      <4> QED BY <4>1, Facts DEF CacheOK
    <3> QED BY <3>1, <3>2
  <2>3. DOMAIN cache' \subseteq CacheKeys
    BY <2>1, <1>6
  <2> QED BY <2>2, <2>3, Zenon DEF CacheOK
<1> QED
  BY <1>1, <1>2, <1>4, <1>8, AccumulateInv DEF Before

-----------------------------------------------------------------------------
(* Before the searches                                                     *)

\* The initial state: nothing cached, no request under way.
LEMMA InitInv == Init => Inv
<1> SUFFICES ASSUME Init PROVE Inv
  OBVIOUS
<1>1. TypeInv
  BY InitTypeInv
<1>2. CacheOK
  <2>1. DOMAIN cache = {}
    BY DEF Init
  <2> QED BY <2>1 DEF CacheOK
<1>3. RequestsOK
  <2> SUFFICES ASSUME NEW x \in Requests
               PROVE  RequestOK(pc[x], req[x], todo[x], mode[x], quiet[x], work[x], resp[x])
    BY DEF RequestsOK
  <2>1. /\ pc[x] = "idle" /\ todo[x] = <<>> /\ mode[x] = "none"
        /\ work[x] = NoResult /\ resp[x] = NoResponse
    BY DEF Init
  <2>2. PlanOK(req[x], todo[x], mode[x], quiet[x])
    BY <2>1 DEF PlanOK
  <2>3. WorkOK(pc[x], req[x], todo[x], mode[x], work[x])
    BY <2>1 DEF WorkOK, Running, NoResult, Result
  <2>4. ResponseOK(pc[x], req[x], mode[x], resp[x])
    BY <2>1 DEF ResponseOK, Before, NoResponse
  <2>5. GateOK(pc[x], req[x], mode[x])
    BY <2>1 DEF GateOK
  <2> QED BY <2>2, <2>3, <2>4, <2>5 DEF RequestOK
<1> QED
  BY <1>1, <1>2, <1>3 DEF Inv

\* The requests are right if the one that moved is and the others are as before.
LEMMA RequestsKept ==
    ASSUME Inv, NEW r \in Requests,
           \A x \in Requests \ {r} : /\ pc'[x] = pc[x] /\ req'[x] = req[x]
                                     /\ todo'[x] = todo[x] /\ mode'[x] = mode[x]
                                     /\ quiet'[x] = quiet[x] /\ work'[x] = work[x]
                                     /\ resp'[x] = resp[x],
           RequestOK(pc'[r], req'[r], todo'[r], mode'[r], quiet'[r], work'[r], resp'[r])
    PROVE  RequestsOK'
<1> SUFFICES ASSUME NEW x \in Requests
             PROVE  RequestOK(pc'[x], req'[x], todo'[x], mode'[x], quiet'[x], work'[x], resp'[x])
  BY Zenon DEF RequestsOK
<1>1. CASE x = r
  BY <1>1, Zenon
<1>2. CASE x # r
  <2>1. RequestOK(pc[x], req[x], todo[x], mode[x], quiet[x], work[x], resp[x])
    BY Zenon DEF Inv, RequestsOK
  <2>2. x \in Requests \ {r}
    BY <1>2
  <2> QED BY <2>1, <2>2, Zenon
<1> QED
  BY <1>1, <1>2

\* A new request forgets the response of the one before it, and a request for core or
\* broad results may not escalate (the gRPC handlers and executeSearchCore).
LEMMA ArriveInv ==
    ASSUME Inv, NEW r \in Requests, NEW s \in Shapes[r], Arrive(r, s) PROVE Inv'
<1>1. TypeInv'
  BY ArriveType DEF Inv
<1>2. CacheOK'
  BY KeepCaches DEF Arrive
<1>3. TypeOK /\ TypeInv
  BY Facts
<1> DEFINE q == [s EXCEPT !.fallback = allowFallbackFromProto(s)]
           m == requestedModeToOrchestratorMode(s.requested)
           u == s.requested \in {"core", "broad"}
<1>4. /\ pc'[r] = "admit" /\ req'[r] = q /\ todo'[r] = ToSearch(s) /\ mode'[r] = m
      /\ quiet'[r] = u /\ work'[r] = work[r] /\ resp'[r] = NoResponse
      /\ \A x \in Requests \ {r} : /\ pc'[x] = pc[x] /\ req'[x] = req[x]
                                   /\ todo'[x] = todo[x] /\ mode'[x] = mode[x]
                                   /\ quiet'[x] = quiet[x] /\ work'[x] = work[x]
                                   /\ resp'[x] = resp[x]
  BY <1>3 DEF Arrive, Go, TypeOK
<1>5. s \in Shape /\ q.collections = s.collections
  BY PipelineAssumption DEF Shape
<1>6. m = "search" => u
  BY <1>5 DEF requestedModeToOrchestratorMode, Shape
<1>7. \A i \in DOMAIN ToSearch(s) : ToSearch(s)[i] \in Asked(q)
  <2>1. CASE s.collections = <<>>
    BY <2>1, <1>5 DEF ToSearch, Asked
  <2>2. CASE s.collections # <<>>
    BY <2>2, <1>5 DEF ToSearch, Asked
  <2> QED BY <2>1, <2>2
<1>8. work[r] = NoResult
  <2>1. pc[r] = "idle"
    BY DEF Arrive
  <2> QED BY <2>1, Facts DEF RequestOK, WorkOK, Running
<1>14. m = "query" => q.requested = "deep" /\ q.fallback
  BY <1>5 DEF requestedModeToOrchestratorMode, allowFallbackFromProto, Shape
<1> HIDE DEF q, m
<1>9. PlanOK(q, ToSearch(s), m, u)
  BY <1>6, <1>7 DEF PlanOK
<1>10. WorkOK("admit", q, ToSearch(s), m, NoResult)
  BY DEF WorkOK, Running, NoResult, Result
<1>11. ResponseOK("admit", q, m, NoResponse)
  BY DEF ResponseOK, NoResponse
<1>12. RequestOK(pc'[r], req'[r], todo'[r], mode'[r], quiet'[r], work'[r], resp'[r])
  <2>0. GateOK("admit", q, m)
    BY <1>14 DEF GateOK, Before
  <2>1. RequestOK("admit", q, ToSearch(s), m, u, NoResult, NoResponse)
    BY <2>0, <1>9, <1>10, <1>11, Zenon DEF RequestOK
  <2> HIDE DEF u
  <2> QED BY <2>1, <1>4, <1>8, Zenon
<1>13. RequestsOK'
  BY <1>4, <1>12, RequestsKept, Zenon
<1> QED
  BY <1>1, <1>2, <1>13, Zenon DEF Inv

\* Going down to plain search before the first search: the mode may only become plain,
\* and with it comes the ban on escalation (overload and deep gate).
LEMMA DowngradeInv ==
    ASSUME Inv, NEW r \in Requests, NEW when \in BOOLEAN, Downgrade(r, when),
           pc[r] \in {"admit", "gate"}, NEW p \in {"critical", "search"}, Go(r, p),
           p = "search" => when \/ mode[r] # "query" \/ req[r].query \in BudgetQueries,
           UNCHANGED <<cache, neg, req, todo, work>>
    PROVE  Inv'
<1> DEFINE m == IF when THEN "search" ELSE mode[r]
           u == quiet[r] \/ when
           a == [resp[r] EXCEPT !.pre = @ \/ when]
<1>1. TypeOK /\ TypeInv /\ CacheOK
  BY Facts
<1>2. /\ mode' = [mode EXCEPT ![r] = m] /\ quiet' = [quiet EXCEPT ![r] = u]
      /\ resp' = [resp EXCEPT ![r] = a] /\ pc' = [pc EXCEPT ![r] = p]
  BY DEF Downgrade, Go
<1>3. mode[r] \in {"search", "query", "auto"} /\ m \in {"search", "query", "auto"}
  BY <1>1 DEF TypeInv, TypeOK
<1>4. u \in BOOLEAN
  BY Zenon
<1>5. a \in Responses
  BY Facts, PreType
<1>6. /\ a.hits = resp[r].hits /\ a.mode = resp[r].mode /\ a.served = resp[r].served
      /\ a.lost = resp[r].lost /\ a.degraded = resp[r].degraded
  BY Facts DEF Responses
<1>7. /\ RequestOK(pc[r], req[r], todo[r], mode[r], quiet[r], work[r], resp[r])
      /\ pc[r] \in Before /\ pc[r] \notin Running /\ p \notin Running
  BY Facts DEF Before, Running
<1>8. PlanOK(req[r], todo[r], m, u)
  BY <1>7 DEF RequestOK, PlanOK
<1> HIDE DEF a, u
<1>9. WorkOK(p, req[r], todo[r], m, work[r])
  <2>1. work[r] = NoResult
    BY <1>7 DEF RequestOK, WorkOK
  <2> QED BY <2>1, <1>7 DEF WorkOK, NoResult, Result, Running
<1>10. ResponseOK(p, req[r], m, a)
  BY <1>6, <1>7 DEF RequestOK, ResponseOK
<1>20. GateOK(p, req[r], m)
  BY <1>7 DEF RequestOK, GateOK, Before
<1> HIDE DEF m
<1>11. /\ pc'[r] = p /\ req'[r] = req[r] /\ todo'[r] = todo[r] /\ mode'[r] = m
       /\ quiet'[r] = u /\ work'[r] = work[r] /\ resp'[r] = a
       /\ \A x \in Requests \ {r} : /\ pc'[x] = pc[x] /\ req'[x] = req[x]
                                    /\ todo'[x] = todo[x] /\ mode'[x] = mode[x]
                                    /\ quiet'[x] = quiet[x] /\ work'[x] = work[x]
                                    /\ resp'[x] = resp[x]
  BY <1>1, <1>2 DEF TypeOK
<1>12. RequestsOK'
  <2>1. RequestOK(p, req[r], todo[r], m, u, work[r], a)
    BY <1>8, <1>9, <1>10, <1>20, Zenon DEF RequestOK
  <2>2. RequestOK(pc'[r], req'[r], todo'[r], mode'[r], quiet'[r], work'[r], resp'[r])
    BY <2>1, <1>11, Zenon
  <2> QED BY <2>2, <1>11, RequestsKept, Zenon
<1>13. /\ mode' \in [Requests -> {"none", "search", "query", "auto"}]
       /\ \A x \in Requests : mode[x] # "none" => mode'[x] # "none"
  BY <1>1, <1>2, <1>3 DEF TypeOK
<1>14. quiet' \in [Requests -> BOOLEAN] /\ resp' \in [Requests -> Responses]
  BY <1>1, <1>2, <1>4, <1>5 DEF TypeOK
<1>15. pc' \in [Requests -> Points]
  BY <1>1, <1>2 DEF TypeOK, Points
<1>16. \A x \in Requests : pc'[x] \notin {"idle", "search"} => todo'[x] # <<>>
  BY <1>1, <1>11 DEF TypeOK
<1>17. \A x \in Requests : pc'[x] # "idle" => mode'[x] # "none"
  BY <1>1, <1>11, <1>13 DEF TypeInv
<1>18. TypeOK'
  BY <1>1, <1>13, <1>14, <1>15, <1>16, Zenon DEF TypeOK
<1>19. CacheOK'
  BY KeepCaches
<1> QED
  BY <1>12, <1>17, <1>18, <1>19, Zenon DEF Inv, TypeInv

\* The overload flag is read once (executeSearchCore).
LEMMA CheckOverloadInv ==
    ASSUME Inv, NEW r \in Requests, NEW o \in BOOLEAN, CheckOverload(r, o) PROVE Inv'
BY DowngradeInv DEF CheckOverload

\* A deep request beyond the budget goes down (the deep gate of executeSearchCore).
LEMMA DeepGateInv == ASSUME Inv, NEW r \in Requests, DeepGate(r) PROVE Inv'
<1> DEFINE when == /\ req[r].requested = "deep" /\ req[r].fallback
                   /\ req[r].query \notin BudgetQueries
<1>1. when \in BOOLEAN
  BY Zenon
<1>2. /\ pc[r] = "gate" /\ Downgrade(r, when) /\ Go(r, "search")
      /\ UNCHANGED <<cache, neg, req, todo, work>>
  BY DEF DeepGate
<1>3. when \/ mode[r] # "query" \/ req[r].query \in BudgetQueries
  BY Facts DEF RequestOK, GateOK
<1> HIDE DEF when
<1> QED
  BY <1>1, <1>2, <1>3, DowngradeInv

\* Reading the critical flag only picks the way.
LEMMA CheckCriticalInv ==
    ASSUME Inv, NEW r \in Requests, NEW o \in BOOLEAN, CheckCritical(r, o) PROVE Inv'
<1> DEFINE p == IF o THEN "probe" ELSE "gate"
<1>1. /\ pc[r] = "critical" /\ Go(r, p)
      /\ UNCHANGED <<cache, neg, req, todo, mode, quiet, work, resp>>
  BY DEF CheckCritical
<1>2. Step(r, p, todo[r], work[r], resp[r])
  BY <1>1, Facts DEF Step, Go
<1>3. p \in Points /\ p \in Before /\ p \notin Running /\ p \notin {"idle", "search"}
  BY DEF Points, Before, Running
<1>4. RequestOK("critical", req[r], todo[r], mode[r], quiet[r], work[r], resp[r])
  BY <1>1, Facts
<1>5. WorkOK(p, req[r], todo[r], mode[r], work[r])
  BY <1>3, <1>4 DEF RequestOK, WorkOK, Running
<1>6. ResponseOK(p, req[r], mode[r], resp[r])
  BY <1>4 DEF RequestOK, ResponseOK, Before
<1>7. RequestOK(p, req[r], todo[r], mode[r], quiet[r], work[r], resp[r])
  BY <1>3, <1>4, <1>5, <1>6 DEF RequestOK, GateOK
<1>8. todo[r] # <<>>
  BY <1>1, Facts DEF TypeOK
<1> HIDE DEF p
<1> QED
  BY <1>1, <1>2, <1>3, <1>7, <1>8, Facts, StepInv, KeepCaches

\* The collections are listed again once the last one was found in the cache
\* (HasCachedResult in executeSearchCore).
LEMMA ProbeInv == ASSUME Inv, NEW r \in Requests, Probe(r) PROVE Inv'
<1>1. pc[r] = "probe" /\ UNCHANGED <<cache, neg, req, mode, quiet, work>>
  BY DEF Probe
<1>2. todo[r] # <<>> /\ todo[r] \in Seq(Names \union {All}) /\ req[r] \in Shape
  BY <1>1, Facts DEF TypeOK
<1>3. RequestOK("probe", req[r], todo[r], mode[r], quiet[r], work[r], resp[r])
  BY <1>1, Facts
<1>4. work[r] = NoResult
  BY <1>3 DEF RequestOK, WorkOK, Running
<1>5. CASE ProbeKey(r) \notin DOMAIN cache
  <2> DEFINE a == [resp[r] EXCEPT !.status = "shed"]
  <2>1. Step(r, "idle", todo[r], work[r], a)
    BY <1>1, <1>5, Facts DEF Probe, Step, Go
  <2>2. /\ a \in Responses /\ a.hits = resp[r].hits /\ a.mode = resp[r].mode
        /\ a.served = resp[r].served /\ a.lost = resp[r].lost /\ a.degraded = resp[r].degraded
    BY Facts DEF Responses
  <2> HIDE DEF a
  <2>3. WorkOK("idle", req[r], todo[r], mode[r], work[r])
    BY <1>3, <1>4 DEF RequestOK, WorkOK, Running
  <2>4. ResponseOK("idle", req[r], mode[r], a)
    BY <1>3, <2>2 DEF RequestOK, ResponseOK, Before
  <2>5. RequestOK("idle", req[r], todo[r], mode[r], quiet[r], work[r], a)
    BY <1>3, <2>3, <2>4 DEF RequestOK, GateOK
  <2> QED BY <1>1, <2>1, <2>2, <2>5, Facts, StepInv, KeepCaches DEF Points
<1>6. CASE ProbeKey(r) \in DOMAIN cache
  <2> DEFINE t == IF Len(todo[r]) = 1 THEN ToSearch(req[r]) ELSE Tail(todo[r])
             p == IF Len(todo[r]) = 1 THEN "gate" ELSE "probe"
  <2>1. Step(r, p, t, work[r], resp[r])
    BY <1>1, <1>6, Facts DEF Probe, Step, Go
  <2>2. /\ ToSearch(req[r]) \in Seq(Names \union {All}) /\ ToSearch(req[r]) # <<>>
        /\ \A i \in DOMAIN ToSearch(req[r]) : ToSearch(req[r])[i] \in Asked(req[r])
    <3>1. req[r].collections \in Seq(Names)
      BY <1>2 DEF Shape
    <3>2. req[r].collections \in Seq(Names \union {All})
      BY <3>1, SeqDef
    <3>3. CASE req[r].collections = <<>>
      BY <3>3 DEF ToSearch, Asked
    <3>4. CASE req[r].collections # <<>>
      BY <3>2, <3>4 DEF ToSearch, Asked
    <3> QED BY <3>3, <3>4
  <2>3. Len(todo[r]) # 1 => Tail(todo[r]) # <<>>
    BY <1>2, TailNotEmpty
  <2>4. /\ Tail(todo[r]) \in Seq(Names \union {All})
        /\ \A i \in DOMAIN Tail(todo[r]) : Tail(todo[r])[i] \in Asked(req[r])
    BY <1>2, <1>3, ListFacts DEF RequestOK, PlanOK
  <2>5. /\ t \in Seq(Names \union {All}) /\ t # <<>>
        /\ \A i \in DOMAIN t : t[i] \in Asked(req[r])
    BY <2>2, <2>3, <2>4, Zenon
  <2>6. p \in Points /\ p \in Before /\ p \notin Running
    BY DEF Points, Before, Running
  <2> HIDE DEF t, p
  <2>7. PlanOK(req[r], t, mode[r], quiet[r])
    BY <1>3, <2>5 DEF RequestOK, PlanOK
  <2>8. WorkOK(p, req[r], t, mode[r], work[r])
    BY <1>4, <2>6 DEF WorkOK, Running, NoResult, Result
  <2>9. ResponseOK(p, req[r], mode[r], resp[r])
    BY <1>3 DEF RequestOK, ResponseOK, Before
  <2>10. RequestOK(p, req[r], t, mode[r], quiet[r], work[r], resp[r])
    BY <1>3, <2>6, <2>7, <2>8, <2>9 DEF RequestOK, GateOK
  <2> QED BY <1>1, <2>1, <2>5, <2>6, <2>10, Facts, StepInv, KeepCaches
<1> QED
  BY <1>5, <1>6

-----------------------------------------------------------------------------
(* The environment, and the theorems                                       *)

\* A step of the caches alone leaves the requests as they are.
LEMMA EnvironmentInv ==
    ASSUME Inv, UNCHANGED <<pc, req, todo, mode, quiet, work, resp>>, CacheOK',
           neg' \subseteq Queries \X (Names \union {All})
    PROVE  Inv'
<1>1. TypeOK /\ TypeInv /\ RequestsOK
  BY DEF Inv, TypeInv
<1>2. DOMAIN cache' \subseteq CacheKeys /\ \A k \in DOMAIN cache' : cache'[k] \in Results
  BY DEF CacheOK
<1>3. TypeOK'
  BY <1>1, <1>2, Zenon DEF TypeOK
<1>4. TypeInv'
  BY <1>1, <1>3, Zenon DEF TypeInv
<1>5. RequestsOK'
  BY <1>1, Zenon DEF RequestsOK
<1> QED
  BY <1>4, <1>5, Zenon DEF Inv

\* Entries that go leave the rest right.
LEMMA DropInv == ASSUME Inv, NEW k \in DOMAIN cache, Drop(k) PROVE Inv'
<1>1. /\ UNCHANGED <<neg, pc, req, todo, mode, quiet, work, resp>>
      /\ cache' = [x \in DOMAIN cache \ {k} |-> cache[x]]
  BY DEF Drop
<1>2. CacheOK'
  <2>1. CacheOK
    BY DEF Inv
  <2>2. DOMAIN cache' \subseteq DOMAIN cache /\ \A x \in DOMAIN cache' : cache'[x] = cache[x]
    BY <1>1
  <2> QED BY <2>1, <2>2 DEF CacheOK
<1>3. neg' \subseteq Queries \X (Names \union {All})
  BY <1>1 DEF Inv, TypeInv, TypeOK
<1> QED
  BY <1>1, <1>2, <1>3, EnvironmentInv

\* So do forgotten failures.
LEMMA ForgetInv == ASSUME Inv, NEW p \in neg, Forget(p) PROVE Inv'
<1>1. UNCHANGED <<cache, pc, req, todo, mode, quiet, work, resp>> /\ neg' = neg \ {p}
  BY DEF Forget
<1>2. neg' \subseteq Queries \X (Names \union {All})
  BY <1>1 DEF Inv, TypeInv, TypeOK
<1>3. CacheOK'
  <2>1. CacheOK
    BY DEF Inv
  <2> QED BY <2>1, <1>1, Zenon DEF CacheOK
<1> QED
  BY <1>1, <1>2, <1>3, EnvironmentInv

\* Every step keeps the invariant.
LEMMA NextInv == Inv /\ [Next]_vars => Inv'
<1> SUFFICES ASSUME Inv, [Next]_vars PROVE Inv'
  OBVIOUS
<1>1. CASE UNCHANGED vars
  <2>1. UNCHANGED <<pc, req, todo, mode, quiet, work, resp>> /\ UNCHANGED <<cache, neg>>
    BY <1>1 DEF vars
  <2> QED BY <2>1, KeepCaches, EnvironmentInv
<1>2. ASSUME NEW r \in Requests, NEW s \in Shapes[r], Arrive(r, s) PROVE Inv'
  BY <1>2, ArriveInv
<1>3. ASSUME NEW r \in Requests,
             \/ Probe(r) \/ DeepGate(r) \/ Lookup(r) \/ ConsultNegative(r)
             \/ Store(r) \/ Respond(r) \/ RespondError(r)
      PROVE  Inv'
  BY <1>3, ProbeInv, DeepGateInv, LookupInv, ConsultNegativeInv, StoreInv, RespondInv,
     RespondErrorInv
<1>4. ASSUME NEW r \in Requests, NEW flag \in BOOLEAN,
             \/ CheckOverload(r, flag) \/ CheckCritical(r, flag)
             \/ Resolve(r, flag) \/ Escalate(r, flag)
      PROVE  Inv'
  BY <1>4, CheckOverloadInv, CheckCriticalInv, ResolveInv, EscalateInv
<1>5. ASSUME NEW r \in Requests, todo[r] # <<>>,
             \/ \E out \in BroadOutcomes(r) : RunBroad(r, out)
             \/ \E out \in BroadOutcomes(r), deepOut \in DeepOutcomes(r) : RunBoth(r, out, deepOut)
             \/ \E out \in DeepOutcomes(r) : RunDeepTier(r, out)
      PROVE  Inv'
  BY <1>5, RunBroadInv, RunBothInv, RunDeepTierInv
<1>6. ASSUME NEW r \in Requests, NEW cooldown \in BOOLEAN, MarkNegative(r, cooldown)
      PROVE  Inv'
  BY <1>6, MarkNegativeInv
<1>7. ASSUME NEW k \in DOMAIN cache, Drop(k) PROVE Inv'
  BY <1>7, DropInv
<1>8. ASSUME NEW p \in neg, Forget(p) PROVE Inv'
  BY <1>8, ForgetInv
<1> QED
  BY <1>1, <1>2, <1>3, <1>4, <1>5, <1>6, <1>7, <1>8, Zenon DEF Next

\* The inductive invariant holds of every behaviour.
LEMMA Invariance == Spec => []Inv
BY InitInv, NextInv, PTL DEF Spec

\* Type correctness; a request that runs qmd or stores a result has a collection to do
\* it for, though the core walks its list of collections twice.
THEOREM TypeCorrect == Spec => []TypeOK
<1>1. Inv => TypeOK
  BY DEF Inv, TypeInv
<1> QED
  BY <1>1, Invariance, PTL

\* A request that came down to plain search, or whose query is beyond the limits, or
\* that meets a qmd without deep search, runs no deep search and is not answered with
\* the results of one, in whatever order the requests meet the cache, the overload
\* flag and the deep gate.
THEOREM DeepCorrect == Spec => []DeepOnlyIfAllowed
<1>1. Inv => DeepOnlyIfAllowed
  BY DEF Inv, RequestsOK, RequestOK, WorkOK, ResponseOK, DeepOnlyIfAllowed
<1> QED
  BY <1>1, Invariance, PTL

\* The hits of a response come from where the request looked, whoever filled the cache.
THEOREM ScopeCorrect == Spec => []ScopeRespected
<1>1. ASSUME Inv PROVE ScopeRespected
  <2> SUFFICES ASSUME NEW r \in Requests
               PROVE  resp[r].hits \subseteq
                        IF Named(r) # {} THEN Named(r)
                        ELSE IF req[r].fallback
                             THEN collectionsByTier(1) \union collectionsByTier(2)
                             ELSE collectionsByTier(1)
    BY DEF ScopeRespected
  <2>1. resp[r].hits \subseteq Scope(req[r]) /\ req[r].collections \in Seq(Names)
    BY <1>1, Facts DEF RequestOK, ResponseOK, Shape
  <2>2. CASE req[r].collections = <<>>
    <3>1. Named(r) = {} /\ Asked(req[r]) = {All}
      BY <2>2 DEF Named, Asked
    <3>2. Scope(req[r]) = Reach(All, req[r].fallback)
      BY <3>1 DEF Scope
    <3> QED BY <2>1, <3>1, <3>2 DEF Reach
  <2>3. CASE req[r].collections # <<>>
    <3>1. Asked(req[r]) = Named(r)
      BY <2>3 DEF Named, Asked
    <3>2. Named(r) \subseteq Names /\ Named(r) # {}
      <4> DEFINE c == req[r].collections
      <4>1. Len(c) \in Nat \ {0} /\ DOMAIN c = 1..Len(c) /\ \A i \in 1..Len(c) : c[i] \in Names
        BY <2>1, <2>3, EmptySeq, LenProperties, ElementOfSeq
      <4> HIDE DEF c
      <4>2. 1 \in DOMAIN c /\ \A i \in DOMAIN c : c[i] \in Names
        BY <4>1
      <4>3. Named(r) = {c[i] : i \in DOMAIN c}
        BY DEF Named, c
      <4> QED BY <4>2, <4>3
    <3>3. Scope(req[r]) = Named(r)
      BY <3>1, <3>2, PipelineAssumption DEF Scope, Reach
    <3> QED BY <2>1, <3>2, <3>3
  <2> QED BY <2>2, <2>3
<1> QED
  BY <1>1, Invariance, PTL

\* A deep search that was due and failed as a whole, found nothing or was skipped by
\* the negative cache is reported, in the request it happened to and in every request
\* served from the cache entry.
THEOREM LossCorrect == Spec => []LossIsReported
<1>1. Inv => LossIsReported
  BY DEF Inv, RequestsOK, RequestOK, ResponseOK, LossIsReported
<1> QED
  BY <1>1, Invariance, PTL
=============================================================================
