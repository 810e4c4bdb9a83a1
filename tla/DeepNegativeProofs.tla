------------------------ MODULE DeepNegativeProofs --------------------------
(***************************************************************************)
(* A failed deep query is skipped for its TTL, and three failures within   *)
(* the window close their scope, for any number of calls, queries and      *)
(* scopes, any settings in use and any bound on the wait for the mutex.    *)
(* The invariants: the expiry of a key and the age of its last mark add up *)
(* to the TTL, but for the wait by which an older mark, applied later, may *)
(* have replaced a newer one (IInv); fewer than three failures are noted   *)
(* and no expiry is beyond its setting (TInv); a failure that counts is    *)
(* noted, or a cooldown that outlasts it took it (CoolInv).                *)
(***************************************************************************)
EXTENDS DeepNegativeCache, FiniteSetTheorems, TLAPS

Bookkeeping ==
    /\ pc \in [Calls -> {"idle", "running", "marking"}]
    /\ key \in [Calls -> Exact]
    /\ age \in [Calls -> 0 .. MaxDelay]
    /\ last \in [Exact -> 0 .. Never]
    /\ \A k \in Exact : k \in DOMAIN deepNeg => deepNeg[k] \in Int

\* The expiry of key k agrees with the age of its last mark.
AddsUp(k) ==
    IF Live(k) THEN /\ last[k] + deepNeg[k] <= DeepNegativeTTL
                    /\ last[k] + deepNeg[k] >= DeepNegativeTTL - MaxDelay
               ELSE last[k] > DeepNegativeTTL - MaxDelay

IInv == Bookkeeping /\ \A k \in Exact : AddsUp(k)

\* The key of a scope's cooldown is no exact key (deepNegativeScopeCooldownKey).
LEMMA ScopeKeyApart == \A s : <<Any, s>> \notin Exact
BY NegativeAssumption DEF Exact

\* Nothing is marked at the start (New).
LEMMA InitIInv == ASSUME DeepNegativeTTL > 0, Init PROVE IInv
<1>1. \E k : k \in Exact
  <2>1. PICK q \in Queries, s \in Scopes : TRUE
    BY NegativeAssumption
  <2>2. <<q, s>> \in Exact
    BY DEF Exact
  <2> QED BY <2>2
<1>2. (CHOOSE k \in Exact : TRUE) \in Exact
  BY <1>1
<1>3. key \in [Calls -> Exact]
  BY <1>2 DEF Init
<1>4. DeepNegativeTTL \in Int /\ ScopeFailWindow \in Nat /\ MaxDelay \in Nat
  BY NegativeAssumption
<1>5. \A k \in Exact : k \notin DOMAIN deepNeg
  BY DEF Init
<1>6. last \in [Exact -> 0 .. Never] /\ \A k \in Exact : last[k] > DeepNegativeTTL - MaxDelay
  <2>1. Never \in 0 .. Never /\ Never > DeepNegativeTTL - MaxDelay
    BY <1>4 DEF Never
  <2> QED BY <2>1 DEF Init
<1>7. \A k \in Exact : AddsUp(k)
  BY <1>5, <1>6 DEF AddsUp, Live
<1>8. pc \in [Calls -> {"idle", "running", "marking"}] /\ age \in [Calls -> 0 .. MaxDelay]
  BY <1>4 DEF Init
<1> QED
  BY <1>3, <1>5, <1>6, <1>7, <1>8 DEF IInv, Bookkeeping

\* A step that only forgets keys that have expired keeps the sums
\* (shouldSkipDeepByNegativeCache, CleanupDeepNegativeCache).
LEMMA ForgetKeeps ==
    ASSUME IInv, UNCHANGED <<age, last>>, NEW gone,
           \A k \in gone : ~Live(k), deepNeg' = Without(deepNeg, gone),
           pc' \in [Calls -> {"idle", "running", "marking"}], key' \in [Calls -> Exact]
    PROVE  IInv'
<1>1. \A k \in Exact : Live(k)' <=> Live(k)
  BY DEF Live, Without
<1>2. \A k \in Exact : k \in DOMAIN deepNeg' => k \in DOMAIN deepNeg /\ deepNeg'[k] = deepNeg[k]
  BY DEF Without
<1>3. \A k \in Exact : AddsUp(k)'
  BY <1>1, <1>2 DEF IInv, AddsUp, Live
<1> QED
  BY <1>2, <1>3 DEF IInv, Bookkeeping

\* A mark sets the expiry of its key to the TTL less its age, which is at most the
\* wait for the mutex; other exact keys stay as they are (markDeepNegative).
LEMMA MarkKeeps ==
    ASSUME DeepNegativeTTL > 0, IInv, NEW c \in Calls, Mark(c) PROVE IInv'
<1> DEFINE k == key[c]
<1>a. /\ DeepNegativeTTL \in Int /\ ScopeFailWindow \in Nat /\ MaxDelay \in Nat
      /\ k \in Exact /\ age[c] \in 0 .. MaxDelay /\ last[k] \in 0 .. Never
  BY NegativeAssumption DEF IInv, Bookkeeping
<1>b. ~(DeepNegativeTTL <= 0)
  BY <1>a
<1>1. /\ pc' \in [Calls -> {"idle", "running", "marking"}]
      /\ key' = key
      /\ age' \in [Calls -> 0 .. MaxDelay]
  BY <1>a DEF Mark, IInv, Bookkeeping
<1>2. last' = [last EXCEPT ![k] = Earlier(last[k], age[c])]
  BY DEF Mark
<1>3. Earlier(last[k], age[c]) \in 0 .. Never
  BY <1>a DEF Earlier, Never
<1>4. last' \in [Exact -> 0 .. Never]
  BY <1>a, <1>2, <1>3 DEF IInv, Bookkeeping
<1>5. /\ k \in DOMAIN deepNeg' /\ deepNeg'[k] = DeepNegativeTTL - age[c]
      /\ \A x \in Exact : x # k => /\ x \in DOMAIN deepNeg' <=> x \in DOMAIN deepNeg
                                   /\ x \in DOMAIN deepNeg => deepNeg'[x] = deepNeg[x]
  <2> DEFINE exact == With(deepNeg, k, Expiry(k, age[c]))
             scope == <<Any, k[2]>>
  <2>1. deepNeg' = exact \/ deepNeg' = With(exact, scope, DeepNegativeScopeCooldown - age[c])
    BY <1>b DEF Mark
  <2>2. scope \notin Exact
    BY ScopeKeyApart
  <2>3. /\ k \in DOMAIN exact /\ exact[k] = DeepNegativeTTL - age[c]
        /\ \A x \in Exact : x # k => /\ x \in DOMAIN exact <=> x \in DOMAIN deepNeg
                                     /\ x \in DOMAIN deepNeg => exact[x] = deepNeg[x]
    BY DEF With, Expiry
  <2>4. ASSUME NEW v PROVE \A x \in Exact : /\ x \in DOMAIN With(exact, scope, v) <=> x \in DOMAIN exact
                                            /\ x \in DOMAIN exact => With(exact, scope, v)[x] = exact[x]
    BY <2>2 DEF With
  <2> QED BY <1>a, <2>1, <2>3, <2>4
<1>6. AddsUp(k)'
  <2>1. deepNeg'[k] \in Int /\ last'[k] = Earlier(last[k], age[c])
    BY <1>a, <1>2, <1>5 DEF IInv, Bookkeeping
  <2> QED BY <1>1, <1>a, <1>5, <2>1 DEF AddsUp, Live, Earlier
<1>7. ASSUME NEW x \in Exact, x # k PROVE AddsUp(x)'
  <2>1. last'[x] = last[x] /\ (Live(x)' <=> Live(x))
    BY <1>a, <1>2, <1>5, <1>7 DEF IInv, Bookkeeping, Live
  <2> QED BY <1>5, <1>7, <2>1 DEF IInv, AddsUp, Live
<1>8. \A x \in Exact : x \in DOMAIN deepNeg' => deepNeg'[x] \in Int
  BY <1>a, <1>5 DEF IInv, Bookkeeping
<1>9. ASSUME NEW x \in Exact PROVE AddsUp(x)'
  <2>1. CASE x = k
    BY <1>1, <1>6, <2>1 DEF AddsUp, Live
  <2>2. CASE x # k
    BY <1>7, <2>2
  <2> QED BY <2>1, <2>2
<1> QED
  BY <1>1, <1>4, <1>8, <1>9 DEF IInv, Bookkeeping

\* A tick moves the expiry and the age by one each, so their sum stays, or the key
\* expires at the age it should (time.Now).
LEMMA TickKeeps == ASSUME IInv, Tick PROVE IInv'
<1>a. /\ DeepNegativeTTL \in Int /\ ScopeFailWindow \in Nat /\ MaxDelay \in Nat
  BY NegativeAssumption
<1>1. /\ UNCHANGED <<pc, key>>
      /\ age' \in [Calls -> 0 .. MaxDelay]
  <2>1. \A c \in Calls : pc[c] = "marking" => age[c] + 1 \in 0 .. MaxDelay
    BY <1>a DEF Tick, IInv, Bookkeeping
  <2> QED BY <1>a, <2>1 DEF Tick
<1>2. last' \in [Exact -> 0 .. Never] /\ \A k \in Exact : last'[k] = Earlier(last[k] + 1, Never)
  <2>1. \A k \in Exact : Earlier(last[k] + 1, Never) \in 0 .. Never
    BY <1>a DEF IInv, Bookkeeping, Earlier, Never
  <2> QED BY <2>1 DEF Tick
<1>3. /\ DOMAIN deepNeg' = DOMAIN deepNeg
      /\ \A k \in DOMAIN deepNeg : /\ deepNeg[k] >= 0 => deepNeg'[k] = deepNeg[k] - 1
                                   /\ ~(deepNeg[k] >= 0) => deepNeg'[k] = -1
  BY DEF Tick, Live
<1>4. ASSUME NEW k \in Exact PROVE AddsUp(k)'
  <2>1. last[k] \in 0 .. Never /\ last'[k] = Earlier(last[k] + 1, Never) /\ AddsUp(k)
    BY <1>2 DEF IInv, Bookkeeping
  <2>2. CASE Live(k)
    <3>1. deepNeg[k] \in Int /\ deepNeg[k] >= 0 /\ k \in DOMAIN deepNeg' /\ deepNeg'[k] = deepNeg[k] - 1
      BY <1>3, <2>2 DEF Live, IInv, Bookkeeping
    <3> QED BY <1>a, <2>1, <2>2, <3>1 DEF AddsUp, Live, Earlier, Never
  <2>3. CASE ~Live(k)
    <3>1. ~Live(k)'
      BY <1>3, <2>3 DEF Live
    <3> QED BY <1>a, <2>1, <2>3, <3>1 DEF AddsUp, Earlier, Never
  <2> QED BY <2>2, <2>3
<1>5. \A k \in Exact : k \in DOMAIN deepNeg' => deepNeg'[k] \in Int
  <2> SUFFICES ASSUME NEW k \in Exact, k \in DOMAIN deepNeg PROVE deepNeg'[k] \in Int
    BY <1>3
  <2>1. deepNeg[k] \in Int
    BY DEF IInv, Bookkeeping
  <2> QED BY <1>3, <2>1
<1> QED
  BY <1>1, <1>2, <1>4, <1>5 DEF IInv, Bookkeeping

\* Every step keeps the sums.
LEMMA StepIInv == ASSUME DeepNegativeTTL > 0 PROVE IInv /\ [Next]_vars => IInv'
<1> SUFFICES ASSUME IInv, [Next]_vars PROVE IInv'
  OBVIOUS
<1>1. ASSUME NEW c \in Calls, NEW k \in Exact, Consult(c, k) PROVE IInv'
  <2>1. /\ UNCHANGED <<age, last>> /\ key' \in [Calls -> Exact]
        /\ pc' \in [Calls -> {"idle", "running", "marking"}]
    BY <1>1 DEF Consult, IInv, Bookkeeping
  <2>2. CASE deepNeg' = deepNeg
    BY <2>1, <2>2 DEF IInv, Bookkeeping, AddsUp, Live
  <2>3. ASSUME NEW seen, deepNeg' = Without(deepNeg, {x \in seen : ~Live(x)}) PROVE IInv'
    <3>1. \A x \in {x \in seen : ~Live(x)} : ~Live(x)
      OBVIOUS
    <3> QED BY <2>1, <2>3, <3>1, ForgetKeeps
  <2> QED BY <1>1, <2>2, <2>3 DEF Consult
<1>2. ASSUME NEW c \in Calls, Succeed(c) PROVE IInv'
  BY <1>2 DEF Succeed, IInv, Bookkeeping, AddsUp, Live
<1>3. ASSUME NEW c \in Calls, Fail(c) PROVE IInv'
  BY <1>3, NegativeAssumption DEF Fail, IInv, Bookkeeping, AddsUp, Live
<1>4. ASSUME NEW c \in Calls, Mark(c) PROVE IInv'
  BY <1>4, MarkKeeps
<1>5. CASE Cleanup
  <2>1. \A k \in {k \in DOMAIN deepNeg : ~Live(k)} : ~Live(k)
    OBVIOUS
  <2>2. /\ UNCHANGED <<age, last, pc, key>>
        /\ deepNeg' = Without(deepNeg, {k \in DOMAIN deepNeg : ~Live(k)})
    BY <1>5 DEF Cleanup
  <2> QED BY <2>1, <2>2, ForgetKeeps DEF IInv, Bookkeeping
<1>6. CASE Tick
  BY <1>6, TickKeeps
<1>7. CASE UNCHANGED vars
  BY <1>7 DEF vars, IInv, Bookkeeping, AddsUp, Live
<1> QED
  BY <1>1, <1>2, <1>3, <1>4, <1>5, <1>6, <1>7 DEF Next

\* With the negative cache in use, a failed deep query is skipped for its TTL, less
\* the wait for the mutex, and not for longer by its exact key, whatever look-ups,
\* cleanups and marks out of order do (markDeepNegative).
THEOREM FailureSkipped ==
    ASSUME DeepNegativeTTL > 0 PROVE Spec => []FailureSkippedForTTL
<1>1. IInv => FailureSkippedForTTL
  <2> SUFFICES ASSUME IInv, NEW k \in Exact
               PROVE  /\ last[k] <= DeepNegativeTTL - MaxDelay => SkipsExact(k)
                      /\ SkipsExact(k) => last[k] <= DeepNegativeTTL
    BY DEF FailureSkippedForTTL
  <2>1. /\ DeepNegativeTTL \in Int /\ MaxDelay \in Nat /\ last[k] \in 0 .. Never /\ Never \in Int
        /\ AddsUp(k) /\ (k \in DOMAIN deepNeg => deepNeg[k] \in Int)
    BY NegativeAssumption DEF IInv, Bookkeeping, Never
  <2> QED BY <2>1 DEF AddsUp, Live, SkipsExact
<1> QED
  BY <1>1, InitIInv, StepIInv, PTL DEF Spec

-----------------------------------------------------------------------------
(* Types, and the cooldown of scopes                                       *)

\* The cache of a scope: names and ages of its failures, and fewer than three noted.
ScopeOK(s) ==
    /\ scopeFails[s] \in SUBSET Nat /\ recent[s] \in SUBSET Nat
    /\ IsFiniteSet(scopeFails[s]) /\ IsFiniteSet(recent[s])
    /\ Cardinality(scopeFails[s]) < ScopeFailThreshold
    /\ stamp[s] \in [InUse(s) -> 0 .. (ScopeFailWindow + MaxDelay + 1)]

\* An expiry is no further ahead than its setting, and only a setting in use has one.
ExpiryOK(k, v) ==
    /\ k \in Exact \union ({Any} \X Scopes)
    /\ v \in Int /\ v >= -(MaxDelay + 1)
    /\ v <= (IF k \in Exact THEN DeepNegativeTTL ELSE DeepNegativeScopeCooldown)
    /\ k \in Exact \/ DeepNegativeScopeCooldown > 0

TInv ==
    /\ \A k \in DOMAIN deepNeg : ExpiryOK(k, deepNeg[k])
    /\ scopeFails \in [Scopes -> SUBSET Nat]
    /\ recent \in [Scopes -> SUBSET Nat]
    /\ DOMAIN stamp = Scopes
    /\ \A s \in Scopes : ScopeOK(s)

\* The provers' view of the map.
LEMMA WithFacts ==
    ASSUME NEW f, NEW k, NEW v
    PROVE  /\ \A x : x \in DOMAIN With(f, k, v) <=> x \in DOMAIN f \/ x = k
           /\ With(f, k, v)[k] = v
           /\ \A x \in DOMAIN f : x # k => With(f, k, v)[x] = f[x]
BY DEF With

LEMMA WithoutFacts ==
    ASSUME NEW f, NEW gone
    PROVE  /\ \A x : x \in DOMAIN Without(f, gone) <=> x \in DOMAIN f /\ x \notin gone
           /\ \A x \in DOMAIN Without(f, gone) : Without(f, gone)[x] = f[x]
BY DEF Without

\* A new failure gets a name that no failure of its scope has.
LEMMA NewName ==
    ASSUME NEW s, IsFiniteSet(InUse(s)) PROVE New(s) \in Nat /\ New(s) \notin InUse(s)
<1> DEFINE U == InUse(s)
           n == Cardinality(U)
<1>1. IsFiniteSet(U) /\ n \in Nat
  BY FS_CardinalityType
<1>2. \E f \in 0 .. n : f \notin U
  <2> SUFFICES ASSUME (0 .. n) \in SUBSET U PROVE FALSE
    OBVIOUS
  <2> HIDE DEF U, n
  <2>1. 0 \in Int /\ n \in Int
    BY <1>1
  <2>2. Cardinality(0 .. n) = IF 0 > n THEN 0 ELSE n - 0 + 1
    BY <2>1, FS_Interval
  <2>3. Cardinality(0 .. n) <= n
    BY <1>1, FS_Subset DEF n
  <2> QED BY <1>1, <2>2, <2>3
<1>3. New(s) \in 0 .. n /\ New(s) \notin U
  BY <1>2 DEF New
<1> QED
  BY <1>1, <1>3

\* What a mark makes of the failures of its scope.
LEMMA MarkedFailures ==
    ASSUME NEW s, ScopeOK(s), NEW a \in 0 .. MaxDelay
    PROVE  /\ New(s) \in Nat /\ New(s) \notin InUse(s)
           /\ IsFiniteSet(Noted(s, a)) /\ Noted(s, a) \in SUBSET Nat
           /\ Noted(s, a) \subseteq scopeFails[s] \union {New(s)}
           /\ FailsAfter(s, a) \subseteq scopeFails[s] \union {New(s)}
           /\ FailsAfter(s, a) \in SUBSET Nat /\ IsFiniteSet(FailsAfter(s, a))
           /\ Cardinality(FailsAfter(s, a)) < ScopeFailThreshold
<1>1. IsFiniteSet(InUse(s))
  BY FS_Union DEF InUse, ScopeOK
<1>2. New(s) \in Nat /\ New(s) \notin InUse(s)
  BY <1>1, NewName
<1>3. Noted(s, a) \subseteq scopeFails[s] \union {New(s)}
  BY DEF Noted
<1>4. IsFiniteSet(scopeFails[s] \union {New(s)})
  BY FS_AddElement DEF ScopeOK
<1>5. IsFiniteSet(Noted(s, a)) /\ Cardinality(Noted(s, a)) \in Nat
  BY <1>3, <1>4, FS_Subset, FS_CardinalityType
<1>6. Noted(s, a) \in SUBSET Nat
  BY <1>2, <1>3 DEF ScopeOK
<1>7. IsFiniteSet({}) /\ Cardinality({}) = 0
  BY FS_EmptySet
<1>8. CASE Cools(s, a)
  <2>1. FailsAfter(s, a) = {}
    BY <1>8 DEF FailsAfter
  <2> QED BY <1>2, <1>3, <1>5, <1>6, <1>7, <2>1 DEF ScopeFailThreshold
<1>9. CASE ~Cools(s, a) /\ Counted
  <2>1. FailsAfter(s, a) = Noted(s, a)
    BY <1>9 DEF FailsAfter
  <2>2. ~(Cardinality(Noted(s, a)) >= ScopeFailThreshold)
    BY <1>9 DEF Cools
  <2> QED BY <1>2, <1>3, <1>5, <1>6, <2>1, <2>2 DEF ScopeFailThreshold
<1>10. CASE ~Cools(s, a) /\ ~Counted
  <2>1. FailsAfter(s, a) = scopeFails[s]
    BY <1>10 DEF FailsAfter
  <2> QED BY <1>2, <1>3, <1>5, <1>6, <2>1 DEF ScopeOK
<1> QED
  BY <1>8, <1>9, <1>10

\* The empty cache has its types (New).
LEMMA InitTInv == ASSUME Init PROVE TInv
<1>1. DOMAIN deepNeg = {}
  BY DEF Init
<1>2. scopeFails = [s \in Scopes |-> {}] /\ recent = [s \in Scopes |-> {}]
      /\ stamp = [s \in Scopes |-> <<>>]
  BY DEF Init
<1>3. IsFiniteSet({}) /\ Cardinality({}) = 0
  BY FS_EmptySet
<1>4. \A s \in Scopes : ScopeOK(s)
  <2> SUFFICES ASSUME NEW s \in Scopes PROVE ScopeOK(s)
    OBVIOUS
  <2>1. scopeFails[s] = {} /\ recent[s] = {} /\ stamp[s] = <<>>
    BY <1>2
  <2>2. InUse(s) = {}
    BY <2>1 DEF InUse
  <2>3. stamp[s] \in [{} -> 0 .. (ScopeFailWindow + MaxDelay + 1)]
    BY <2>1
  <2> QED BY <1>3, <2>1, <2>2, <2>3 DEF ScopeOK, ScopeFailThreshold
<1> QED
  BY <1>1, <1>2, <1>4 DEF TInv

\* A step that leaves the failures alone and forgets at most some keys.
LEMMA ForgetTInv ==
    ASSUME TInv, UNCHANGED <<scopeFails, stamp, recent>>,
           NEW gone, deepNeg' = deepNeg \/ deepNeg' = Without(deepNeg, gone)
    PROVE  TInv'
<1>1. \A k \in DOMAIN deepNeg' : k \in DOMAIN deepNeg /\ deepNeg'[k] = deepNeg[k]
  BY WithoutFacts
<1>2. \A k \in DOMAIN deepNeg' : ExpiryOK(k, deepNeg'[k])
  BY <1>1 DEF TInv
<1>3. \A s \in Scopes : ScopeOK(s)'
  BY DEF TInv, ScopeOK, InUse
<1> QED
  BY <1>2, <1>3 DEF TInv

\* What a mark makes of the map: its own key, perhaps the key of its scope, and
\* nothing else (markDeepNegative, markScopeCooldownLocked).
LEMMA MarkedKeys ==
    ASSUME DeepNegativeTTL > 0, IInv, NEW c \in Calls, Mark(c)
    PROVE  LET k == key[c] IN
           /\ \A x \in DOMAIN deepNeg' :
                \/ x = k /\ deepNeg'[x] = DeepNegativeTTL - age[c]
                \/ /\ x = <<Any, k[2]>> /\ Cools(k[2], age[c])
                   /\ deepNeg'[x] = DeepNegativeScopeCooldown - age[c]
                \/ x \in DOMAIN deepNeg /\ deepNeg'[x] = deepNeg[x]
           /\ Cools(k[2], age[c]) =>
                /\ <<Any, k[2]>> \in DOMAIN deepNeg'
                /\ deepNeg'[<<Any, k[2]>>] = DeepNegativeScopeCooldown - age[c]
           /\ \A x \in DOMAIN deepNeg :
                x # k /\ (x # <<Any, k[2]>> \/ ~Cools(k[2], age[c])) =>
                  x \in DOMAIN deepNeg' /\ deepNeg'[x] = deepNeg[x]
<1> DEFINE k == key[c]
           scope == <<Any, k[2]>>
           cool == DeepNegativeScopeCooldown - age[c]
           exact == With(deepNeg, k, DeepNegativeTTL - age[c])
<1>1. ~(DeepNegativeTTL <= 0)
  BY NegativeAssumption
<1>2. deepNeg' = IF ~Cools(k[2], age[c]) THEN exact ELSE With(exact, scope, cool)
  BY <1>1 DEF Mark, Expiry
<1>3. k \in Exact /\ scope # k
  BY ScopeKeyApart DEF IInv, Bookkeeping
<1>4. /\ \A x : x \in DOMAIN exact <=> x \in DOMAIN deepNeg \/ x = k
      /\ exact[k] = DeepNegativeTTL - age[c]
      /\ \A x \in DOMAIN deepNeg : x # k => exact[x] = deepNeg[x]
  BY WithFacts
<1> HIDE DEF exact
<1>5. /\ \A x : x \in DOMAIN With(exact, scope, cool) <=> x \in DOMAIN exact \/ x = scope
      /\ With(exact, scope, cool)[scope] = cool
      /\ \A x \in DOMAIN exact : x # scope => With(exact, scope, cool)[x] = exact[x]
  BY WithFacts
<1> HIDE DEF scope, cool, k
<1>6. /\ \A x \in DOMAIN deepNeg' :
           \/ x = k /\ deepNeg'[x] = DeepNegativeTTL - age[c]
           \/ x = scope /\ Cools(k[2], age[c]) /\ deepNeg'[x] = cool
           \/ x \in DOMAIN deepNeg /\ deepNeg'[x] = deepNeg[x]
      /\ Cools(k[2], age[c]) => scope \in DOMAIN deepNeg' /\ deepNeg'[scope] = cool
      /\ \A x \in DOMAIN deepNeg :
           x # k /\ (x # scope \/ ~Cools(k[2], age[c])) =>
             x \in DOMAIN deepNeg' /\ deepNeg'[x] = deepNeg[x]
  <2>1. CASE ~Cools(k[2], age[c])
    BY <1>2, <1>4, <2>1
  <2>2. CASE Cools(k[2], age[c])
    BY <1>2, <1>3, <1>4, <1>5, <2>2
  <2> QED BY <2>1, <2>2
<1> QED
  BY <1>6 DEF scope, cool, k

\* What a mark makes of the failures and their ages.
LEMMA MarkedScopes ==
    ASSUME DeepNegativeTTL > 0, IInv, TInv, NEW c \in Calls, Mark(c)
    PROVE  LET s == key[c][2]
               a == age[c] IN
           /\ s \in Scopes /\ a \in 0 .. MaxDelay
           /\ scopeFails'[s] = FailsAfter(s, a)
           /\ recent'[s] = IF a <= ScopeFailWindow THEN recent[s] \union {New(s)} ELSE recent[s]
           /\ stamp'[s] = [f \in scopeFails'[s] \union recent'[s] |->
                             IF f = New(s) THEN a ELSE stamp[s][f]]
           /\ \A t \in Scopes : t # s => /\ scopeFails'[t] = scopeFails[t]
                                         /\ recent'[t] = recent[t] /\ stamp'[t] = stamp[t]
           /\ DOMAIN stamp' = Scopes /\ DOMAIN scopeFails' = Scopes /\ DOMAIN recent' = Scopes
<1> DEFINE s == key[c][2]
           a == age[c]
<1>1. ~(DeepNegativeTTL <= 0)
  BY NegativeAssumption
<1>2. s \in Scopes /\ a \in 0 .. MaxDelay
  BY DEF IInv, Bookkeeping, Exact
<1>3. /\ scopeFails' = [scopeFails EXCEPT ![s] = FailsAfter(s, a)]
      /\ recent' = [recent EXCEPT ![s] =
                      IF a <= ScopeFailWindow THEN recent[s] \union {New(s)} ELSE recent[s]]
      /\ stamp' = [stamp EXCEPT ![s] =
                     [f \in scopeFails'[s] \union recent'[s] |->
                        IF f = New(s) THEN a ELSE stamp[s][f]]]
  BY <1>1 DEF Mark
<1>4. /\ DOMAIN scopeFails = Scopes /\ DOMAIN recent = Scopes /\ DOMAIN stamp = Scopes
  BY DEF TInv
<1> HIDE DEF s, a
<1>5. /\ scopeFails'[s] = FailsAfter(s, a)
      /\ \A t \in Scopes : t # s => scopeFails'[t] = scopeFails[t]
      /\ DOMAIN scopeFails' = Scopes
  BY <1>2, <1>3, <1>4
<1>6. /\ recent'[s] = IF a <= ScopeFailWindow THEN recent[s] \union {New(s)} ELSE recent[s]
      /\ \A t \in Scopes : t # s => recent'[t] = recent[t]
      /\ DOMAIN recent' = Scopes
  BY <1>2, <1>3, <1>4
<1>7. /\ stamp'[s] = [f \in scopeFails'[s] \union recent'[s] |->
                        IF f = New(s) THEN a ELSE stamp[s][f]]
      /\ \A t \in Scopes : t # s => stamp'[t] = stamp[t]
      /\ DOMAIN stamp' = Scopes
  BY <1>2, <1>3, <1>4
<1> QED
  BY <1>2, <1>5, <1>6, <1>7 DEF s, a

\* The failures of a scope that still count are noted, or were taken by a cooldown
\* that outlasts them: it is at least as far ahead as the youngest leaves it.
Absorbed(s, f) ==
    /\ <<Any, s>> \in DOMAIN deepNeg
    /\ deepNeg[<<Any, s>>] + stamp[s][f] >= DeepNegativeScopeCooldown - MaxDelay

CoolOK(s) ==
    \A f \in recent[s] : /\ stamp[s][f] <= ScopeFailWindow
                         /\ f \in scopeFails[s] \/ Absorbed(s, f)

CoolInv == \A s \in Scopes : CoolOK(s)

\* A mark keeps the types (markDeepNegative).
LEMMA MarkTInv ==
    ASSUME DeepNegativeTTL > 0, IInv, TInv, NEW c \in Calls, Mark(c) PROVE TInv'
<1> DEFINE k == key[c]
           s == k[2]
           a == age[c]
           T == 0 .. (ScopeFailWindow + MaxDelay + 1)
<1>a. /\ DeepNegativeTTL \in Int /\ DeepNegativeScopeCooldown \in Int
      /\ ScopeFailWindow \in Nat /\ MaxDelay \in Nat
  BY NegativeAssumption
<1>b. k \in Exact /\ s \in Scopes /\ a \in 0 .. MaxDelay
  BY DEF IInv, Bookkeeping, Exact
<1>1. /\ scopeFails'[s] = FailsAfter(s, a)
      /\ recent'[s] = IF a <= ScopeFailWindow THEN recent[s] \union {New(s)} ELSE recent[s]
      /\ stamp'[s] = [f \in scopeFails'[s] \union recent'[s] |->
                        IF f = New(s) THEN a ELSE stamp[s][f]]
      /\ \A t \in Scopes : t # s => /\ scopeFails'[t] = scopeFails[t]
                                    /\ recent'[t] = recent[t] /\ stamp'[t] = stamp[t]
      /\ DOMAIN stamp' = Scopes /\ DOMAIN scopeFails' = Scopes /\ DOMAIN recent' = Scopes
  BY MarkedScopes
<1>2. \A x \in DOMAIN deepNeg' : ExpiryOK(x, deepNeg'[x])
  <2> SUFFICES ASSUME NEW x \in DOMAIN deepNeg' PROVE ExpiryOK(x, deepNeg'[x])
    OBVIOUS
  <2>1. \/ x = k /\ deepNeg'[x] = DeepNegativeTTL - a
        \/ x = <<Any, s>> /\ Cools(s, a) /\ deepNeg'[x] = DeepNegativeScopeCooldown - a
        \/ x \in DOMAIN deepNeg /\ deepNeg'[x] = deepNeg[x]
    BY MarkedKeys
  <2>2. CASE x = k /\ deepNeg'[x] = DeepNegativeTTL - a
    BY <1>a, <1>b, <2>2 DEF ExpiryOK
  <2>3. CASE x = <<Any, s>> /\ Cools(s, a) /\ deepNeg'[x] = DeepNegativeScopeCooldown - a
    <3>1. DeepNegativeScopeCooldown > 0
      BY <2>3 DEF Cools, Counted
    <3>2. x \in {Any} \X Scopes /\ x \notin Exact
      BY <1>b, <2>3, ScopeKeyApart
    <3> QED BY <1>a, <1>b, <2>3, <3>1, <3>2 DEF ExpiryOK
  <2>4. CASE x \in DOMAIN deepNeg /\ deepNeg'[x] = deepNeg[x]
    BY <2>4 DEF TInv
  <2> QED BY <2>1, <2>2, <2>3, <2>4
<1>3. ScopeOK(s)
  BY <1>b DEF TInv
<1>4. /\ New(s) \in Nat
      /\ FailsAfter(s, a) \subseteq scopeFails[s] \union {New(s)}
      /\ FailsAfter(s, a) \in SUBSET Nat /\ IsFiniteSet(FailsAfter(s, a))
      /\ Cardinality(FailsAfter(s, a)) < ScopeFailThreshold
  BY <1>3, <1>b, MarkedFailures
<1>5. /\ recent'[s] \in SUBSET Nat /\ IsFiniteSet(recent'[s])
      /\ recent'[s] \subseteq recent[s] \union {New(s)}
  <2>1. recent[s] \in SUBSET Nat /\ IsFiniteSet(recent[s])
    BY <1>3 DEF ScopeOK
  <2>2. IsFiniteSet(recent[s] \union {New(s)})
    BY <2>1, FS_AddElement
  <2> QED BY <1>1, <1>4, <2>1, <2>2
<1>6. stamp[s] \in [scopeFails[s] \union recent[s] -> T]
  BY <1>3 DEF ScopeOK, InUse
<1>7. a \in T
  BY <1>a, <1>b
<1> HIDE DEF s, a, T, k
<1>8. stamp'[s] \in [scopeFails'[s] \union recent'[s] -> T]
  <2>1. \A f \in scopeFails'[s] \union recent'[s] :
          f # New(s) => f \in scopeFails[s] \union recent[s]
    BY <1>1, <1>4, <1>5
  <2>2. \A f \in scopeFails'[s] \union recent'[s] :
          (IF f = New(s) THEN a ELSE stamp[s][f]) \in T
    BY <2>1, <1>6, <1>7
  <2> QED BY <1>1, <2>2
<1>9. ASSUME NEW t \in Scopes PROVE ScopeOK(t)'
  <2>1. CASE t = s
    <3>1. /\ scopeFails'[t] \in SUBSET Nat /\ IsFiniteSet(scopeFails'[t])
          /\ Cardinality(scopeFails'[t]) < ScopeFailThreshold
      BY <1>1, <1>4, <2>1
    <3>2. /\ recent'[t] \in SUBSET Nat /\ IsFiniteSet(recent'[t])
          /\ stamp'[t] \in [scopeFails'[t] \union recent'[t] -> T]
      BY <1>5, <1>8, <2>1
    <3> QED BY <3>1, <3>2 DEF ScopeOK, InUse, T
  <2>2. CASE t # s
    <3>1. /\ scopeFails'[t] = scopeFails[t] /\ recent'[t] = recent[t]
          /\ stamp'[t] = stamp[t] /\ ScopeOK(t)
      BY <1>1, <2>2 DEF TInv
    <3> QED BY <3>1 DEF ScopeOK, InUse
  <2> QED BY <2>1, <2>2
<1>10. /\ scopeFails' \in [Scopes -> SUBSET Nat]
       /\ recent' \in [Scopes -> SUBSET Nat]
  <2>1. ~(DeepNegativeTTL <= 0)
    BY <1>a
  <2>2. /\ scopeFails' = [scopeFails EXCEPT ![s] = FailsAfter(s, a)]
        /\ recent' = [recent EXCEPT ![s] =
                        IF a <= ScopeFailWindow THEN recent[s] \union {New(s)} ELSE recent[s]]
    BY <2>1 DEF Mark, s, k, a
  <2>3. recent' = [recent EXCEPT ![s] = recent'[s]]
    BY <1>1, <2>2
  <2> QED BY <1>4, <1>5, <2>2, <2>3 DEF TInv
<1> QED
  BY <1>1, <1>2, <1>9, <1>10 DEF TInv

\* Cleanup drops failures and keys, and changes none (CleanupDeepNegativeCache).
LEMMA CleanupTInv == ASSUME TInv, Cleanup PROVE TInv'
<1> DEFINE T == 0 .. (ScopeFailWindow + MaxDelay + 1)
<1>1. /\ deepNeg' = Without(deepNeg, {k \in DOMAIN deepNeg : ~Live(k)})
      /\ scopeFails' = [s \in Scopes |-> {f \in scopeFails[s] : stamp[s][f] <= ScopeFailWindow}]
      /\ stamp' = [s \in Scopes |-> [f \in scopeFails'[s] \union recent[s] |-> stamp[s][f]]]
      /\ recent' = recent
  BY DEF Cleanup
<1>2. \A k \in DOMAIN deepNeg' : ExpiryOK(k, deepNeg'[k])
  BY <1>1, WithoutFacts DEF TInv
<1>3. ASSUME NEW s \in Scopes PROVE ScopeOK(s)'
  <2>1. ScopeOK(s)
    BY DEF TInv
  <2>2. /\ scopeFails'[s] \subseteq scopeFails[s] /\ recent'[s] = recent[s]
        /\ stamp'[s] = [f \in scopeFails'[s] \union recent[s] |-> stamp[s][f]]
    BY <1>1
  <2>3. IsFiniteSet(scopeFails'[s]) /\ Cardinality(scopeFails'[s]) <= Cardinality(scopeFails[s])
    BY <2>1, <2>2, FS_Subset DEF ScopeOK
  <2>4. Cardinality(scopeFails'[s]) \in Nat /\ Cardinality(scopeFails[s]) \in Nat
    BY <2>1, <2>3, FS_CardinalityType DEF ScopeOK
  <2>5. Cardinality(scopeFails'[s]) < ScopeFailThreshold
    BY <2>1, <2>3, <2>4 DEF ScopeOK, ScopeFailThreshold
  <2>6. stamp'[s] \in [scopeFails'[s] \union recent'[s] -> T]
    BY <2>1, <2>2 DEF ScopeOK, InUse
  <2>7. scopeFails'[s] \in SUBSET Nat /\ recent'[s] \in SUBSET Nat /\ IsFiniteSet(recent'[s])
    BY <2>1, <2>2 DEF ScopeOK
  <2> QED BY <2>3, <2>5, <2>6, <2>7 DEF ScopeOK, InUse
<1>4. scopeFails' \in [Scopes -> SUBSET Nat]
  BY <1>1 DEF TInv
<1> QED
  BY <1>1, <1>2, <1>3, <1>4 DEF TInv

\* An expiry comes nearer and a failure gets older by a tick (time.Now).
LEMMA TickTInv == ASSUME DeepNegativeTTL > 0, TInv, Tick PROVE TInv'
<1> DEFINE T == 0 .. (ScopeFailWindow + MaxDelay + 1)
<1>a. /\ DeepNegativeTTL \in Int /\ DeepNegativeScopeCooldown \in Int
      /\ ScopeFailWindow \in Nat /\ MaxDelay \in Nat
  BY NegativeAssumption
<1>1. /\ deepNeg' = [k \in DOMAIN deepNeg |-> IF Live(k) THEN deepNeg[k] - 1 ELSE -1]
      /\ recent' = [s \in Scopes |-> {f \in recent[s] : Older(stamp[s][f]) <= ScopeFailWindow}]
      /\ stamp' = [s \in Scopes |-> [f \in scopeFails[s] \union recent'[s] |-> Older(stamp[s][f])]]
      /\ scopeFails' = scopeFails
  BY DEF Tick
<1>2. ASSUME NEW s \in Scopes PROVE ScopeOK(s)'
  <2>1. ScopeOK(s)
    BY DEF TInv
  <2>2. /\ scopeFails'[s] = scopeFails[s] /\ recent'[s] \subseteq recent[s]
        /\ stamp'[s] = [f \in scopeFails[s] \union recent'[s] |-> Older(stamp[s][f])]
    BY <1>1
  <2>3. IsFiniteSet(recent'[s])
    BY <2>1, <2>2, FS_Subset DEF ScopeOK
  <2>4. \A a \in T : Older(a) \in T
    BY <1>a DEF Older
  <2>5. stamp[s] \in [scopeFails[s] \union recent[s] -> T]
    BY <2>1 DEF ScopeOK, InUse
  <2> HIDE DEF T
  <2>6. stamp'[s] \in [scopeFails'[s] \union recent'[s] -> T]
    BY <2>2, <2>4, <2>5
  <2>7. /\ scopeFails'[s] \in SUBSET Nat /\ recent'[s] \in SUBSET Nat
        /\ IsFiniteSet(scopeFails'[s]) /\ Cardinality(scopeFails'[s]) < ScopeFailThreshold
    BY <2>1, <2>2 DEF ScopeOK
  <2> QED BY <2>3, <2>6, <2>7 DEF ScopeOK, InUse, T
<1>3. recent' \in [Scopes -> SUBSET Nat] /\ DOMAIN stamp' = Scopes
  BY <1>1 DEF TInv
<1>4. ASSUME NEW k \in DOMAIN deepNeg' PROVE ExpiryOK(k, deepNeg'[k])
  <2>1. k \in DOMAIN deepNeg /\ deepNeg'[k] = IF deepNeg[k] >= 0 THEN deepNeg[k] - 1 ELSE -1
    BY <1>1 DEF Live
  <2>2. ExpiryOK(k, deepNeg[k])
    BY <2>1 DEF TInv
  <2> QED BY <1>a, <2>1, <2>2 DEF ExpiryOK
<1> QED
  BY <1>1, <1>2, <1>3, <1>4 DEF TInv

\* Every step keeps the types.
LEMMA StepTInv ==
    ASSUME DeepNegativeTTL > 0 PROVE IInv /\ TInv /\ [Next]_vars => TInv'
<1> SUFFICES ASSUME IInv, TInv, [Next]_vars PROVE TInv'
  OBVIOUS
<1>1. ASSUME NEW c \in Calls, NEW k \in Exact, Consult(c, k) PROVE TInv'
  <2>1. UNCHANGED <<scopeFails, stamp, recent>>
    BY <1>1 DEF Consult
  <2>2. deepNeg' = deepNeg \/ \E gone : deepNeg' = Without(deepNeg, gone)
    BY <1>1 DEF Consult
  <2> QED BY <2>1, <2>2, ForgetTInv
<1>2. ASSUME NEW c \in Calls, Succeed(c) \/ Fail(c) PROVE TInv'
  <2>1. UNCHANGED <<deepNeg, scopeFails, stamp, recent>>
    BY <1>2 DEF Succeed, Fail
  <2> QED BY <2>1, ForgetTInv
<1>3. ASSUME NEW c \in Calls, Mark(c) PROVE TInv'
  BY <1>3, MarkTInv
<1>4. CASE Cleanup
  BY <1>4, CleanupTInv
<1>5. CASE Tick
  BY <1>5, TickTInv
<1>6. CASE UNCHANGED vars
  BY <1>6, ForgetTInv DEF vars
<1> QED
  BY <1>1, <1>2, <1>3, <1>4, <1>5, <1>6 DEF Next

\* With the negative cache in use, every variable keeps its type: no scope has three
\* failures noted once a mark is done, though marks come in any order, and no expiry
\* is further ahead than its setting (markScopeCooldownLocked, markDeepNegative).
THEOREM TypeCorrect ==
    ASSUME DeepNegativeTTL > 0 PROVE Spec => []TypeOK
<1>1. IInv /\ TInv => TypeOK
  <2> SUFFICES ASSUME IInv, TInv PROVE TypeOK
    OBVIOUS
  <2>1. /\ DOMAIN deepNeg \subseteq Exact \union ({Any} \X Scopes)
        /\ \A k \in DOMAIN deepNeg :
             /\ deepNeg[k] >= -(MaxDelay + 1)
             /\ deepNeg[k] <= (IF k \in Exact THEN DeepNegativeTTL
                                             ELSE DeepNegativeScopeCooldown)
    BY DEF TInv, ExpiryOK
  <2>2. /\ scopeFails \in [Scopes -> SUBSET Nat] /\ recent \in [Scopes -> SUBSET Nat]
        /\ DOMAIN stamp = Scopes
        /\ \A s \in Scopes :
             /\ Cardinality(scopeFails[s]) < ScopeFailThreshold
             /\ stamp[s] \in [InUse(s) -> 0 .. (ScopeFailWindow + MaxDelay + 1)]
    BY DEF TInv, ScopeOK
  <2> QED BY <2>1, <2>2 DEF TypeOK, IInv, Bookkeeping
<1> QED
  BY <1>1, InitIInv, StepIInv, InitTInv, StepTInv, PTL DEF Spec

-----------------------------------------------------------------------------
(* The cooldown                                                            *)

\* A cooldown is in use: it and the cache are switched on, and it lasts the window
\* and the wait for the mutex.
CooldownInUse ==
    /\ DeepNegativeTTL > 0 /\ AllowCPUDeepQuery /\ DeepNegativeScopeCooldown > 0
    /\ DeepNegativeScopeCooldown >= ScopeFailWindow + MaxDelay

\* A failure that a cooldown took keeps its scope closed while it counts.
LEMMA AbsorbedLive ==
    ASSUME CooldownInUse, TInv, NEW s \in Scopes, NEW f \in recent[s],
           stamp[s][f] <= ScopeFailWindow, Absorbed(s, f)
    PROVE  /\ Live(<<Any, s>>) /\ deepNeg[<<Any, s>>] \in Int
           /\ stamp[s][f] \in 0 .. ScopeFailWindow
<1>1. /\ DeepNegativeScopeCooldown \in Int /\ ScopeFailWindow \in Nat /\ MaxDelay \in Nat
      /\ DeepNegativeScopeCooldown >= ScopeFailWindow + MaxDelay
  BY NegativeAssumption DEF CooldownInUse
<1>2. stamp[s] \in [InUse(s) -> 0 .. (ScopeFailWindow + MaxDelay + 1)] /\ f \in InUse(s)
  BY DEF TInv, ScopeOK, InUse
<1>3. stamp[s][f] \in 0 .. ScopeFailWindow
  BY <1>1, <1>2
<1>4. <<Any, s>> \in DOMAIN deepNeg /\ deepNeg[<<Any, s>>] \in Int
  BY DEF Absorbed, TInv, ExpiryOK
<1>5. deepNeg[<<Any, s>>] >= 0
  BY <1>1, <1>3, <1>4 DEF Absorbed
<1> QED
  BY <1>3, <1>4, <1>5 DEF Live

\* No failure counts at the start (New).
LEMMA InitCool == ASSUME Init PROVE CoolInv
BY DEF Init, CoolInv, CoolOK

\* Forgetting expired keys does not open a scope that has to be closed
\* (shouldSkipDeepByNegativeCache).
LEMMA ForgetCool ==
    ASSUME CooldownInUse, TInv, CoolInv, UNCHANGED <<scopeFails, stamp, recent>>,
           NEW gone, \A k \in gone : ~Live(k),
           deepNeg' = deepNeg \/ deepNeg' = Without(deepNeg, gone)
    PROVE  CoolInv'
<1> SUFFICES ASSUME NEW s \in Scopes, NEW f \in recent'[s]
             PROVE  /\ stamp'[s][f] <= ScopeFailWindow
                    /\ f \in scopeFails'[s] \/ Absorbed(s, f)'
  BY DEF CoolInv, CoolOK
<1>1. /\ f \in recent[s] /\ stamp[s][f] <= ScopeFailWindow
      /\ f \in scopeFails[s] \/ Absorbed(s, f)
  BY DEF CoolInv, CoolOK
<1>2. CASE Absorbed(s, f)
  <2>1. Live(<<Any, s>>)
    BY <1>1, <1>2, AbsorbedLive
  <2>2. <<Any, s>> \in DOMAIN deepNeg' /\ deepNeg'[<<Any, s>>] = deepNeg[<<Any, s>>]
    BY <2>1, WithoutFacts DEF Live
  <2> QED BY <1>1, <1>2, <2>2 DEF Absorbed
<1> QED
  BY <1>1, <1>2

\* A mark notes its failure beside all that count, or starts a cooldown that takes
\* them all and outlasts them (markScopeCooldownLocked).
LEMMA MarkCool ==
    ASSUME CooldownInUse, IInv, TInv, CoolInv, NEW c \in Calls, Mark(c) PROVE CoolInv'
<1> DEFINE k == key[c]
           s == k[2]
           a == age[c]
<1>a. /\ DeepNegativeTTL \in Int /\ DeepNegativeScopeCooldown \in Int
      /\ ScopeFailWindow \in Nat /\ MaxDelay \in Nat /\ DeepNegativeTTL > 0 /\ Counted
  BY NegativeAssumption DEF CooldownInUse, Counted
<1>b. k \in Exact /\ s \in Scopes /\ a \in 0 .. MaxDelay
  BY DEF IInv, Bookkeeping, Exact
<1>1. /\ scopeFails'[s] = FailsAfter(s, a)
      /\ recent'[s] = IF a <= ScopeFailWindow THEN recent[s] \union {New(s)} ELSE recent[s]
      /\ stamp'[s] = [f \in scopeFails'[s] \union recent'[s] |->
                        IF f = New(s) THEN a ELSE stamp[s][f]]
      /\ \A t \in Scopes : t # s => /\ scopeFails'[t] = scopeFails[t]
                                    /\ recent'[t] = recent[t] /\ stamp'[t] = stamp[t]
  BY <1>a, MarkedScopes
<1>2. /\ Cools(s, a) => /\ <<Any, s>> \in DOMAIN deepNeg'
                        /\ deepNeg'[<<Any, s>>] = DeepNegativeScopeCooldown - a
      /\ \A x \in DOMAIN deepNeg :
           x # k /\ (x # <<Any, s>> \/ ~Cools(s, a)) =>
             x \in DOMAIN deepNeg' /\ deepNeg'[x] = deepNeg[x]
  BY <1>a, MarkedKeys
<1>3. \A t : <<Any, t>> # k
  BY <1>b, ScopeKeyApart
<1>4. ScopeOK(s) /\ New(s) \notin recent[s]
  <2>1. ScopeOK(s)
    BY <1>b DEF TInv
  <2>2. New(s) \notin InUse(s)
    BY <1>b, <2>1, MarkedFailures
  <2> QED BY <2>1, <2>2 DEF InUse
<1>5. \A f \in recent[s] : stamp[s][f] \in Int /\ stamp[s][f] >= 0
  <2>1. stamp[s] \in [scopeFails[s] \union recent[s] -> 0 .. (ScopeFailWindow + MaxDelay + 1)]
    BY <1>4 DEF ScopeOK, InUse
  <2> QED BY <1>a, <2>1
<1> HIDE DEF k, s, a
<1>6. ASSUME NEW t \in Scopes, NEW f \in recent'[t]
      PROVE  /\ stamp'[t][f] <= ScopeFailWindow
             /\ f \in scopeFails'[t] \/ Absorbed(t, f)'
  <2>1. CASE t # s
    <3>1. /\ f \in recent[t] /\ stamp'[t] = stamp[t] /\ scopeFails'[t] = scopeFails[t]
          /\ stamp[t][f] <= ScopeFailWindow
          /\ f \in scopeFails[t] \/ Absorbed(t, f)
      BY <1>1, <2>1 DEF CoolInv, CoolOK
    <3>2. ASSUME Absorbed(t, f) PROVE Absorbed(t, f)'
      <4>1. <<Any, t>> # k /\ <<Any, t>> # <<Any, s>>
        BY <1>3, <2>1
      <4> QED BY <1>2, <3>1, <3>2, <4>1 DEF Absorbed
    <3> QED BY <3>1, <3>2
  <2>2. CASE t = s
    <3>1. /\ f \in recent'[s] /\ stamp'[s][f] = IF f = New(s) THEN a ELSE stamp[s][f]
          /\ f = New(s) => a <= ScopeFailWindow
          /\ f # New(s) => f \in recent[s]
      BY <1>1, <1>4, <2>2
    <3>2. f # New(s) => /\ stamp[s][f] <= ScopeFailWindow
                        /\ f \in scopeFails[s] \/ Absorbed(s, f)
      BY <1>b, <3>1 DEF CoolInv, CoolOK
    <3>3. stamp'[t][f] <= ScopeFailWindow /\ stamp'[t][f] \in Int /\ stamp'[t][f] >= 0
      BY <1>a, <1>b, <1>5, <2>2, <3>1, <3>2
    <3>4. CASE Cools(s, a)
      <4>1. <<Any, t>> \in DOMAIN deepNeg' /\ deepNeg'[<<Any, t>>] = DeepNegativeScopeCooldown - a
        BY <1>2, <2>2, <3>4
      <4>2. deepNeg'[<<Any, t>>] + stamp'[t][f] >= DeepNegativeScopeCooldown - MaxDelay
        BY <1>a, <1>b, <3>3, <4>1
      <4> QED BY <3>3, <4>1, <4>2 DEF Absorbed
    <3>5. CASE ~Cools(s, a)
      <4>1. scopeFails'[s] = Noted(s, a)
        BY <1>1, <1>a, <3>5 DEF FailsAfter
      <4>2. CASE f = New(s)
        BY <2>2, <3>3, <4>1, <4>2 DEF Noted
      <4>3. CASE f # New(s) /\ f \in scopeFails[s]
        <5>1. stamp[s][f] - a <= ScopeFailWindow
          BY <1>a, <1>b, <1>5, <3>1, <3>2, <4>3
        <5> QED BY <2>2, <3>3, <4>1, <4>3, <5>1 DEF Noted
      <4>4. CASE f # New(s) /\ Absorbed(s, f)
        <5>1. /\ <<Any, t>> \in DOMAIN deepNeg
              /\ deepNeg[<<Any, t>>] + stamp[t][f] >= DeepNegativeScopeCooldown - MaxDelay
          BY <2>2, <4>4 DEF Absorbed
        <5>2. <<Any, t>> \in DOMAIN deepNeg' /\ deepNeg'[<<Any, t>>] = deepNeg[<<Any, t>>]
          BY <1>2, <1>3, <3>5, <5>1
        <5>3. stamp'[t][f] = stamp[t][f]
          BY <2>2, <3>1, <4>4
        <5> QED BY <3>3, <5>1, <5>2, <5>3 DEF Absorbed
      <4> QED BY <3>1, <3>2, <4>2, <4>3, <4>4
    <3> QED BY <3>4, <3>5
  <2> QED BY <2>1, <2>2
<1> QED
  BY <1>6 DEF CoolInv, CoolOK

\* Cleanup drops only failures that do not count and cooldowns that are over
\* (CleanupDeepNegativeCache).
LEMMA CleanupCool ==
    ASSUME CooldownInUse, TInv, CoolInv, Cleanup PROVE CoolInv'
<1>1. /\ deepNeg' = Without(deepNeg, {k \in DOMAIN deepNeg : ~Live(k)})
      /\ scopeFails' = [s \in Scopes |-> {f \in scopeFails[s] : stamp[s][f] <= ScopeFailWindow}]
      /\ stamp' = [s \in Scopes |-> [f \in scopeFails'[s] \union recent[s] |-> stamp[s][f]]]
      /\ recent' = recent
  BY DEF Cleanup
<1>2. ASSUME NEW s \in Scopes, NEW f \in recent'[s]
      PROVE  /\ stamp'[s][f] <= ScopeFailWindow
             /\ f \in scopeFails'[s] \/ Absorbed(s, f)'
  <2>1. /\ f \in recent[s] /\ stamp[s][f] <= ScopeFailWindow
        /\ f \in scopeFails[s] \/ Absorbed(s, f)
    BY <1>1 DEF CoolInv, CoolOK
  <2>2. stamp'[s][f] = stamp[s][f] /\ (f \in scopeFails[s] => f \in scopeFails'[s])
    BY <1>1, <2>1
  <2>3. ASSUME Absorbed(s, f) PROVE Absorbed(s, f)'
    <3>1. Live(<<Any, s>>)
      BY <2>1, <2>3, AbsorbedLive
    <3>2. <<Any, s>> \in DOMAIN deepNeg' /\ deepNeg'[<<Any, s>>] = deepNeg[<<Any, s>>]
      BY <1>1, <3>1, WithoutFacts DEF Live
    <3> QED BY <2>2, <2>3, <3>2 DEF Absorbed
  <2> QED BY <2>1, <2>2, <2>3
<1> QED
  BY <1>2 DEF CoolInv, CoolOK

\* A tick takes one from the cooldown and adds one to the ages (time.Now).
LEMMA TickCool ==
    ASSUME CooldownInUse, TInv, CoolInv, Tick PROVE CoolInv'
<1>1. /\ deepNeg' = [k \in DOMAIN deepNeg |-> IF Live(k) THEN deepNeg[k] - 1 ELSE -1]
      /\ recent' = [s \in Scopes |-> {f \in recent[s] : Older(stamp[s][f]) <= ScopeFailWindow}]
      /\ stamp' = [s \in Scopes |-> [f \in scopeFails[s] \union recent'[s] |-> Older(stamp[s][f])]]
      /\ scopeFails' = scopeFails
  BY DEF Tick
<1>2. ASSUME NEW s \in Scopes, NEW f \in recent'[s]
      PROVE  /\ stamp'[s][f] <= ScopeFailWindow
             /\ f \in scopeFails'[s] \/ Absorbed(s, f)'
  <2>1. /\ f \in recent[s] /\ stamp[s][f] <= ScopeFailWindow
        /\ f \in scopeFails[s] \/ Absorbed(s, f)
    BY <1>1 DEF CoolInv, CoolOK
  <2>2. stamp'[s][f] = Older(stamp[s][f]) /\ Older(stamp[s][f]) <= ScopeFailWindow
    BY <1>1
  <2>3. ASSUME Absorbed(s, f) PROVE Absorbed(s, f)'
    <3>1. /\ Live(<<Any, s>>) /\ deepNeg[<<Any, s>>] \in Int
          /\ stamp[s][f] \in 0 .. ScopeFailWindow
      BY <2>1, <2>3, AbsorbedLive
    <3>2. <<Any, s>> \in DOMAIN deepNeg' /\ deepNeg'[<<Any, s>>] = deepNeg[<<Any, s>>] - 1
      BY <1>1, <3>1 DEF Live
    <3>3. stamp'[s][f] = stamp[s][f] + 1
      BY <2>2, <3>1, NegativeAssumption DEF Older
    <3>4. deepNeg[<<Any, s>>] + stamp[s][f] >= DeepNegativeScopeCooldown - MaxDelay
      BY <2>3 DEF Absorbed
    <3>5. deepNeg'[<<Any, s>>] + stamp'[s][f] >= DeepNegativeScopeCooldown - MaxDelay
      BY <3>1, <3>2, <3>3, <3>4, NegativeAssumption
    <3> QED BY <3>2, <3>5 DEF Absorbed
  <2> QED BY <1>1, <2>1, <2>2, <2>3
<1> QED
  BY <1>2 DEF CoolInv, CoolOK

\* Every step keeps the cooldown.
LEMMA StepCool ==
    ASSUME CooldownInUse PROVE IInv /\ TInv /\ CoolInv /\ [Next]_vars => CoolInv'
<1> SUFFICES ASSUME IInv, TInv, CoolInv, [Next]_vars PROVE CoolInv'
  OBVIOUS
<1>1. ASSUME NEW c \in Calls, NEW k \in Exact, Consult(c, k) PROVE CoolInv'
  <2>1. UNCHANGED <<scopeFails, stamp, recent>>
    BY <1>1 DEF Consult
  <2>2. deepNeg' = deepNeg \/ \E seen : deepNeg' = Without(deepNeg, {x \in seen : ~Live(x)})
    BY <1>1 DEF Consult
  <2>3. CASE deepNeg' = deepNeg
    BY <2>1, <2>3 DEF CoolInv, CoolOK, Absorbed
  <2>4. ASSUME NEW seen, deepNeg' = Without(deepNeg, {x \in seen : ~Live(x)}) PROVE CoolInv'
    <3>1. \A x \in {x \in seen : ~Live(x)} : ~Live(x)
      OBVIOUS
    <3> QED BY <2>1, <2>4, <3>1, ForgetCool
  <2> QED BY <2>2, <2>3, <2>4
<1>2. ASSUME NEW c \in Calls, Succeed(c) \/ Fail(c) PROVE CoolInv'
  BY <1>2 DEF Succeed, Fail, CoolInv, CoolOK, Absorbed
<1>3. ASSUME NEW c \in Calls, Mark(c) PROVE CoolInv'
  BY <1>3, MarkCool
<1>4. CASE Cleanup
  BY <1>4, CleanupCool
<1>5. CASE Tick
  BY <1>5, TickCool
<1>6. CASE UNCHANGED vars
  BY <1>6 DEF vars, CoolInv, CoolOK, Absorbed
<1> QED
  BY <1>1, <1>2, <1>3, <1>4, <1>5, <1>6 DEF Next

\* With cache and cooldown in use, and a cooldown no shorter than the window and the
\* wait for the mutex, three failures of a scope within the window close the scope to
\* deep queries, in whatever order marks, look-ups and cleanups come: fewer than three
\* are noted, so a cooldown took one of them, and it outlasts them all
\* (markScopeCooldownLocked).
THEOREM CooldownCorrect ==
    ASSUME DeepNegativeTTL > 0, AllowCPUDeepQuery, DeepNegativeScopeCooldown > 0,
           DeepNegativeScopeCooldown >= ScopeFailWindow + MaxDelay
    PROVE  Spec => []ThreeFailuresCoolScope
<1>a. CooldownInUse
  BY DEF CooldownInUse
<1>1. TInv /\ CoolInv => ThreeFailuresCoolScope
  <2> SUFFICES ASSUME TInv, CoolInv, NEW s \in Scopes, NEW q \in Queries,
                      Cardinality(recent[s]) >= ScopeFailThreshold
               PROVE  SkipsScope(<<q, s>>)
    BY DEF ThreeFailuresCoolScope
  <2>1. /\ IsFiniteSet(scopeFails[s]) /\ IsFiniteSet(recent[s])
        /\ Cardinality(scopeFails[s]) < ScopeFailThreshold
    BY DEF TInv, ScopeOK
  <2>2. Cardinality(scopeFails[s]) \in Nat /\ Cardinality(recent[s]) \in Nat
    BY <2>1, FS_CardinalityType
  <2>3. ~(recent[s] \in SUBSET scopeFails[s])
    <3> SUFFICES ASSUME recent[s] \in SUBSET scopeFails[s] PROVE FALSE
      OBVIOUS
    <3>1. Cardinality(recent[s]) <= Cardinality(scopeFails[s])
      BY <2>1, FS_Subset
    <3> QED BY <2>1, <2>2, <3>1 DEF ScopeFailThreshold
  <2>4. PICK f \in recent[s] : f \notin scopeFails[s]
    BY <2>3
  <2>5. stamp[s][f] <= ScopeFailWindow /\ Absorbed(s, f)
    BY <2>4 DEF CoolInv, CoolOK
  <2>6. Live(<<Any, s>>)
    BY <1>a, <2>5, AbsorbedLive
  <2> QED BY <2>6 DEF SkipsScope
<1>2. IInv /\ TInv /\ CoolInv /\ [Next]_vars => CoolInv'
  BY <1>a, StepCool
<1> QED
  BY <1>1, <1>2, InitIInv, StepIInv, InitTInv, StepTInv, InitCool, PTL DEF Spec
=============================================================================
