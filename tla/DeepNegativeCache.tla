------------------------- MODULE DeepNegativeCache --------------------------
(***************************************************************************)
(* The negative cache of deep queries in the orchestrator: a deep search   *)
(* that failed is not tried again for its query and scope within a TTL,    *)
(* and a scope with three failures within a window cools down altogether.  *)
(* Calls consult the cache, run qmd, and mark their failure; a mark reads  *)
(* the clock before it waits for deepNegMu, so marks may be applied with   *)
(* timestamps out of order.  A look-up reads the clock as it takes the     *)
(* mutex: read earlier, it could only skip for longer by its own wait.     *)
(*                                                                         *)
(* Times are relative to now, in ticks: an expiry is how long it is still  *)
(* ahead (-1 once it is past), a timestamp is its age.  A query stands for *)
(* its normalised text cut at 64 runes, the part that the key hashes.      *)
(* A failure noted for a scope has a name of its own: the order of the     *)
(* code's slice matters to nothing, but two failures of one tick are two.  *)
(* Left out: the counters of marks and hits.                               *)
(***************************************************************************)
EXTENDS Integers, FiniteSets

CONSTANTS
    Calls,                      \* concurrent deep searches
    Queries, Scopes,
    DeepNegativeTTL,
    DeepNegativeScopeCooldown,
    ScopeFailWindow,
    AllowCPUDeepQuery,
    MaxDelay,                   \* bound: a mark waits no longer for the mutex
    Any                         \* stands for every query in the key of a scope

ScopeFailThreshold == 3

ASSUME NegativeAssumption ==
    /\ DeepNegativeTTL \in Int /\ DeepNegativeScopeCooldown \in Int
    /\ ScopeFailWindow \in Nat /\ MaxDelay \in Nat
    /\ AllowCPUDeepQuery \in BOOLEAN
    /\ Queries # {} /\ Scopes # {} /\ Any \notin Queries

VARIABLES
    deepNeg,    \* a function from the keys present to their expiry
    scopeFails, \* scopeFails[s]: the failures noted for scope s
    stamp,      \* stamp[s][f]: the age of the failure f of scope s
    pc, key,    \* key[c]: the <<query, scope>> of a call
    age,        \* age[c]: since the call read the clock for its mark
    recent,     \* history: the failures marked for a scope that are not older than
                \* the window
    last        \* history: the least age of a mark of a key

vars == <<deepNeg, scopeFails, stamp, pc, key, age, recent, last>>

Exact == Queries \X Scopes
Never == DeepNegativeTTL + ScopeFailWindow + 1  \* older than anything asks for

Init ==
    /\ deepNeg = <<>>
    /\ scopeFails = [s \in Scopes |-> {}]
    /\ stamp = [s \in Scopes |-> <<>>]
    /\ pc = [c \in Calls |-> "idle"]
    /\ key \in [Calls -> {CHOOSE k \in Exact : TRUE}]
    /\ age = [c \in Calls |-> 0]
    /\ recent = [s \in Scopes |-> {}]
    /\ last = [k \in Exact |-> Never]

Earlier(a, b) == IF a <= b THEN a ELSE b

Without(f, keys) == [k \in DOMAIN f \ keys |-> f[k]]
With(f, k, v) == [x \in DOMAIN f \union {k} |-> IF x = k THEN v ELSE f[x]]

Live(k) == k \in DOMAIN deepNeg /\ deepNeg[k] >= 0

-----------------------------------------------------------------------------
(* shouldSkipDeepByNegativeCache                                           *)

SkipsExact(k) == DeepNegativeTTL > 0 /\ Live(k)
SkipsScope(k) == DeepNegativeTTL > 0 /\ AllowCPUDeepQuery /\ Live(<<Any, k[2]>>)
Skips(k) == SkipsExact(k) \/ SkipsScope(k)

MutConsult(c, k) ==     \* a key that is hit is renewed
    /\ pc[c] = "idle"
    /\ deepNeg' = IF Live(k) THEN With(deepNeg, k, DeepNegativeTTL) ELSE deepNeg
    /\ pc' = [pc EXCEPT ![c] = IF Skips(k) THEN "idle" ELSE "running"]
    /\ key' = [key EXCEPT ![c] = k]
    /\ UNCHANGED <<scopeFails, stamp, age, recent, last>>

\* An expired key that was looked at is deleted; a live one ends the look-up.
Consult(c, k) ==
    /\ pc[c] = "idle"
    /\ deepNeg' =
         IF DeepNegativeTTL <= 0 \/ Live(k) THEN deepNeg
         ELSE LET seen == IF AllowCPUDeepQuery THEN {k, <<Any, k[2]>>} ELSE {k}
              IN  Without(deepNeg, {x \in seen : ~Live(x)})
    /\ pc' = [pc EXCEPT ![c] = IF Skips(k) THEN "idle" ELSE "running"]
    /\ key' = [key EXCEPT ![c] = k]
    /\ UNCHANGED <<scopeFails, stamp, age, recent, last>>

-----------------------------------------------------------------------------
(* The deep search and markDeepNegative                                    *)

Succeed(c) ==
    /\ pc[c] = "running"
    /\ pc' = [pc EXCEPT ![c] = "idle"]
    /\ UNCHANGED <<deepNeg, scopeFails, stamp, key, age, recent, last>>

\* Any error counts, a cancelled call and a full queue too.  now := time.Now().
Fail(c) ==
    /\ pc[c] = "running"
    /\ pc' = [pc EXCEPT ![c] = "marking"]
    /\ age' = [age EXCEPT ![c] = 0]
    /\ UNCHANGED <<deepNeg, scopeFails, stamp, key, recent, last>>

\* The name of a new failure.
InUse(s) == scopeFails[s] \union recent[s]
New(s) == CHOOSE f \in 0..Cardinality(InUse(s)) : f \notin InUse(s)

\* The failures within the window before a mark of age a, that mark added.
MutNoted(s, a) == {f \in scopeFails[s] : stamp[s][f] - a < ScopeFailWindow} \union {New(s)}
Noted(s, a) == {f \in scopeFails[s] : stamp[s][f] - a <= ScopeFailWindow} \union {New(s)}

\* markScopeCooldownLocked, called only with deep queries on the CPU allowed.
Counted == AllowCPUDeepQuery /\ DeepNegativeScopeCooldown > 0
Cools(s, a) == Counted /\ Cardinality(Noted(s, a)) >= ScopeFailThreshold

MutFailsAfter(s, a) ==  \* the failures survive the cooldown they start
    IF Counted THEN Noted(s, a) ELSE scopeFails[s]
FailsAfter(s, a) ==
    IF Cools(s, a) THEN {} ELSE IF Counted THEN Noted(s, a) ELSE scopeFails[s]

MutExpiry(k, a) == IF Live(k) THEN deepNeg[k] ELSE DeepNegativeTTL - a
Expiry(k, a) == DeepNegativeTTL - a

Mark(c) ==
    LET k == key[c]
        s == k[2]
        exact == With(deepNeg, k, Expiry(k, age[c]))
    IN  /\ pc[c] = "marking"
        /\ IF DeepNegativeTTL <= 0 THEN UNCHANGED <<deepNeg, scopeFails>>
           ELSE /\ deepNeg' = IF ~Cools(s, age[c]) THEN exact
                              ELSE With(exact, <<Any, s>>, DeepNegativeScopeCooldown - age[c])
                /\ scopeFails' = [scopeFails EXCEPT ![s] = FailsAfter(s, age[c])]
        /\ recent' = [recent EXCEPT ![s] =
                        IF age[c] <= ScopeFailWindow THEN @ \union {New(s)} ELSE @]
        /\ stamp' = [stamp EXCEPT ![s] =
                       [f \in scopeFails'[s] \union recent'[s] |->
                          IF f = New(s) THEN age[c] ELSE stamp[s][f]]]
        /\ last' = [last EXCEPT ![k] = Earlier(@, age[c])]
        /\ pc' = [pc EXCEPT ![c] = "idle"]
        /\ age' = [age EXCEPT ![c] = 0]
        /\ UNCHANGED key

-----------------------------------------------------------------------------
(* CleanupDeepNegativeCache and the clock                                  *)

Cleanup ==
    /\ deepNeg' = Without(deepNeg, {k \in DOMAIN deepNeg : ~Live(k)})
    /\ scopeFails' = [s \in Scopes |-> {f \in scopeFails[s] : stamp[s][f] <= ScopeFailWindow}]
    /\ <<deepNeg, scopeFails>>' # <<deepNeg, scopeFails>>
    /\ stamp' = [s \in Scopes |-> [f \in scopeFails'[s] \union recent[s] |-> stamp[s][f]]]
    /\ UNCHANGED <<pc, key, age, recent, last>>

\* Failures older than the window are as good as one tick older than it.
Older(a) == IF a > ScopeFailWindow + MaxDelay THEN a ELSE a + 1

Tick ==
    /\ \A c \in Calls : pc[c] = "marking" => age[c] < MaxDelay
    /\ deepNeg' = [k \in DOMAIN deepNeg |-> IF Live(k) THEN deepNeg[k] - 1 ELSE -1]
    /\ recent' = [s \in Scopes |-> {f \in recent[s] : Older(stamp[s][f]) <= ScopeFailWindow}]
    /\ stamp' = [s \in Scopes |-> [f \in scopeFails[s] \union recent'[s] |-> Older(stamp[s][f])]]
    /\ age' = [c \in Calls |-> IF pc[c] = "marking" THEN age[c] + 1 ELSE 0]
    /\ last' = [k \in Exact |-> Earlier(last[k] + 1, Never)]
    /\ UNCHANGED <<scopeFails, pc, key>>

Next ==
    \/ \E c \in Calls, k \in Exact : Consult(c, k)
    \/ \E c \in Calls : Succeed(c) \/ Fail(c) \/ Mark(c)
    \/ Cleanup
    \/ Tick

\* Time passes, and a mark gets the mutex.
Fairness == WF_vars(Tick) /\ \A c \in Calls : WF_vars(Mark(c))

Spec == Init /\ [][Next]_vars /\ Fairness

-----------------------------------------------------------------------------
(* Properties                                                              *)

\* Every variable has its type: a scope never has three failures noted once a mark is
\* done, every failure has its age, and an expiry lies no further ahead than its
\* setting and is forgotten as past (markScopeCooldownLocked, markDeepNegative).
TypeOK ==
    /\ DOMAIN deepNeg \subseteq Exact \union ({Any} \X Scopes)
    /\ \A k \in DOMAIN deepNeg :
         /\ deepNeg[k] >= -(MaxDelay + 1)
         /\ deepNeg[k] <= (IF k \in Exact THEN DeepNegativeTTL ELSE DeepNegativeScopeCooldown)
    /\ scopeFails \in [Scopes -> SUBSET Nat]
    /\ recent \in [Scopes -> SUBSET Nat]
    /\ DOMAIN stamp = Scopes
    /\ \A s \in Scopes :
         /\ Cardinality(scopeFails[s]) < ScopeFailThreshold
         /\ stamp[s] \in [InUse(s) -> 0..(ScopeFailWindow + MaxDelay + 1)]
    /\ pc \in [Calls -> {"idle", "running", "marking"}]
    /\ key \in [Calls -> Exact]
    /\ age \in [Calls -> 0..MaxDelay]
    /\ last \in [Exact -> 0..Never]

\* Three failures of a scope within the window put the scope into cooldown
\* (markScopeCooldownLocked): whatever the order in which concurrent marks get the
\* mutex, though a cooldown starts the count afresh, and whatever cleanup and
\* look-ups have deleted.  Needs a cooldown no shorter than the
\* window and the wait for the mutex.
ThreeFailuresCoolScope ==
    \A s \in Scopes : \A q \in Queries :
      Cardinality(recent[s]) >= ScopeFailThreshold => SkipsScope(<<q, s>>)

\* A failed deep query is skipped for its TTL (less the wait for the mutex, by
\* which an older mark may overwrite a newer one), and once its failures are older
\* than that, the exact key alone does not skip it (markDeepNegative,
\* shouldSkipDeepByNegativeCache).
FailureSkippedForTTL ==
    \A k \in Exact :
      /\ last[k] <= DeepNegativeTTL - MaxDelay => SkipsExact(k)
      /\ SkipsExact(k) => last[k] <= DeepNegativeTTL

\* No query stays locked out: calls in flight may prolong a cooldown, but each
\* scope is open to deep search again and again.
DeepOpensAgain == \A k \in Exact : []<>~Skips(k)
=============================================================================
