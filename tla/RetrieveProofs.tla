--------------------------- MODULE RetrieveProofs ---------------------------
(***************************************************************************)
(* Theorems about Retrieve: the hits of a response are the best that were  *)
(* found, within the limits on hits, files and characters, and SearchAndGet *)
(* shows the documents that a greedy choice by position shows.             *)
(*                                                                         *)
(* The operators of Retrieve are defined by positions and by cardinalities, *)
(* without recursion: Pick takes the hits at a set of positions, a sort ranks *)
(* a hit by the number of hits ahead of it, and a sum counts units.  What they *)
(* return is proved from counting arguments, and where a proof needs induction *)
(* it takes the least counterexample (LeastMember).                        *)
(*                                                                         *)
(* Two inductive invariants carry the theorems.  SearchInv: the list of one *)
(* search is the best of what it found (OneResult); the lists of several named *)
(* collections, each cut to its own best, are Joined, so that a hit that is *)
(* missing is outdone by hits that are there; United after the last cut; and *)
(* Spent bounds the characters by the collections that have ended.  GetInv: *)
(* the documents chosen so far rise by position and are Filled, the greedy *)
(* choice among the outcomes before next, with remaining what they leave.  *)
(***************************************************************************)
EXTENDS Retrieve, FiniteSetTheorems, TLAPS

-----------------------------------------------------------------------------
(* Finite sets and positions                                               *)

\* R is the order of the natural numbers.
Below(R) == \A m, n \in Nat : <<m, n>> \in R <=> m < n

\* The least member of a set, by the well-foundedness of <.
LEMMA LeastUnder ==
  ASSUME NEW S \in SUBSET Nat, S # {}, NEW R, IsWellFoundedOn(R, Nat), Below(R)
  PROVE  \E n \in S : \A m \in S : n <= m
<1>0. S \subseteq Nat
  OBVIOUS
<1>1. PICK n \in S : \A m \in S : ~(<<m, n>> \in R)
  BY <1>0, WFMin, Zenon
<1>2. ASSUME NEW m \in S PROVE n <= m
  <2>1. n \in Nat /\ m \in Nat
    OBVIOUS
  <2>2. ~(<<m, n>> \in R)
    BY <1>1
  <2>3. ~(m < n)
    BY <2>1, <2>2, Zenon DEF Below
  <2> QED BY <2>1, <2>3
<1> QED BY <1>2

\* A set of natural numbers has a least member, which is how the proofs below
\* argue by induction.
LEMMA LeastMember ==
  ASSUME NEW S \in SUBSET Nat, S # {}
  PROVE  \E n \in S : \A m \in S : n <= m
<1> DEFINE R == OpToRel(<, Nat)
<1>1. IsWellFoundedOn(R, Nat)
  BY NatLessThanWellFounded
<1>2. Below(R)
  BY DEF OpToRel, Below
<1> HIDE DEF R
<1> QED BY <1>1, <1>2, LeastUnder

\* The size of an interval.
LEMMA IntervalSize ==
  ASSUME NEW n \in Nat
  PROVE  IsFiniteSet(1 .. n) /\ Cardinality(1 .. n) = n
BY FS_Interval

\* Positions are finitely many.
LEMMA SubsetOfInterval ==
  ASSUME NEW n \in Nat, NEW K \in SUBSET (1 .. n)
  PROVE  IsFiniteSet(K) /\ Cardinality(K) \in 0 .. n
<1>1. IsFiniteSet(1 .. n) /\ Cardinality(1 .. n) = n
  BY FS_Interval
<1>2. IsFiniteSet(K) /\ Cardinality(K) <= n
  BY <1>1, FS_Subset
<1>3. Cardinality(K) \in Nat
  BY <1>2, FS_CardinalityType
<1> QED BY <1>2, <1>3

\* A set that lacks a member of another has fewer members.
LEMMA FewerMembers ==
  ASSUME NEW B, IsFiniteSet(B), NEW A \in SUBSET B, NEW x \in B, x \notin A
  PROVE  Cardinality(A) < Cardinality(B)
<1>1. IsFiniteSet(A) /\ Cardinality(A) <= Cardinality(B) /\ (Cardinality(B) = Cardinality(A) => B = A)
  BY FS_Subset
<1>2. Cardinality(A) \in Nat /\ Cardinality(B) \in Nat
  BY <1>1, FS_CardinalityType
<1>3. A # B
  OBVIOUS
<1> QED BY <1>1, <1>2, <1>3

\* A numbering of a finite set that never repeats reaches every number.
LEMMA NumberingIsOnto ==
  ASSUME NEW K, IsFiniteSet(K), NEW f \in [K -> 1 .. Cardinality(K)],
         \A k, l \in K : f[k] = f[l] => k = l
  PROVE  \A i \in 1 .. Cardinality(K) : \E k \in K : f[k] = i
<1> DEFINE c == Cardinality(K)
<1>1. c \in Nat
  BY FS_CardinalityType
<1>2. IsFiniteSet(1 .. c) /\ Cardinality(1 .. c) = c
  BY <1>1, FS_Interval
<1>3. f \in Injection(K, 1 .. c)
  BY DEF Injection, IsInjective
<1>4. f \in Surjection(K, 1 .. c)
  BY <1>2, <1>3, FS_Injection
<1> QED BY <1>4 DEF Surjection

\* p lists the members of K in increasing order.
Lists(p, m, K) ==
    /\ m \in Nat /\ p \in [1 .. m -> K]
    /\ \A i, j \in 1 .. m : i < j => p[i] < p[j]
    /\ \A k \in K : \E i \in 1 .. m : p[i] = k

\* Nth lists the positions of a set in rising order.
LEMMA NthLists ==
  ASSUME NEW n \in Nat, NEW K \in SUBSET (1 .. n)
  PROVE  Lists([i \in 1 .. Cardinality(K) |-> Nth(K, i)], Cardinality(K), K)
<1> DEFINE UpTo(k) == {l \in K : l <= k}
           c == Cardinality(K)
           f == [k \in K |-> Cardinality(UpTo(k))]
           p == [i \in 1 .. c |-> Nth(K, i)]
<1>1. IsFiniteSet(K) /\ c \in Nat
  BY SubsetOfInterval
<1>i. \A k \in K : k \in Int
  OBVIOUS
<1>2. ASSUME NEW k \in K PROVE IsFiniteSet(UpTo(k)) /\ Cardinality(UpTo(k)) \in 1 .. c
  <2>1. UpTo(k) \in SUBSET K /\ k \in UpTo(k)
    OBVIOUS
  <2>2. IsFiniteSet(UpTo(k)) /\ Cardinality(UpTo(k)) <= c
    BY <1>1, <2>1, FS_Subset
  <2>3. Cardinality(UpTo(k)) \in Nat
    BY <2>2, FS_CardinalityType
  <2>4. Cardinality(UpTo(k)) # 0
    BY <2>1, <2>2, FS_EmptySet
  <2> QED BY <1>1, <2>2, <2>3, <2>4
<1>3. f \in [K -> 1 .. c]
  BY <1>2
<1>4. ASSUME NEW k \in K, NEW l \in K, k < l PROVE f[k] < f[l]
  <2>0. k \in Int /\ l \in Int /\ k < l
    BY <1>4, <1>i
  <2>a. \A x \in K : x <= k => x <= l
    BY <1>i, <2>0
  <2>b. l <= l /\ ~(l <= k)
    BY <2>0
  <2>1. UpTo(k) \in SUBSET UpTo(l) /\ l \in UpTo(l) /\ l \notin UpTo(k)
    BY <2>a, <2>b
  <2>2. Cardinality(UpTo(k)) < Cardinality(UpTo(l))
    BY <1>2, <2>1, FewerMembers
  <2> QED BY <2>2
<1>5. \A k, l \in K : f[k] = f[l] => k = l
  BY <1>3, <1>4
<1>6. \A i \in 1 .. c : \E k \in K : f[k] = i
  BY <1>1, <1>3, <1>5, NumberingIsOnto
<1>7. ASSUME NEW i \in 1 .. c PROVE p[i] \in K /\ f[p[i]] = i
  <2>1. \E k \in K : Cardinality({l \in K : l <= k}) = i
    BY <1>6
  <2>2. Nth(K, i) \in K /\ Cardinality({l \in K : l <= Nth(K, i)}) = i
    BY <2>1 DEF Nth
  <2> QED BY <2>2
<1> HIDE DEF f, p
<1>8. \A i, j \in 1 .. c : i < j => p[i] < p[j]
  <2> SUFFICES ASSUME NEW i \in 1 .. c, NEW j \in 1 .. c, i < j PROVE p[i] < p[j]
    OBVIOUS
  <2>1. p[i] \in K /\ p[j] \in K /\ f[p[i]] = i /\ f[p[j]] = j
    BY <1>7
  <2>0. i # j
    BY <1>1
  <2>2. p[i] \in Int /\ p[j] \in Int /\ p[i] # p[j]
    BY <1>i, <2>0, <2>1, Zenon
  <2>3. p[j] < p[i] => f[p[j]] < f[p[i]]
    BY <1>4, <2>1, Zenon
  <2> QED BY <2>1, <2>2, <2>3
<1>9. \A k \in K : \E i \in 1 .. c : p[i] = k
  BY <1>3, <1>5, <1>7
<1>10. p \in [1 .. c -> K]
  BY <1>7 DEF p
<1>11. Lists(p, c, K)
  BY <1>1, <1>8, <1>9, <1>10 DEF Lists
<1> QED BY <1>11 DEF p

\* What Pick returns.
LEMMA PickIs ==
  ASSUME NEW n \in Nat, NEW K \in SUBSET (1 .. n), NEW s
  PROVE  \E p : /\ Lists(p, Cardinality(K), K)
                /\ Pick(s, K) = [i \in 1 .. Cardinality(K) |-> s[p[i]]]
<1> DEFINE p == [i \in 1 .. Cardinality(K) |-> Nth(K, i)]
<1>1. Lists(p, Cardinality(K), K)
  BY NthLists
<1>2. Pick(s, K) = [i \in 1 .. Cardinality(K) |-> s[p[i]]]
  BY DEF Pick
<1> QED BY <1>1, <1>2

-----------------------------------------------------------------------------
(* Order                                                                   *)

\* The positions and fields of a list of hits.
LEMMA HitFacts ==
  ASSUME NEW s \in Seq(Hit)
  PROVE  /\ Len(s) \in Nat /\ DOMAIN s = 1 .. Len(s)
         /\ s \in [1 .. Len(s) -> Hit]
         /\ \A k \in 1 .. Len(s) : s[k] \in Hit /\ s[k].score \in Nat /\ s[k].len \in Nat
<1>1. \A h \in Hit : h.score \in Nat /\ h.len \in Nat
  BY DEF Hit
<1>2. Len(s) \in Nat /\ DOMAIN s = 1 .. Len(s) /\ s \in [1 .. Len(s) -> Hit]
  OBVIOUS
<1>3. \A k \in 1 .. Len(s) : s[k] \in Hit
  BY <1>2
<1> QED BY <1>1, <1>2, <1>3

\* p takes each position of t to a position of s with the same hit.
Places(p, t, s) ==
    /\ p \in [1 .. Len(t) -> 1 .. Len(s)]
    /\ \A i \in 1 .. Len(t) : t[i] = s[p[i]]
    /\ \A i, j \in 1 .. Len(t) : p[i] = p[j] => i = j

Descending(t) == \A i, j \in 1 .. Len(t) : i < j => t[i].score >= t[j].score

\* A choice among ties gives different numbers to hits of the same score.
LEMMA TieFacts ==
  ASSUME NEW s \in Seq(Hit), NEW tie \in Ties(s)
  PROVE  /\ \A k \in 1 .. Len(s) : tie[k] \in Int
         /\ \A k, l \in 1 .. Len(s) : s[k].score = s[l].score /\ tie[k] = tie[l] => k = l
<1> DEFINE Tied(k) == {l \in DOMAIN s : s[l].score = s[k].score}
           U == UNION {1 .. Cardinality(Tied(k)) : k \in DOMAIN s}
<1>1. DOMAIN s = 1 .. Len(s)
  BY HitFacts
<1>2. /\ tie \in [DOMAIN s -> U]
      /\ \A k \in DOMAIN s : \A l \in Tied(k) : tie[k] = tie[l] => k = l
  BY Zenon DEF Ties
<1>3. ASSUME NEW u \in U PROVE u \in Int
  <2>1. PICK k \in DOMAIN s : u \in 1 .. Cardinality(Tied(k))
    BY Zenon
  <2> QED BY <2>1
<1>4. \A k, l \in DOMAIN s : s[k].score = s[l].score /\ tie[k] = tie[l] => k = l
  BY <1>2
<1> HIDE DEF U, Tied
<1>5. \A k \in DOMAIN s : tie[k] \in Int
  BY <1>2, <1>3
<1> QED BY <1>1, <1>4, <1>5

\* Ahead ranks the hits: it grows strictly from a hit to the next.
LEMMA AheadGrows ==
  ASSUME NEW s \in Seq(Hit), NEW tie \in Ties(s)
  PROVE  \A k, l \in 1 .. Len(s) : k # l =>
            \/ Cardinality(Ahead(s, tie, k)) < Cardinality(Ahead(s, tie, l)) /\ s[k].score >= s[l].score
            \/ Cardinality(Ahead(s, tie, l)) < Cardinality(Ahead(s, tie, k)) /\ s[l].score >= s[k].score
<1> DEFINE n == Len(s)
           A(k) == {l \in 1 .. n : \/ s[l].score > s[k].score
                                   \/ s[l].score = s[k].score /\ tie[l] <= tie[k]}
           Over(k, l) == s[k].score > s[l].score \/ (s[k].score = s[l].score /\ tie[k] < tie[l])
<1>1. /\ n \in Nat /\ DOMAIN s = 1 .. n
      /\ \A k \in 1 .. n : s[k].score \in Nat
  BY HitFacts
<1>2. \A k \in 1 .. n : Ahead(s, tie, k) = A(k)
  BY <1>1 DEF Ahead
<1>3. \A k \in 1 .. n : tie[k] \in Int
  BY TieFacts
<1>4. \A k, l \in 1 .. n : s[k].score = s[l].score /\ tie[k] = tie[l] => k = l
  BY TieFacts
<1>5. ASSUME NEW k \in 1 .. n PROVE IsFiniteSet(A(k))
  <2>1. A(k) \in SUBSET (1 .. n)
    OBVIOUS
  <2> QED BY <1>1, <2>1, SubsetOfInterval
<1>6. ASSUME NEW k \in 1 .. n, NEW l \in 1 .. n, Over(k, l)
      PROVE  Cardinality(A(k)) < Cardinality(A(l)) /\ s[k].score >= s[l].score
  <2>1. A(k) \in SUBSET A(l) /\ l \in A(l) /\ l \notin A(k)
    BY <1>1, <1>3, <1>6
  <2>2. Cardinality(A(k)) < Cardinality(A(l))
    BY <1>5, <2>1, FewerMembers
  <2>3. s[k].score >= s[l].score
    BY <1>1, <1>6
  <2> QED BY <2>2, <2>3
<1>7. \A k, l \in 1 .. n : k # l => Over(k, l) \/ Over(l, k)
  BY <1>1, <1>3, <1>4
<1> HIDE DEF A, Over
<1>8. \A k, l \in 1 .. n : k # l =>
         \/ Cardinality(A(k)) < Cardinality(A(l)) /\ s[k].score >= s[l].score
         \/ Cardinality(A(l)) < Cardinality(A(k)) /\ s[l].score >= s[k].score
  BY <1>6, <1>7
<1> QED BY <1>2, <1>8

\* What the sort returns: the same hits in the order of their scores.
LEMMA SortedIs ==
  ASSUME NEW s \in Seq(Hit), NEW t \in Sorted(s)
  PROVE  /\ Len(t) = Len(s) /\ t \in Seq(Hit) /\ Descending(t)
         /\ \E p : Places(p, t, s) /\ \A k \in 1 .. Len(s) : \E i \in 1 .. Len(s) : p[i] = k
<1> DEFINE n == Len(s)
<1>1. PICK tie \in Ties(s) : t = SortedBy(s, tie)
  BY DEF Sorted
<1> DEFINE c(k) == Cardinality(Ahead(s, tie, k))
           f == [k \in 1 .. n |-> c(k)]
           p == [i \in 1 .. n |-> CHOOSE k \in 1 .. n : c(k) = i]
<1>2. /\ n \in Nat /\ DOMAIN s = 1 .. n /\ s \in [1 .. n -> Hit]
      /\ \A k \in 1 .. n : s[k].score \in Nat
  BY HitFacts
<1>3. IsFiniteSet(1 .. n) /\ Cardinality(1 .. n) = n
  BY <1>2, FS_Interval
<1>4. \A k \in 1 .. n : \A l \in 1 .. n : k # l =>
         (c(k) < c(l) /\ s[k].score >= s[l].score) \/ (c(l) < c(k) /\ s[l].score >= s[k].score)
  BY AheadGrows
<1>5. ASSUME NEW k \in 1 .. n PROVE c(k) \in 1 .. n
  <2>1. Ahead(s, tie, k) \in SUBSET (1 .. n) /\ k \in Ahead(s, tie, k)
    <3>1. tie[k] \in Int
      BY TieFacts
    <3> QED BY <1>2, <3>1 DEF Ahead
  <2>2. IsFiniteSet(Ahead(s, tie, k)) /\ c(k) \in 0 .. n
    BY <1>2, <2>1, SubsetOfInterval
  <2>3. c(k) # 0
    BY <2>1, <2>2, FS_EmptySet
  <2> QED BY <1>2, <2>2, <2>3
<1>6. f \in [1 .. n -> 1 .. Cardinality(1 .. n)]
  BY <1>3, <1>5
<1> HIDE DEF c
<1>7. \A k, l \in 1 .. n : f[k] = f[l] => k = l
  BY <1>2, <1>4, <1>5
<1> HIDE DEF f
<1>8. \A i \in 1 .. n : \E k \in 1 .. n : f[k] = i
  <2>1. \A i \in 1 .. Cardinality(1 .. n) : \E k \in 1 .. n : f[k] = i
    BY <1>3, <1>6, <1>7, NumberingIsOnto
  <2> QED BY <1>3, <2>1
<1>9. ASSUME NEW i \in 1 .. n PROVE p[i] \in 1 .. n /\ c(p[i]) = i
  <2>1. \E k \in 1 .. n : c(k) = i
    BY <1>8 DEF f
  <2> QED BY <2>1
<1>10. t = [i \in 1 .. n |-> s[p[i]]]
  <2>1. t = [i \in DOMAIN s |-> s[CHOOSE k \in DOMAIN s : c(k) = i]]
    BY <1>1, Zenon DEF SortedBy, c
  <2>2. DOMAIN s = 1 .. n
    BY <1>2
  <2> DEFINE G(D) == [i \in D |-> s[CHOOSE k \in D : c(k) = i]]
  <2>3. t = G(DOMAIN s)
    BY <2>1
  <2> HIDE DEF G
  <2>4. t = G(1 .. n)
    BY <2>2, <2>3
  <2>5. t = [i \in 1 .. n |-> s[CHOOSE k \in 1 .. n : c(k) = i]]
    BY <2>4 DEF G
  <2> QED BY <2>5
<1> HIDE DEF p
<1>11. Len(t) = n /\ t \in Seq(Hit) /\ \A i \in 1 .. n : t[i] = s[p[i]]
  BY <1>2, <1>9, <1>10
<1>12. Descending(t)
  <2> SUFFICES ASSUME NEW i \in 1 .. n, NEW j \in 1 .. n, i < j PROVE t[i].score >= t[j].score
    BY <1>11 DEF Descending
  <2>1. p[i] \in 1 .. n /\ p[j] \in 1 .. n /\ c(p[i]) = i /\ c(p[j]) = j
    BY <1>9
  <2>2. p[i] # p[j] /\ ~(c(p[j]) < c(p[i]))
    BY <1>2, <2>1
  <2>3. s[p[i]].score >= s[p[j]].score
    BY <1>4, <2>1, <2>2
  <2> QED BY <1>11, <2>3
<1>13. p \in [1 .. n -> 1 .. n]
  BY <1>9 DEF p
<1>14. \A i, j \in 1 .. n : p[i] = p[j] => i = j
  BY <1>9
<1>15. ASSUME NEW k \in 1 .. n PROVE \E i \in 1 .. n : p[i] = k
  <2>1. c(k) \in 1 .. n
    BY <1>5
  <2>2. p[c(k)] \in 1 .. n /\ c(p[c(k)]) = c(k)
    BY <1>9, <2>1
  <2>3. p[c(k)] = k
    BY <1>7, <2>2 DEF f
  <2> QED BY <2>1, <2>3
<1>16. Places(p, t, s)
  BY <1>11, <1>13, <1>14 DEF Places
<1> QED BY <1>11, <1>12, <1>15, <1>16

-----------------------------------------------------------------------------
(* Duplicates and the limit per file                                       *)

\* The first two members of a set of numbers.
LEMMA FirstTwo ==
  ASSUME NEW E \in SUBSET Nat, IsFiniteSet(E), ~(Cardinality(E) < 2)
  PROVE  \E a, b \in E : a < b /\ \A x \in E : x = a \/ x >= b
<1>1. Cardinality(E) \in Nat
  BY FS_CardinalityType
<1>2. E # {}
  BY <1>1, FS_EmptySet
<1>3. PICK a \in E : \A x \in E : a <= x
  BY <1>2, LeastMember
<1>4. IsFiniteSet(E \ {a}) /\ Cardinality(E \ {a}) = Cardinality(E) - 1
  BY FS_RemoveElement
<1>5. E \ {a} # {}
  BY <1>1, <1>4, FS_EmptySet
<1>6. E \ {a} \in SUBSET Nat
  OBVIOUS
<1>7. PICK b \in E \ {a} : \A x \in E \ {a} : b <= x
  BY <1>5, <1>6, LeastMember
<1>8. a < b /\ \A x \in E : x = a \/ x >= b
  BY <1>3, <1>7
<1> QED BY <1>7, <1>8

\* Without three different members a set has at most two.
LEMMA AtMostTwo ==
  ASSUME NEW E \in SUBSET Nat, IsFiniteSet(E),
         \A a, b, c \in E : ~(a < b /\ b < c)
  PROVE  Cardinality(E) <= 2
<1> SUFFICES ASSUME ~(Cardinality(E) <= 2) PROVE FALSE
  OBVIOUS
<1>1. Cardinality(E) \in Nat
  BY FS_CardinalityType
<1>2. PICK a, b \in E : a < b /\ \A x \in E : x = a \/ x >= b
  BY <1>1, FirstTwo
<1>3. IsFiniteSet(E \ {a}) /\ Cardinality(E \ {a}) = Cardinality(E) - 1
  BY FS_RemoveElement
<1>4. IsFiniteSet((E \ {a}) \ {b}) /\ Cardinality((E \ {a}) \ {b}) = Cardinality(E) - 2
  <2>1. b \in E \ {a}
    BY <1>2
  <2>2. IsFiniteSet((E \ {a}) \ {b}) /\ Cardinality((E \ {a}) \ {b}) = Cardinality(E \ {a}) - 1
    BY <1>3, <2>1, FS_RemoveElement
  <2> QED BY <1>1, <1>3, <2>2
<1>5. (E \ {a}) \ {b} # {}
  BY <1>1, <1>4, FS_EmptySet
<1>6. PICK c \in (E \ {a}) \ {b} : TRUE
  BY <1>5
<1>7. b < c
  BY <1>2, <1>6
<1> QED BY <1>2, <1>6, <1>7

\* Two different members are at least two.
LEMMA TwoMembers ==
  ASSUME NEW E, IsFiniteSet(E), NEW a \in E, NEW b \in E, a # b
  PROVE  ~(Cardinality(E) < 2)
<1>1. Cardinality(E \ {a}) = Cardinality(E) - 1 /\ IsFiniteSet(E \ {a})
  BY FS_RemoveElement
<1>2. Cardinality(E) \in Nat /\ Cardinality(E \ {a}) \in Nat
  BY <1>1, FS_CardinalityType
<1>3. E \ {a} # {}
  OBVIOUS
<1>4. Cardinality(E \ {a}) # 0
  BY <1>1, <1>3, FS_EmptySet
<1> QED BY <1>1, <1>2, <1>4

\* Three different members are more than two.
LEMMA ThreeMembers ==
  ASSUME NEW E, IsFiniteSet(E), NEW a \in E, NEW b \in E, NEW c \in E, a # b, a # c, b # c
  PROVE  ~(Cardinality(E) <= 2)
<1>1. Cardinality(E \ {a}) = Cardinality(E) - 1 /\ IsFiniteSet(E \ {a})
  BY FS_RemoveElement
<1>2. Cardinality(E) \in Nat
  BY FS_CardinalityType
<1>3. b \in E \ {a} /\ c \in E \ {a}
  OBVIOUS
<1>4. ~(Cardinality(E \ {a}) < 2)
  BY <1>1, <1>3, TwoMembers
<1> QED BY <1>1, <1>2, <1>4

Distinct(t) == \A i, j \in 1 .. Len(t) : Key(t[i]) = Key(t[j]) => i = j

FewPerFile(t) == \A k \in 1 .. Len(t) :
                    t[k].file # NoName => Cardinality(OfFile(t, t[k].file)) <= MaxPerFile

\* The smaller of two numbers.
LEMMA LeastIs ==
  ASSUME NEW a \in Nat, NEW b \in Nat
  PROVE  /\ Least(a, b) \in Nat /\ Least(a, b) <= a /\ Least(a, b) <= b
         /\ Least(a, b) \in {a, b} /\ (b <= a => Least(a, b) = b) /\ (a <= b => Least(a, b) = a)
  BY DEF Least

\* A sequence's first elements.
LEMMA Segments ==
  ASSUME NEW a \in Nat, NEW b \in Nat, a <= b
  PROVE  /\ \A i \in 1 .. a : i \in 1 .. b
         /\ \A i \in 1 .. b : i \notin 1 .. a => a < i /\ a < b
  OBVIOUS

\* What Pick keeps of a list of hits.
LEMMA PickPlaces ==
  ASSUME NEW s \in Seq(Hit), NEW K \in SUBSET (1 .. Len(s))
  PROVE  /\ Pick(s, K) \in Seq(Hit) /\ Len(Pick(s, K)) = Cardinality(K)
         /\ \E p : Places(p, Pick(s, K), s) /\ Lists(p, Cardinality(K), K)
<1> DEFINE m == Cardinality(K)
<1>1. /\ Len(s) \in Nat /\ s \in [1 .. Len(s) -> Hit]
  BY HitFacts
<1>2. PICK p : Lists(p, m, K) /\ Pick(s, K) = [i \in 1 .. m |-> s[p[i]]]
  <2> DEFINE n == Len(s)
  <2>1. n \in Nat /\ K \in SUBSET (1 .. n)
    BY <1>1
  <2> HIDE DEF n
  <2>2. \A q : \E p : Lists(p, Cardinality(K), K) /\ Pick(q, K) = [i \in 1 .. Cardinality(K) |-> q[p[i]]]
    BY <2>1, PickIs, Zenon
  <2> QED BY <2>2, Zenon
<1>3. /\ m \in Nat /\ p \in [1 .. m -> K]
      /\ \A i, j \in 1 .. m : i < j => p[i] < p[j]
  BY <1>2 DEF Lists
<1>4. Pick(s, K) \in Seq(Hit) /\ Len(Pick(s, K)) = m
  <2> HIDE DEF m
  <2>1. \A i \in 1 .. m : s[p[i]] \in Hit
    BY <1>1, <1>3
  <2>2. [i \in 1 .. m |-> s[p[i]]] \in Seq(Hit) /\ Len([i \in 1 .. m |-> s[p[i]]]) = m
    BY <1>3, <2>1
  <2> QED BY <1>2, <2>2
<1>5. \A i, j \in 1 .. m : p[i] = p[j] => i = j
  <2> SUFFICES ASSUME NEW i \in 1 .. m, NEW j \in 1 .. m, p[i] = p[j], i # j PROVE FALSE
    OBVIOUS
  <2>1. p[i] \in 1 .. Len(s) /\ p[j] \in 1 .. Len(s)
    BY <1>3
  <2>2. i < j \/ j < i
    BY <1>3
  <2> QED BY <1>1, <1>3, <2>1, <2>2
<1>6. Places(p, Pick(s, K), s)
  <2>1. p \in [1 .. m -> 1 .. Len(s)]
    BY <1>3
  <2>2. \A i \in 1 .. m : Pick(s, K)[i] = s[p[i]]
    BY <1>2
  <2> QED BY <1>4, <1>5, <2>1, <2>2 DEF Places
<1> QED BY <1>2, <1>4, <1>6

\* What the removal of duplicates returns: a hit is missing only for one of
\* the same key before it.
LEMMA DedupIs ==
  ASSUME NEW s \in Seq(Hit)
  PROVE  /\ Dedup(s) \in Seq(Hit) /\ Distinct(Dedup(s))
         /\ \E p : /\ Places(p, Dedup(s), s)
                   /\ \A k \in 1 .. Len(s) : \/ \E i \in 1 .. Len(Dedup(s)) : p[i] = k
                                             \/ \E l \in 1 .. k - 1 : Key(s[l]) = Key(s[k])
<1> DEFINE K == {k \in 1 .. Len(s) : \A l \in 1 .. k - 1 : Key(s[l]) # Key(s[k])}
           d == Pick(s, K)
<1>1. Len(s) \in Nat /\ DOMAIN s = 1 .. Len(s)
  BY HitFacts
<1>2. Dedup(s) = d
  BY <1>1 DEF Dedup
<1>3. K \in SUBSET (1 .. Len(s))
  OBVIOUS
<1>4. /\ d \in Seq(Hit) /\ Len(d) = Cardinality(K)
      /\ \E p : Places(p, d, s) /\ Lists(p, Cardinality(K), K)
  BY <1>3, PickPlaces
<1> HIDE DEF d
<1>5. PICK p : Places(p, d, s) /\ Lists(p, Len(d), K)
  BY <1>4
<1>6. Len(d) \in Nat
  BY <1>4, HitFacts
<1>7. /\ p \in [1 .. Len(d) -> K]
      /\ \A i, j \in 1 .. Len(d) : i < j => p[i] < p[j]
      /\ \A k \in K : \E i \in 1 .. Len(d) : p[i] = k
  BY <1>5 DEF Lists
<1>8. \A i \in 1 .. Len(d) : d[i] = s[p[i]]
  BY <1>5 DEF Places
<1>9. ASSUME NEW i \in 1 .. Len(d), NEW j \in 1 .. Len(d), i < j PROVE Key(d[i]) # Key(d[j])
  <2>1. p[i] \in K /\ p[j] \in K /\ p[i] < p[j]
    BY <1>7, <1>9
  <2>2. p[i] \in 1 .. p[j] - 1
    BY <1>1, <2>1
  <2>3. Key(s[p[i]]) # Key(s[p[j]])
    BY <2>1, <2>2
  <2> QED BY <1>8, <2>3
<1>10. Distinct(d)
  <2> SUFFICES ASSUME NEW i \in 1 .. Len(d), NEW j \in 1 .. Len(d), i # j
               PROVE  Key(d[i]) # Key(d[j])
    BY DEF Distinct
  <2>1. i < j \/ j < i
    BY <1>6
  <2> QED BY <1>9, <2>1
<1>11. \A k \in 1 .. Len(s) : \/ \E i \in 1 .. Len(d) : p[i] = k
                              \/ \E l \in 1 .. k - 1 : Key(s[l]) = Key(s[k])
  BY <1>7
<1> QED BY <1>2, <1>4, <1>5, <1>10, <1>11

\* The hits of which fewer than two of the same file come before.
Kept(s) == {k \in 1 .. Len(s) : \/ s[k].file = NoName
                                \/ Cardinality({l \in OfFile(s, s[k].file) : l < k}) < MaxPerFile}

\* Diverse returns the first n of the hits it keeps.
LEMMA DiverseDef ==
  ASSUME NEW s \in Seq(Hit), NEW n \in Nat
  PROVE  LET d == Pick(s, Kept(s))
         IN  /\ d \in Seq(Hit) /\ Len(d) = Cardinality(Kept(s))
             /\ Diverse(s, n) \in Seq(Hit)
             /\ Len(Diverse(s, n)) = Least(n, Len(d))
             /\ \A i \in 1 .. Len(Diverse(s, n)) : Diverse(s, n)[i] = d[i]
             /\ \E p : Places(p, d, s) /\ Lists(p, Len(d), Kept(s))
<1> DEFINE d == Pick(s, Kept(s))
<1>1. DOMAIN s = 1 .. Len(s)
  BY HitFacts
<1>2. Kept(s) \in SUBSET (1 .. Len(s))
  BY DEF Kept
<1>3. /\ d \in Seq(Hit) /\ Len(d) = Cardinality(Kept(s))
      /\ \E p : Places(p, d, s) /\ Lists(p, Cardinality(Kept(s)), Kept(s))
  BY <1>2, PickPlaces
<1>4. Diverse(s, n) = SubSeq(d, 1, Least(n, Len(d)))
  BY <1>1 DEF Diverse, Kept
<1> HIDE DEF d
<1>5. Len(d) \in Nat
  BY <1>3, HitFacts
<1>6. Least(n, Len(d)) \in 0 .. Len(d)
  BY <1>5 DEF Least
<1>7. /\ Diverse(s, n) \in Seq(Hit) /\ Len(Diverse(s, n)) = Least(n, Len(d))
      /\ \A i \in 1 .. Len(Diverse(s, n)) : Diverse(s, n)[i] = d[i]
  BY <1>3, <1>4, <1>5, <1>6
<1> QED BY <1>3, <1>7 DEF d

\* Of a hit that is passed over, two earlier hits of its file are kept.
LEMMA PassedOver ==
  ASSUME NEW s \in Seq(Hit), NEW k \in 1 .. Len(s), k \notin Kept(s)
  PROVE  /\ s[k].file # NoName
         /\ \E a, b \in Kept(s) : a < b /\ b < k /\ s[a].file = s[k].file /\ s[b].file = s[k].file
<1> DEFINE E == {l \in OfFile(s, s[k].file) : l < k}
<1>1. Len(s) \in Nat /\ DOMAIN s = 1 .. Len(s)
  BY HitFacts
<1>2. s[k].file # NoName /\ ~(Cardinality(E) < 2)
  BY DEF Kept, MaxPerFile
<1>3. \A l \in E : l \in 1 .. Len(s) /\ l < k /\ s[l].file = s[k].file
  BY <1>1 DEF OfFile
<1>4. E \in SUBSET (1 .. Len(s)) /\ E \in SUBSET Nat
  BY <1>3
<1>5. IsFiniteSet(E)
  BY <1>1, <1>4, SubsetOfInterval
<1>6. PICK a, b \in E : a < b /\ \A x \in E : x = a \/ x >= b
  BY <1>2, <1>4, <1>5, FirstTwo
<1>7. ASSUME NEW e \in {a, b} PROVE e \in Kept(s)
  <2> DEFINE F == {l \in OfFile(s, s[e].file) : l < e}
  <2>1. e \in 1 .. Len(s) /\ e < k /\ s[e].file = s[k].file
    BY <1>3, <1>6
  <2>2. \A l \in F : l = a
    <3> SUFFICES ASSUME NEW l \in F PROVE l = a
      OBVIOUS
    <3>1. l \in 1 .. Len(s) /\ l < e /\ s[l].file = s[k].file
      BY <1>1, <2>1 DEF OfFile
    <3>2. l < k
      BY <1>1, <2>1, <3>1
    <3>3. l \in E
      BY <1>1, <3>1, <3>2 DEF OfFile
    <3>4. a \in 1 .. Len(s) /\ b \in 1 .. Len(s)
      BY <1>3, <1>6
    <3> QED BY <1>1, <1>6, <3>1, <3>3, <3>4
  <2>3. F \in SUBSET {a}
    BY <2>2
  <2>4. IsFiniteSet({a}) /\ Cardinality({a}) = 1
    BY FS_Singleton
  <2>5. IsFiniteSet(F) /\ Cardinality(F) <= 1
    BY <2>3, <2>4, FS_Subset
  <2>6. Cardinality(F) \in Nat
    BY <2>5, FS_CardinalityType
  <2>7. Cardinality(F) < MaxPerFile
    BY <2>5, <2>6 DEF MaxPerFile
  <2> HIDE DEF F
  <2> QED BY <2>1, <2>7 DEF Kept, F
<1> QED BY <1>2, <1>3, <1>6, <1>7

\* At most two hits of a file are kept.
LEMMA KeptIsFew ==
  ASSUME NEW s \in Seq(Hit), NEW a \in Kept(s), NEW b \in Kept(s), NEW c \in Kept(s),
         a < b, b < c, s[a].file = s[c].file, s[b].file = s[c].file, s[c].file # NoName
  PROVE  FALSE
<1> DEFINE E == {l \in OfFile(s, s[c].file) : l < c}
<1>1. Len(s) \in Nat /\ DOMAIN s = 1 .. Len(s)
  BY HitFacts
<1>2. a \in 1 .. Len(s) /\ b \in 1 .. Len(s) /\ c \in 1 .. Len(s)
  BY DEF Kept
<1>3. a \in E /\ b \in E /\ a # b
  BY <1>1, <1>2 DEF OfFile
<1>4. E \in SUBSET (1 .. Len(s))
  BY <1>1 DEF OfFile
<1>5. ~(Cardinality(E) < 2)
  <2>1. IsFiniteSet(E)
    BY <1>1, <1>4, SubsetOfInterval
  <2> QED BY <1>3, <2>1, TwoMembers
<1>6. Cardinality(E) < 2
  BY DEF Kept, MaxPerFile
<1> QED BY <1>5, <1>6

\* What a hit that is not in t is missing for: two hits of its file that are
\* no worse, or n hits that are no worse.
Beaten(h, t, n) ==
    \/ /\ h.file # NoName
       /\ \E i, j \in 1 .. Len(t) : /\ i # j /\ t[i].file = h.file /\ t[j].file = h.file
                                    /\ t[i].score >= h.score /\ t[j].score >= h.score
    \/ Len(t) = n /\ \A i \in 1 .. Len(t) : t[i].score >= h.score

\* What the limits on hits return.
LEMMA DiverseIs ==
  ASSUME NEW s \in Seq(Hit), Descending(s), NEW n \in Nat, NEW t, t = Diverse(s, n)
  PROVE  /\ t \in Seq(Hit) /\ Len(t) <= n /\ Descending(t) /\ FewPerFile(t)
         /\ \E p : /\ Places(p, t, s)
                   /\ \A k \in 1 .. Len(s) : \/ \E i \in 1 .. Len(t) : p[i] = k
                                             \/ Beaten(s[k], t, n)
<1> DEFINE K == Kept(s)
           d == Pick(s, K)
<1>1. /\ Len(s) \in Nat /\ DOMAIN s = 1 .. Len(s) /\ K \in SUBSET (1 .. Len(s))
      /\ \A k \in 1 .. Len(s) : s[k].score \in Nat
  BY HitFacts DEF Kept
<1>2. /\ d \in Seq(Hit) /\ t \in Seq(Hit) /\ Len(t) = Least(n, Len(d))
      /\ \A i \in 1 .. Len(t) : t[i] = d[i]
      /\ \E p : Places(p, d, s) /\ Lists(p, Len(d), K)
  BY DiverseDef
<1> HIDE DEF d, K
<1>3. PICK q : Places(q, d, s) /\ Lists(q, Len(d), K)
  BY <1>2
<1>4. Len(d) \in Nat /\ Len(t) \in Nat /\ DOMAIN t = 1 .. Len(t)
  BY <1>2, HitFacts
<1>5. Len(t) <= n /\ Len(t) <= Len(d) /\ (Len(t) < Len(d) => Len(t) = n)
  BY <1>2, <1>4 DEF Least
<1> DEFINE m == Len(t)
           p == [i \in 1 .. m |-> q[i]]
<1>6. /\ q \in [1 .. Len(d) -> K]
      /\ \A i, j \in 1 .. Len(d) : i < j => q[i] < q[j]
      /\ \A k \in K : \E i \in 1 .. Len(d) : q[i] = k
  BY <1>3 DEF Lists
<1>7. \A i \in 1 .. Len(d) : d[i] = s[q[i]]
  BY <1>3 DEF Places
<1>8. \A i \in 1 .. m : i \in 1 .. Len(d)
  BY <1>4, <1>5, Segments
<1>9. \A i \in 1 .. m : t[i] = s[q[i]] /\ q[i] \in 1 .. Len(s) /\ q[i] \in K
  BY <1>1, <1>2, <1>6, <1>7, <1>8
<1>10. \A i, j \in 1 .. m : i < j => q[i] < q[j]
  BY <1>6, <1>8
<1>11. Descending(t)
  <2> SUFFICES ASSUME NEW i \in 1 .. m, NEW j \in 1 .. m, i < j PROVE t[i].score >= t[j].score
    BY DEF Descending
  <2>1. q[i] < q[j] /\ q[i] \in 1 .. Len(s) /\ q[j] \in 1 .. Len(s)
    BY <1>9, <1>10
  <2>2. s[q[i]].score >= s[q[j]].score
    BY <2>1 DEF Descending
  <2> QED BY <1>9, <2>2
<1>12. FewPerFile(t)
  <2> SUFFICES ASSUME NEW k \in 1 .. m, t[k].file # NoName
               PROVE  Cardinality(OfFile(t, t[k].file)) <= 2
    BY DEF FewPerFile, MaxPerFile
  <2> DEFINE E == OfFile(t, t[k].file)
  <2>1. E \in SUBSET (1 .. m) /\ E \in SUBSET Nat /\ \A e \in E : t[e].file = t[k].file
    BY <1>4 DEF OfFile
  <2>2. IsFiniteSet(E)
    BY <1>4, <2>1, SubsetOfInterval
  <2>3. ASSUME NEW a \in E, NEW b \in E, NEW c \in E, a < b, b < c PROVE FALSE
    <3>1. a \in 1 .. m /\ b \in 1 .. m /\ c \in 1 .. m
      BY <2>1
    <3>2. q[a] < q[b] /\ q[b] < q[c] /\ q[a] \in K /\ q[b] \in K /\ q[c] \in K
      BY <1>9, <1>10, <2>3, <3>1
    <3>3. s[q[a]].file = t[k].file /\ s[q[b]].file = t[k].file /\ s[q[c]].file = t[k].file
      BY <1>9, <2>1, <3>1
    <3>4. s[q[a]].file = s[q[c]].file /\ s[q[b]].file = s[q[c]].file /\ s[q[c]].file # NoName
      BY <3>3
    <3> QED BY <3>2, <3>4, KeptIsFew DEF K
  <2>4. \A a, b, c \in E : ~(a < b /\ b < c)
    BY <2>3
  <2> HIDE DEF E
  <2>5. Cardinality(E) <= 2
    BY <2>1, <2>2, <2>4, AtMostTwo
  <2> QED BY <2>5 DEF E
<1>13. Places(p, t, s)
  <2>1. p \in [1 .. m -> 1 .. Len(s)] /\ \A i \in 1 .. m : t[i] = s[p[i]]
    BY <1>9
  <2>2. \A i, j \in 1 .. m : p[i] = p[j] => i = j
    <3> SUFFICES ASSUME NEW i \in 1 .. m, NEW j \in 1 .. m, q[i] = q[j], i # j PROVE FALSE
      OBVIOUS
    <3>1. q[i] \in 1 .. Len(s) /\ q[j] \in 1 .. Len(s)
      BY <1>9
    <3>2. i < j \/ j < i
      BY <1>4
    <3> QED BY <1>1, <1>10, <3>1, <3>2
  <2> QED BY <2>1, <2>2 DEF Places
\* A hit that the list has no room for comes after all those in it.
<1>14. ASSUME NEW k \in K, NEW h \in 1 .. Len(s), k <= h
       PROVE  \/ \E i \in 1 .. m : q[i] = k
              \/ m = n /\ \A i \in 1 .. m : t[i].score >= s[h].score
  <2>1. PICK x \in 1 .. Len(d) : q[x] = k
    BY <1>6
  <2>2. CASE x \in 1 .. m
    BY <2>1, <2>2
  <2>3. CASE x \notin 1 .. m
    <3>1. m < x /\ m = n
      BY <1>4, <1>5, <2>3, Segments
    <3>2. ASSUME NEW i \in 1 .. m PROVE t[i].score >= s[h].score
      <4>1. i \in 1 .. Len(d) /\ i < x
        BY <1>4, <1>8, <3>1
      <4>2. q[i] < q[x]
        BY <1>6, <4>1
      <4>3. q[i] \in 1 .. Len(s) /\ k \in 1 .. Len(s)
        BY <1>1, <1>9
      <4>4. q[i] < h
        BY <1>1, <1>14, <2>1, <4>2, <4>3
      <4>5. s[q[i]].score >= s[h].score
        BY <4>3, <4>4 DEF Descending
      <4> QED BY <1>9, <4>5
    <3> QED BY <3>1, <3>2
  <2> QED BY <2>2, <2>3
<1>15. ASSUME NEW k \in 1 .. Len(s)
       PROVE  (\E i \in 1 .. m : p[i] = k) \/ Beaten(s[k], t, n)
  <2>1. CASE k \in K
    <3>1. k <= k
      BY <1>1
    <3> QED BY <1>14, <2>1, <3>1 DEF Beaten
  <2>2. CASE k \notin K
    <3>1. s[k].file # NoName
      BY <2>2, PassedOver DEF K
    <3>2. PICK a, b \in K : a < b /\ b < k /\ s[a].file = s[k].file /\ s[b].file = s[k].file
      BY <2>2, PassedOver DEF K
    <3>3. a \in 1 .. Len(s) /\ b \in 1 .. Len(s) /\ a < k /\ a <= k /\ b <= k
      BY <1>1, <3>2
    <3>4. CASE m = n /\ \A i \in 1 .. m : t[i].score >= s[k].score
      BY <3>4 DEF Beaten
    <3>5. CASE (\E i \in 1 .. m : q[i] = a) /\ (\E j \in 1 .. m : q[j] = b)
      <4>1. PICK i, j \in 1 .. m : q[i] = a /\ q[j] = b
        BY <3>5
      <4>2. i # j
        BY <1>1, <3>2, <3>3, <4>1
      <4>3. s[a].score >= s[k].score /\ s[b].score >= s[k].score
        BY <3>2, <3>3 DEF Descending
      <4>4. t[i].file = s[k].file /\ t[j].file = s[k].file /\ t[i].score >= s[k].score /\ t[j].score >= s[k].score
        BY <1>9, <3>2, <4>1, <4>3
      <4> QED BY <3>1, <4>2, <4>4 DEF Beaten
    <3> QED BY <1>14, <3>2, <3>3, <3>4, <3>5
  <2> QED BY <2>1, <2>2
<1> HIDE DEF p
<1> QED BY <1>2, <1>5, <1>11, <1>12, <1>13, <1>15

\* A list that keeps the limits loses nothing.
LEMMA DiverseKeepsAll ==
  ASSUME NEW s \in Seq(Hit), NEW n \in Nat, FewPerFile(s), Len(s) <= n
  PROVE  Len(Diverse(s, n)) = Len(s)
<1>1. Len(s) \in Nat /\ DOMAIN s = 1 .. Len(s)
  BY HitFacts
<1>2. ASSUME NEW k \in 1 .. Len(s) PROVE k \in Kept(s)
  <2> DEFINE F == OfFile(s, s[k].file)
             E == {l \in F : l < k}
  <2>1. F \in SUBSET (1 .. Len(s)) /\ k \in F
    BY <1>1 DEF OfFile
  <2>2. E \in SUBSET F /\ k \notin E /\ E \in SUBSET (1 .. Len(s))
    BY <1>1, <2>1
  <2>3. IsFiniteSet(F) /\ Cardinality(F) \in Nat /\ Cardinality(E) \in Nat
    BY <1>1, <2>1, <2>2, SubsetOfInterval
  <2>4. Cardinality(E) < Cardinality(F)
    BY <2>1, <2>2, <2>3, FewerMembers
  <2>5. s[k].file # NoName => Cardinality(E) < MaxPerFile
    BY <2>3, <2>4 DEF FewPerFile, MaxPerFile
  <2> QED BY <2>5 DEF Kept
<1>3. Kept(s) = 1 .. Len(s)
  BY <1>2 DEF Kept
<1>4. Cardinality(Kept(s)) = Len(s)
  <2>1. \A c \in Nat : Cardinality(1 .. c) = c
    BY FS_Interval
  <2> QED BY <1>1, <1>3, <2>1
<1>5. /\ Len(Pick(s, Kept(s))) = Cardinality(Kept(s))
      /\ Len(Diverse(s, n)) = Least(n, Len(Pick(s, Kept(s))))
  BY DiverseDef
<1>6. Len(Diverse(s, n)) = Least(n, Len(s))
  BY <1>4, <1>5
<1>7. Least(n, Len(s)) = Len(s)
  BY <1>1, LeastIs
<1> QED BY <1>6, <1>7

-----------------------------------------------------------------------------
(* DedupSortLimit                                                          *)

\* An arrangement of an arrangement is an arrangement.
LEMMA PlacesCompose ==
  ASSUME NEW s, NEW t, NEW u, NEW p, NEW q, Places(p, t, s), Places(q, u, t)
  PROVE  Places([i \in 1 .. Len(u) |-> p[q[i]]], u, s)
BY DEF Places

\* A list made of hits at different places of a list without duplicates has
\* none.
LEMMA PlacesDistinct ==
  ASSUME NEW s, NEW t, NEW p, Places(p, t, s), Distinct(s)
  PROVE  Distinct(t)
<1> SUFFICES ASSUME NEW i \in 1 .. Len(t), NEW j \in 1 .. Len(t), Key(t[i]) = Key(t[j])
             PROVE  i = j
  BY DEF Distinct
<1>1. p[i] \in 1 .. Len(s) /\ p[j] \in 1 .. Len(s) /\ t[i] = s[p[i]] /\ t[j] = s[p[j]]
  BY DEF Places
<1>2. p[i] = p[j]
  BY <1>1 DEF Distinct
<1> QED BY <1>2 DEF Places

\* An arrangement of the same length reaches every place.
LEMMA PlacesOnto ==
  ASSUME NEW n \in Nat, NEW p \in [1 .. n -> 1 .. n], \A i, j \in 1 .. n : p[i] = p[j] => i = j
  PROVE  \A k \in 1 .. n : \E i \in 1 .. n : p[i] = k
<1>1. IsFiniteSet(1 .. n) /\ Cardinality(1 .. n) = n
  BY FS_Interval
<1>2. p \in [1 .. n -> 1 .. Cardinality(1 .. n)]
  BY <1>1
<1>3. \A i \in 1 .. Cardinality(1 .. n) : \E k \in 1 .. n : p[k] = i
  BY <1>1, <1>2, NumberingIsOnto
<1> QED BY <1>1, <1>3

\* A hit of s that is missing in t is a duplicate or is beaten.
Accounted(s, t, p, n) ==
    \A k \in 1 .. Len(s) : \/ \E i \in 1 .. Len(t) : p[i] = k
                           \/ \E l \in 1 .. k - 1 : Key(s[l]) = Key(s[k])
                           \/ n > 0 /\ Beaten(s[k], t, n)

\* What DedupSortLimit returns: hits of its input in order, each at most once,
\* and an account of those that are missing.
LEMMA DedupSortLimitIs ==
  ASSUME NEW s \in Seq(Hit), NEW n \in Nat, NEW t \in DedupSortLimit(s, n)
  PROVE  /\ t \in Seq(Hit) /\ Descending(t) /\ Distinct(t)
         /\ n > 0 => Len(t) <= n /\ FewPerFile(t)
         /\ \E p : Places(p, t, s) /\ Accounted(s, t, p, n)
<1> DEFINE d == Dedup(s)
<1>1. /\ d \in Seq(Hit) /\ Distinct(d)
      /\ \E p : /\ Places(p, d, s)
                /\ \A k \in 1 .. Len(s) : \/ \E i \in 1 .. Len(d) : p[i] = k
                                          \/ \E l \in 1 .. k - 1 : Key(s[l]) = Key(s[k])
  BY DedupIs
<1>2. PICK u \in Sorted(d) : t = IF n > 0 THEN Diverse(u, n) ELSE u
  BY DEF DedupSortLimit
<1> HIDE DEF d
<1>3. PICK a : /\ Places(a, d, s)
               /\ \A k \in 1 .. Len(s) : \/ \E i \in 1 .. Len(d) : a[i] = k
                                         \/ \E l \in 1 .. k - 1 : Key(s[l]) = Key(s[k])
  BY <1>1
<1>4. /\ Len(u) = Len(d) /\ u \in Seq(Hit) /\ Descending(u)
      /\ \E p : Places(p, u, d) /\ \A k \in 1 .. Len(d) : \E i \in 1 .. Len(d) : p[i] = k
  BY <1>1, <1>2, SortedIs
<1>5. PICK b : Places(b, u, d) /\ \A k \in 1 .. Len(d) : \E i \in 1 .. Len(d) : b[i] = k
  BY <1>4
<1> DEFINE c == [i \in 1 .. Len(u) |-> a[b[i]]]
<1>6. Places(c, u, s)
  BY <1>3, <1>5, PlacesCompose
<1>7. Distinct(u)
  BY <1>1, <1>5, PlacesDistinct
<1>8. ASSUME NEW k \in 1 .. Len(s)
      PROVE  (\E i \in 1 .. Len(u) : c[i] = k) \/ \E l \in 1 .. k - 1 : Key(s[l]) = Key(s[k])
  <2>1. CASE \E l \in 1 .. k - 1 : Key(s[l]) = Key(s[k])
    BY <2>1
  <2>2. CASE \E j \in 1 .. Len(d) : a[j] = k
    <3>1. PICK j \in 1 .. Len(d) : a[j] = k
      BY <2>2
    <3>2. PICK i \in 1 .. Len(d) : b[i] = j
      BY <1>5
    <3>3. i \in 1 .. Len(u) /\ c[i] = k
      BY <1>4, <3>1, <3>2
    <3> QED BY <3>3
  <2> QED BY <1>3, <2>1, <2>2
<1> HIDE DEF c
<1>9. CASE n = 0
  <2>1. t = u
    BY <1>2, <1>9
  <2> QED BY <1>4, <1>6, <1>7, <1>8, <1>9, <2>1 DEF Accounted
<1>10. CASE n > 0
  <2>1. t = Diverse(u, n)
    BY <1>2, <1>10
  <2>2. /\ t \in Seq(Hit) /\ Len(t) <= n /\ Descending(t) /\ FewPerFile(t)
        /\ \E p : /\ Places(p, t, u)
                  /\ \A k \in 1 .. Len(u) : \/ \E i \in 1 .. Len(t) : p[i] = k
                                            \/ Beaten(u[k], t, n)
    BY <1>4, <2>1, DiverseIs
  <2>3. PICK e : /\ Places(e, t, u)
                 /\ \A k \in 1 .. Len(u) : (\E i \in 1 .. Len(t) : e[i] = k) \/ Beaten(u[k], t, n)
    BY <2>2
  <2> DEFINE f == [i \in 1 .. Len(t) |-> c[e[i]]]
  <2>4. Places(f, t, s)
    BY <1>6, <2>3, PlacesCompose
  <2>5. Distinct(t)
    BY <1>7, <2>3, PlacesDistinct
  <2>6. ASSUME NEW k \in 1 .. Len(s), ~(\E l \in 1 .. k - 1 : Key(s[l]) = Key(s[k]))
        PROVE  (\E i \in 1 .. Len(t) : f[i] = k) \/ Beaten(s[k], t, n)
    <3>1. PICK i \in 1 .. Len(u) : c[i] = k
      BY <1>8, <2>6
    <3>2. u[i] = s[k]
      BY <1>6, <3>1 DEF Places
    <3>3. CASE \E x \in 1 .. Len(t) : e[x] = i
      BY <3>1, <3>3
    <3>4. CASE Beaten(u[i], t, n)
      BY <3>2, <3>4
    <3> QED BY <2>3, <3>3, <3>4
  <2> HIDE DEF f
  <2>7. Accounted(s, t, f, n)
    BY <1>10, <2>6 DEF Accounted
  <2> QED BY <2>2, <2>4, <2>5, <2>7
<1> QED BY <1>9, <1>10

\* Moving hits gives no file more of them.
LEMMA FewInArrangement ==
  ASSUME NEW s \in Seq(Hit), NEW u \in Seq(Hit), NEW c, Places(c, u, s), FewPerFile(s)
  PROVE  FewPerFile(u)
<1> SUFFICES ASSUME NEW k \in 1 .. Len(u), u[k].file # NoName
             PROVE  Cardinality(OfFile(u, u[k].file)) <= MaxPerFile
  BY DEF FewPerFile
<1> DEFINE f == u[k].file
           E == OfFile(u, f)
           F == OfFile(s, f)
           g == [e \in E |-> c[e]]
<1>1. /\ Len(s) \in Nat /\ DOMAIN s = 1 .. Len(s)
      /\ Len(u) \in Nat /\ DOMAIN u = 1 .. Len(u)
  BY HitFacts
<1>2. /\ c \in [1 .. Len(u) -> 1 .. Len(s)] /\ \A i \in 1 .. Len(u) : u[i] = s[c[i]]
      /\ \A i, j \in 1 .. Len(u) : c[i] = c[j] => i = j
  BY DEF Places
<1>3. g \in [E -> F] /\ \A i, j \in E : g[i] = g[j] => i = j
  BY <1>1, <1>2 DEF OfFile
<1>4. g \in Injection(E, F)
  BY <1>3 DEF Injection, IsInjective
<1>5. E \in SUBSET (1 .. Len(u)) /\ F \in SUBSET (1 .. Len(s))
  BY <1>1 DEF OfFile
<1>6. IsFiniteSet(F) /\ Cardinality(F) \in Nat /\ Cardinality(E) \in Nat
  BY <1>1, <1>5, SubsetOfInterval
<1>7. Cardinality(E) <= Cardinality(F)
  BY <1>4, <1>6, FS_Injection
<1>8. c[k] \in 1 .. Len(s) /\ s[c[k]].file = f
  BY <1>2
<1>9. Cardinality(F) <= MaxPerFile
  BY <1>8 DEF FewPerFile
<1> QED BY <1>6, <1>7, <1>9 DEF MaxPerFile

\* A list that keeps the limits is only ordered.
LEMMA DedupSortLimitKeepsAll ==
  ASSUME NEW s \in Seq(Hit), NEW n \in Nat, NEW t \in DedupSortLimit(s, n),
         Distinct(s), n > 0 => FewPerFile(s) /\ Len(s) <= n
  PROVE  Len(t) = Len(s)
<1> DEFINE d == Dedup(s)
<1>0. /\ d \in Seq(Hit)
      /\ \E p : /\ Places(p, d, s)
                /\ \A k \in 1 .. Len(s) : \/ \E i \in 1 .. Len(d) : p[i] = k
                                          \/ \E l \in 1 .. k - 1 : Key(s[l]) = Key(s[k])
  BY DedupIs
<1>1. PICK u \in Sorted(d) : t = IF n > 0 THEN Diverse(u, n) ELSE u
  BY DEF DedupSortLimit
<1> HIDE DEF d
<1>2. PICK a : /\ Places(a, d, s)
               /\ \A k \in 1 .. Len(s) : \/ \E i \in 1 .. Len(d) : a[i] = k
                                         \/ \E l \in 1 .. k - 1 : Key(s[l]) = Key(s[k])
  BY <1>0
<1>3. Len(s) \in Nat /\ Len(d) \in Nat
  BY <1>0, HitFacts
<1>4. \A k \in 1 .. Len(s) : \E i \in 1 .. Len(d) : a[i] = k
  <2> SUFFICES ASSUME NEW k \in 1 .. Len(s), NEW l \in 1 .. k - 1, Key(s[l]) = Key(s[k]) PROVE FALSE
    BY <1>2
  <2>1. l \in 1 .. Len(s) /\ l # k
    BY <1>3
  <2> QED BY <2>1 DEF Distinct
<1>5. Len(d) = Len(s)
  <2>1. a \in [1 .. Len(d) -> 1 .. Len(s)] /\ \A i, j \in 1 .. Len(d) : a[i] = a[j] => i = j
    BY <1>2 DEF Places
  <2>2. a \in Injection(1 .. Len(d), 1 .. Len(s)) /\ a \in Surjection(1 .. Len(d), 1 .. Len(s))
    BY <1>4, <2>1 DEF Injection, Surjection, IsInjective
  <2>4. IsFiniteSet(1 .. Len(s)) /\ Cardinality(1 .. Len(s)) = Len(s) /\ Cardinality(1 .. Len(d)) = Len(d)
    BY <1>3, IntervalSize
  <2>5. Cardinality(1 .. Len(d)) = Cardinality(1 .. Len(s))
    BY <2>2, <2>4, FS_Injection
  <2> QED BY <2>4, <2>5
<1>6. /\ Len(u) = Len(d) /\ u \in Seq(Hit) /\ Descending(u)
      /\ \E p : Places(p, u, d)
  BY <1>0, <1>1, SortedIs
<1>7. PICK b : Places(b, u, d)
  BY <1>6
<1>8. CASE n = 0
  BY <1>1, <1>5, <1>6, <1>8
<1>9. CASE n > 0
  <2> DEFINE c == [i \in 1 .. Len(u) |-> a[b[i]]]
  <2>1. Places(c, u, s)
    BY <1>2, <1>7, PlacesCompose
  <2> HIDE DEF c
  <2>2. FewPerFile(u)
    BY <1>5, <1>6, <1>9, <2>1, FewInArrangement
  <2>3. Len(Diverse(u, n)) = Len(u)
    BY <1>5, <1>6, <1>9, <2>2, DiverseKeepsAll
  <2> QED BY <1>1, <1>5, <1>6, <1>9, <2>3
<1> QED BY <1>8, <1>9

-----------------------------------------------------------------------------
(* Sums                                                                    *)

\* The units that are counted.
LEMMA UnitsAre ==
  ASSUME NEW f, NEW D
  PROVE  /\ \A z \in Units(f, D) : z = <<z[1], z[2]>> /\ z[1] \in D /\ z[2] \in 1 .. f[z[1]]
         /\ \A k \in D : \A c \in 1 .. f[k] : <<k, c>> \in Units(f, D)
<1>1. ASSUME NEW z \in Units(f, D)
      PROVE  z = <<z[1], z[2]>> /\ z[1] \in D /\ z[2] \in 1 .. f[z[1]]
  <2>1. PICK k \in D : z \in {k} \X (1 .. f[k])
    BY DEF Units
  <2> QED BY <2>1
<1>2. ASSUME NEW k \in D, NEW c \in 1 .. f[k] PROVE <<k, c>> \in Units(f, D)
  <2>1. <<k, c>> \in {k} \X (1 .. f[k])
    OBVIOUS
  <2> QED BY <2>1 DEF Units
<1> QED BY <1>1, <1>2

\* The units of one position.
LEMMA Column ==
  ASSUME NEW x, NEW n \in Nat
  PROVE  IsFiniteSet({x} \X (1 .. n)) /\ Cardinality({x} \X (1 .. n)) = n
<1>1. IsFiniteSet({x}) /\ Cardinality({x}) = 1
  BY FS_Singleton
<1>2. IsFiniteSet(1 .. n) /\ Cardinality(1 .. n) = n
  BY IntervalSize
<1>3. /\ IsFiniteSet({x} \X (1 .. n))
      /\ Cardinality({x} \X (1 .. n)) = Cardinality({x}) * Cardinality(1 .. n)
  BY <1>1, <1>2, FS_Product
<1> QED BY <1>1, <1>2, <1>3

\* A finite sum is a number.
LEMMA UnitsFinite ==
  ASSUME NEW D, IsFiniteSet(D), NEW f, \A k \in D : f[k] \in Nat
  PROVE  IsFiniteSet(Units(f, D)) /\ Total(f, D) \in Nat
<1> DEFINE S == {{k} \X (1 .. f[k]) : k \in D}
           g == [k \in D |-> {k} \X (1 .. f[k])]
<1>1. g \in Surjection(D, S)
  BY DEF Surjection
<1>2. IsFiniteSet(S)
  BY <1>1, FS_Surjection
<1>3. ASSUME NEW T \in S PROVE IsFiniteSet(T)
  <2>1. PICK k \in D : T = {k} \X (1 .. f[k])
    OBVIOUS
  <2>2. f[k] \in Nat
    OBVIOUS
  <2>3. IsFiniteSet({k} \X (1 .. f[k]))
    BY <2>2, Column
  <2> QED BY <2>1, <2>3
<1>4. \A T \in S : IsFiniteSet(T)
  BY <1>3
<1> HIDE DEF S
<1>5. IsFiniteSet(UNION S)
  BY <1>2, <1>4, FS_UNION
<1>6. IsFiniteSet(Units(f, D))
  BY <1>5 DEF Units, S
<1> QED BY <1>6, FS_CardinalityType DEF Total

\* The empty sum.
LEMMA TotalEmpty ==
  ASSUME NEW f
  PROVE  Total(f, {}) = 0
<1>1. Units(f, {}) = {}
  BY UnitsAre
<1> QED BY <1>1, FS_EmptySet DEF Total

\* A sum with one more term.
LEMMA TotalAdd ==
  ASSUME NEW D, IsFiniteSet(D), NEW f, \A k \in D : f[k] \in Nat, NEW x, x \notin D, f[x] \in Nat
  PROVE  Total(f, D \union {x}) = Total(f, D) + f[x]
<1> DEFINE A == Units(f, D)
           B == {x} \X (1 .. f[x])
<1>1. IsFiniteSet(A) /\ Cardinality(A) \in Nat
  BY UnitsFinite DEF Total
<1>2. IsFiniteSet(B) /\ Cardinality(B) = f[x]
  BY Column
<1>3. Units(f, D \union {x}) = A \union B
  BY DEF Units
<1>4. A \cap B = {}
  BY UnitsAre
<1> HIDE DEF A, B
<1>5. Cardinality(A \union B) = Cardinality(A) + Cardinality(B) - Cardinality(A \cap B)
  BY <1>1, <1>2, FS_Union
<1>6. Cardinality(A \cap B) = 0
  BY <1>4, FS_EmptySet
<1>7. Cardinality(A \union B) = Cardinality(A) + f[x]
  BY <1>1, <1>2, <1>5, <1>6
<1> QED BY <1>3, <1>7 DEF Total, A

\* A sum over places that are taken to other places, with the same values
\* there, is no larger than the sum over these.
LEMMA TotalInjection ==
  ASSUME NEW D, NEW E, IsFiniteSet(E), NEW f, NEW g, \A k \in E : g[k] \in Nat,
         NEW p \in [D -> E], \A k \in D : f[k] = g[p[k]],
         \A k, l \in D : p[k] = p[l] => k = l
  PROVE  Total(f, D) <= Total(g, E)
<1> DEFINE A == Units(f, D)
           B == Units(g, E)
           q == [z \in A |-> <<p[z[1]], z[2]>>]
<1>1. IsFiniteSet(B)
  BY UnitsFinite
<1>2. ASSUME NEW z \in A PROVE q[z] \in B
  <2>1. z[1] \in D /\ z[2] \in 1 .. f[z[1]]
    BY UnitsAre
  <2>2. p[z[1]] \in E /\ z[2] \in 1 .. g[p[z[1]]]
    BY <2>1
  <2>3. <<p[z[1]], z[2]>> \in B
    BY <2>2, UnitsAre
  <2> QED BY <2>3
<1>3. ASSUME NEW y \in A, NEW z \in A, q[y] = q[z] PROVE y = z
  <2>1. y = <<y[1], y[2]>> /\ z = <<z[1], z[2]>> /\ y[1] \in D /\ z[1] \in D
    BY UnitsAre
  <2>2. p[y[1]] = p[z[1]] /\ y[2] = z[2]
    BY <1>3
  <2>3. y[1] = z[1]
    BY <2>1, <2>2
  <2> QED BY <2>1, <2>2, <2>3
<1>4. q \in [A -> B]
  BY <1>2
<1>5. q \in Injection(A, B)
  BY <1>3, <1>4 DEF Injection, IsInjective
<1>6. Cardinality(A) <= Cardinality(B)
  BY <1>1, <1>5, FS_Injection
<1> QED BY <1>6 DEF Total

\* A sum depends only on its terms.
LEMMA TotalSame ==
  ASSUME NEW D, NEW f, NEW g, \A k \in D : f[k] = g[k]
  PROVE  Total(f, D) = Total(g, D)
<1>1. Units(f, D) = Units(g, D)
  BY DEF Units
<1> QED BY <1>1 DEF Total

-----------------------------------------------------------------------------
(* Characters                                                              *)

\* The characters of a list are a number.
LEMMA CharsType ==
  ASSUME NEW s \in Seq(Hit)
  PROVE  Chars(s) \in Nat
<1> DEFINE f == [k \in 1 .. Len(s) |-> s[k].len]
<1>1. Len(s) \in Nat /\ DOMAIN s = 1 .. Len(s) /\ \A k \in 1 .. Len(s) : f[k] \in Nat
  BY HitFacts
<1>2. IsFiniteSet(1 .. Len(s))
  BY <1>1, IntervalSize
<1>3. Chars(s) = Total(f, 1 .. Len(s))
  BY <1>1 DEF Chars
<1> HIDE DEF f
<1> QED BY <1>1, <1>2, <1>3, UnitsFinite

\* Dropping and moving hits adds no characters.
LEMMA CharsPlaces ==
  ASSUME NEW s \in Seq(Hit), NEW t \in Seq(Hit), NEW p, Places(p, t, s)
  PROVE  Chars(t) <= Chars(s)
<1> DEFINE f == [k \in 1 .. Len(t) |-> t[k].len]
           g == [k \in 1 .. Len(s) |-> s[k].len]
<1>1. Len(s) \in Nat /\ DOMAIN s = 1 .. Len(s) /\ DOMAIN t = 1 .. Len(t) /\ \A k \in 1 .. Len(s) : g[k] \in Nat
  BY HitFacts
<1>2. IsFiniteSet(1 .. Len(s))
  BY <1>1, IntervalSize
<1>3. Chars(s) = Total(g, 1 .. Len(s)) /\ Chars(t) = Total(f, 1 .. Len(t))
  BY <1>1 DEF Chars
<1>4. /\ p \in [1 .. Len(t) -> 1 .. Len(s)]
      /\ \A k, l \in 1 .. Len(t) : p[k] = p[l] => k = l
      /\ \A k \in 1 .. Len(t) : f[k] = g[p[k]]
  BY DEF Places
<1> HIDE DEF f, g
<1> DEFINE D == 1 .. Len(t)
           E == 1 .. Len(s)
<1>5. /\ IsFiniteSet(E) /\ \A k \in E : g[k] \in Nat
      /\ p \in [D -> E] /\ \A k \in D : f[k] = g[p[k]]
      /\ \A k, l \in D : p[k] = p[l] => k = l
  BY <1>1, <1>2, <1>4
<1> HIDE DEF D, E
<1>6. Total(f, D) <= Total(g, E)
  BY <1>5, TotalInjection
<1> QED BY <1>3, <1>6 DEF D, E

\* A further hit adds its characters.
LEMMA CharsAppend ==
  ASSUME NEW s \in Seq(Hit), NEW h \in Hit
  PROVE  Chars(Append(s, h)) = Chars(s) + h.len
<1> DEFINE t == Append(s, h)
           n == Len(s)
           f == [k \in 1 .. n |-> s[k].len]
           g == [k \in 1 .. n + 1 |-> t[k].len]
<1>1. /\ n \in Nat /\ DOMAIN s = 1 .. n /\ \A k \in 1 .. n : s[k].len \in Nat
  BY HitFacts
<1>2. /\ DOMAIN t = 1 .. n + 1 /\ t[n + 1] = h /\ \A k \in 1 .. n : t[k] = s[k]
  BY <1>1
<1>3. Chars(s) = Total(f, 1 .. n) /\ Chars(t) = Total(g, 1 .. n + 1)
  BY <1>1, <1>2 DEF Chars
<1>4. h.len \in Nat
  BY DEF Hit
<1>5. /\ \A k \in 1 .. n : f[k] = g[k] /\ g[k] \in Nat
      /\ g[n + 1] = h.len
      /\ 1 .. n + 1 = (1 .. n) \union {n + 1} /\ n + 1 \notin 1 .. n
  BY <1>1, <1>2
<1> HIDE DEF f, g, t
<1>6. IsFiniteSet(1 .. n)
  BY <1>1, IntervalSize
<1>7. Total(g, (1 .. n) \union {n + 1}) = Total(g, 1 .. n) + g[n + 1]
  <2> DEFINE D == 1 .. n
             x == n + 1
  <2>1. IsFiniteSet(D) /\ x \notin D /\ g[x] \in Nat /\ \A k \in D : g[k] \in Nat
    BY <1>4, <1>5, <1>6
  <2> HIDE DEF D, x
  <2>2. Total(g, D \union {x}) = Total(g, D) + g[x]
    BY <2>1, TotalAdd
  <2> QED BY <2>2 DEF D, x
<1>8. Total(f, 1 .. n) = Total(g, 1 .. n)
  BY <1>5, TotalSame
<1>9. Chars(t) = Chars(s) + h.len
  BY <1>3, <1>5, <1>7, <1>8
<1> QED BY <1>9 DEF t

\* No hits, no characters.
LEMMA CharsEmpty == Chars(<< >>) = 0
<1>1. DOMAIN << >> = {}
  OBVIOUS
<1> QED BY <1>1, TotalEmpty DEF Chars

\* Joined lists have no more characters than both.
LEMMA CharsConcat ==
  ASSUME NEW s \in Seq(Hit), NEW t \in Seq(Hit)
  PROVE  Chars(s \o t) <= Chars(s) + Chars(t)
<1> DEFINE m == Len(s)
           n == Len(t)
           f == [k \in 1 .. m |-> s[k].len]
           g == [k \in 1 .. n |-> t[k].len]
           h == [k \in 1 .. m + n |-> (s \o t)[k].len]
           D == 1 .. m
           E == m + 1 .. m + n
           p == [k \in E |-> k - m]
<1>1. /\ m \in Nat /\ DOMAIN s = 1 .. m /\ \A k \in 1 .. m : s[k].len \in Nat
      /\ n \in Nat /\ DOMAIN t = 1 .. n /\ \A k \in 1 .. n : t[k].len \in Nat
  BY HitFacts
<1>2. /\ DOMAIN (s \o t) = 1 .. m + n
      /\ \A k \in 1 .. m : (s \o t)[k] = s[k]
      /\ \A k \in m + 1 .. m + n : (s \o t)[k] = t[k - m]
  BY <1>1
<1>3. Chars(s) = Total(f, 1 .. m) /\ Chars(t) = Total(g, 1 .. n) /\ Chars(s \o t) = Total(h, 1 .. m + n)
  BY <1>1, <1>2 DEF Chars
<1>4. 1 .. m + n = D \union E
  BY <1>1
<1>5. \A k \in D : h[k] = f[k] /\ h[k] \in Nat
  BY <1>1, <1>2
<1>6. /\ p \in [E -> 1 .. n] /\ \A k, l \in E : p[k] = p[l] => k = l
      /\ \A k \in E : h[k] = g[p[k]] /\ h[k] \in Nat
  BY <1>1, <1>2
<1>7. \A k \in 1 .. n : g[k] \in Nat
  BY <1>1
<1>8. IsFiniteSet(D) /\ IsFiniteSet(E) /\ IsFiniteSet(1 .. n)
  BY <1>1, FS_Interval
<1> HIDE DEF f, g, h, p, D, E
<1>9. Units(h, D \union E) = Units(h, D) \union Units(h, E)
  BY DEF Units
<1>10. /\ IsFiniteSet(Units(h, D)) /\ Total(h, D) \in Nat
       /\ IsFiniteSet(Units(h, E)) /\ Total(h, E) \in Nat
  BY <1>5, <1>6, <1>8, UnitsFinite
<1>11. Total(h, D \union E) <= Total(h, D) + Total(h, E)
  <2> DEFINE A == Units(h, D)
             B == Units(h, E)
  <2>1. IsFiniteSet(A) /\ IsFiniteSet(B) /\ Cardinality(A) \in Nat /\ Cardinality(B) \in Nat
    BY <1>10 DEF Total
  <2> HIDE DEF A, B
  <2>2. Cardinality(A \union B) = Cardinality(A) + Cardinality(B) - Cardinality(A \cap B)
    BY <2>1, FS_Union
  <2>3. IsFiniteSet(A \cap B)
    BY <2>1, FS_Intersection
  <2>4. Cardinality(A \cap B) \in Nat
    BY <2>3, FS_CardinalityType
  <2>5. Cardinality(A \union B) <= Cardinality(A) + Cardinality(B)
    BY <2>1, <2>2, <2>4
  <2> QED BY <1>9, <2>5 DEF Total, A, B
<1>12. Total(h, D) = Total(f, D)
  BY <1>5, TotalSame
<1>13. Total(h, E) <= Total(g, 1 .. n)
  <2> DEFINE F == 1 .. n
  <2>1. /\ IsFiniteSet(F) /\ \A k \in F : g[k] \in Nat
        /\ p \in [E -> F] /\ \A k, l \in E : p[k] = p[l] => k = l
        /\ \A k \in E : h[k] = g[p[k]]
    BY <1>6, <1>7, <1>8
  <2> HIDE DEF F
  <2>2. Total(h, E) <= Total(g, F)
    BY <2>1, TotalInjection
  <2> QED BY <2>2 DEF F
<1>14. Chars(s \o t) <= Total(f, D) + Total(h, E) /\ Chars(s) = Total(f, D)
  BY <1>3, <1>4, <1>11, <1>12 DEF D
<1>15. Chars(s) \in Nat /\ Chars(t) \in Nat
  BY CharsType
<1>16. s \o t \in Seq(Hit)
  OBVIOUS
<1>17. Chars(s \o t) \in Nat
  BY <1>16, CharsType
<1> QED BY <1>3, <1>10, <1>13, <1>14, <1>15, <1>17

\* The first k hits.
LEMMA PrefixIs ==
  ASSUME NEW s \in Seq(Hit), NEW k \in 0 .. Len(s)
  PROVE  /\ SubSeq(s, 1, k) \in Seq(Hit) /\ Len(SubSeq(s, 1, k)) = k
         /\ \A i \in 1 .. k : SubSeq(s, 1, k)[i] = s[i]
         /\ k > 0 => SubSeq(s, 1, k) = Append(SubSeq(s, 1, k - 1), s[k])
<1>1. Len(s) \in Nat /\ DOMAIN s = 1 .. Len(s)
  BY HitFacts
<1>2. /\ SubSeq(s, 1, k) \in Seq(Hit) /\ Len(SubSeq(s, 1, k)) = k
      /\ \A i \in 1 .. k : SubSeq(s, 1, k)[i] = s[i]
  BY <1>1
<1>3. ASSUME k > 0 PROVE SubSeq(s, 1, k) = Append(SubSeq(s, 1, k - 1), s[k])
  <2>1. s[k] \in Hit /\ k - 1 \in 0 .. Len(s)
    BY <1>1, <1>3, HitFacts
  <2>2. /\ SubSeq(s, 1, k - 1) \in Seq(Hit) /\ Len(SubSeq(s, 1, k - 1)) = k - 1
        /\ \A i \in 1 .. k - 1 : SubSeq(s, 1, k - 1)[i] = s[i]
    BY <1>1, <2>1
  <2> DEFINE a == SubSeq(s, 1, k)
             b == Append(SubSeq(s, 1, k - 1), s[k])
  <2>3. b \in Seq(Hit) /\ Len(b) = k /\ \A i \in 1 .. k : b[i] = s[i]
    BY <1>1, <1>3, <2>1, <2>2
  <2>4. a \in Seq(Hit) /\ Len(a) = k /\ \A i \in 1 .. k : a[i] = s[i]
    BY <1>2
  <2> HIDE DEF a, b
  <2>5. a = b
    BY <2>3, <2>4
  <2> QED BY <2>5 DEF a, b
<1> QED BY <1>2, <1>3

\* e is a prefix of s, with the last snippet shortened perhaps.
Shortens(e, s) ==
    /\ e \in Seq(Hit) /\ Len(e) <= Len(s)
    /\ \A i \in 1 .. Len(e) :
          e[i].doc = s[i].doc /\ e[i].file = s[i].file /\ e[i].score = s[i].score /\ e[i].len <= s[i].len

\* What is assumed of the settings.
LEMMA Settings ==
  /\ TopK \in Nat \ {0} /\ MaxChars \in Nat /\ FilesAllMaxHits \in Nat
  /\ MaxSnippet \in Nat /\ MaxSnippet > 4 /\ SentenceWindow \in Nat
  /\ GetDocs \in Nat \ {0} /\ GetBytes \in Nat \ {0} /\ Sizes \subseteq Nat /\ None \notin Int
BY RetrieveAssumption

\* The first hit that does not fit.
LEMMA FirstOver ==
  ASSUME NEW s \in Seq(Hit), Chars(SubSeq(s, 1, Len(s))) > MaxChars
  PROVE  \E k \in DOMAIN s : /\ Chars(SubSeq(s, 1, k)) > MaxChars
                             /\ ~(Chars(SubSeq(s, 1, k - 1)) > MaxChars)
<1> DEFINE S == {k \in 0 .. Len(s) : Chars(SubSeq(s, 1, k)) > MaxChars}
<1>1. Len(s) \in Nat /\ DOMAIN s = 1 .. Len(s)
  BY HitFacts
<1>2. S \in SUBSET Nat /\ Len(s) \in S
  BY <1>1
<1>3. PICK k \in S : \A m \in S : k <= m
  BY <1>2, LeastMember
<1>4. k # 0
  <2>1. SubSeq(s, 1, 0) = << >>
    <3>1. 0 \in 0 .. Len(s)
      BY <1>1
    <3>2. SubSeq(s, 1, 0) \in Seq(Hit) /\ Len(SubSeq(s, 1, 0)) = 0
      BY <3>1, PrefixIs
    <3>3. \A q \in Seq(Hit) : Len(q) = 0 => q = << >>
      OBVIOUS
    <3> QED BY <3>2, <3>3
  <2>2. ~(Chars(SubSeq(s, 1, 0)) > MaxChars)
    <3>1. Chars(SubSeq(s, 1, 0)) = 0
      BY <2>1, CharsEmpty
    <3>2. MaxChars \in Nat
      BY Settings
    <3> QED BY <3>1, <3>2
  <2> QED BY <2>2
<1>5. k \in 1 .. Len(s) /\ k - 1 \in 0 .. Len(s) /\ ~(k <= k - 1)
  BY <1>1, <1>4
<1>6. k - 1 \notin S
  BY <1>3, <1>5
<1> QED BY <1>1, <1>5, <1>6

\* A whole list is its longest prefix.
LEMMA NotOver ==
  ASSUME NEW s \in Seq(Hit)
  PROVE  SubSeq(s, 1, Len(s)) = s
BY HitFacts

\* What the budget of characters leaves: all of the hits, or as much as uses
\* the budget up.
LEMMA EnforceMaxCharsIs ==
  ASSUME NEW s \in Seq(Hit), NEW e, e = enforceMaxChars(s)
  PROVE  /\ Shortens(e, s)
         /\ MaxChars > 0 => Chars(e) <= MaxChars
         /\ e # s => MaxChars > 0 /\ Chars(e) = MaxChars
<1> DEFINE Over(k) == Chars(SubSeq(s, 1, k)) > MaxChars
           x == CHOOSE k \in DOMAIN s : Over(k) /\ ~Over(k - 1)
           fits == SubSeq(s, 1, x - 1)
           r == MaxChars - Chars(fits)
<1>1. Len(s) \in Nat /\ DOMAIN s = 1 .. Len(s) /\ s \in [1 .. Len(s) -> Hit]
  BY HitFacts
<1>2. MaxChars \in Nat /\ Chars(s) \in Nat
  BY Settings, CharsType
<1>3. e = IF MaxChars = 0 \/ ~Over(Len(s)) THEN s
          ELSE IF r = 0 THEN fits ELSE Append(fits, [s[x] EXCEPT !.len = r])
  BY DEF enforceMaxChars
<1>4. Shortens(s, s)
  <2>1. \A i \in 1 .. Len(s) : s[i].len <= s[i].len
    BY HitFacts
  <2> QED BY <1>1, <2>1 DEF Shortens
<1>5. CASE MaxChars = 0 \/ ~Over(Len(s))
  <2>1. e = s
    BY <1>3, <1>5
  <2>2. MaxChars > 0 => ~(Chars(s) > MaxChars)
    <3>1. Over(Len(s)) <=> Chars(s) > MaxChars
      BY NotOver
    <3> HIDE DEF Over
    <3> QED BY <1>2, <1>5, <3>1
  <2> QED BY <1>2, <1>4, <2>1, <2>2
<1>6. CASE MaxChars > 0 /\ Over(Len(s))
  <2>1. x \in DOMAIN s /\ Over(x) /\ ~Over(x - 1)
    <3>1. \E k \in DOMAIN s : Over(k) /\ ~Over(k - 1)
      BY <1>6, FirstOver
    <3> QED BY <3>1
  <2>2. e = IF r = 0 THEN fits ELSE Append(fits, [s[x] EXCEPT !.len = r])
    BY <1>2, <1>3, <1>6
  <2> HIDE DEF x
  <2>3. x \in 1 .. Len(s) /\ x - 1 \in 0 .. Len(s) /\ x \in 0 .. Len(s) /\ x > 0
    BY <1>1, <2>1
  <2>4. /\ fits \in Seq(Hit) /\ Len(fits) = x - 1 /\ \A i \in 1 .. x - 1 : fits[i] = s[i]
        /\ SubSeq(s, 1, x) = Append(fits, s[x])
    BY <2>3, PrefixIs
  <2>5. s[x] \in Hit /\ s[x].len \in Nat
    BY <2>3, HitFacts
  <2>6. Chars(fits) \in Nat
    BY <2>4, CharsType
  <2>7. Chars(fits) + s[x].len > MaxChars /\ Chars(fits) <= MaxChars
    <3>1. Chars(SubSeq(s, 1, x)) = Chars(fits) + s[x].len
      BY <2>4, <2>5, CharsAppend
    <3>2. ~(Chars(fits) > MaxChars)
      BY <2>1
    <3> QED BY <1>2, <2>1, <2>6, <3>1, <3>2
  <2> HIDE DEF fits
  <2>8. r \in Nat /\ r < s[x].len /\ Chars(fits) + r = MaxChars
    BY <1>2, <2>5, <2>6, <2>7
  <2>9. CASE r = 0
    <3>1. e = fits
      BY <2>2, <2>9
    <3>2. \A i \in 1 .. x - 1 : i \in 1 .. Len(s) /\ s[i].len \in Nat
      BY <1>1, <2>3, HitFacts
    <3>3. Shortens(e, s)
      BY <1>1, <2>3, <2>4, <3>1, <3>2 DEF Shortens
    <3> QED BY <1>2, <1>6, <2>6, <2>8, <2>9, <3>1, <3>3
  <2>10. CASE r # 0
    <3> DEFINE h == [s[x] EXCEPT !.len = r]
    <3>1. e = Append(fits, h)
      BY <2>2, <2>10
    <3> HIDE DEF r
    <3>2. h \in Hit /\ h.len = r /\ h.doc = s[x].doc /\ h.file = s[x].file /\ h.score = s[x].score
      BY <2>5, <2>8 DEF Hit
    <3> HIDE DEF h
    <3>3. Chars(e) = MaxChars
      BY <2>4, <2>8, <3>1, <3>2, CharsAppend
    <3>4. e \in Seq(Hit) /\ Len(e) = x /\ e[x] = h /\ \A i \in 1 .. x - 1 : e[i] = s[i]
      BY <2>3, <2>4, <3>1, <3>2
    <3>5. \A i \in 1 .. x - 1 : i \in 1 .. Len(s) /\ s[i].len \in Nat
      BY <1>1, <2>3, HitFacts
    <3>6. \A i \in 1 .. x : i = x \/ i \in 1 .. x - 1
      BY <1>1, <2>3
    <3>7. h.len <= s[x].len /\ \A i \in 1 .. x - 1 : s[i].len <= s[i].len
      BY <2>5, <2>8, <3>2, <3>5
    <3>8. x <= Len(s)
      BY <1>1, <2>3
    <3>9. \A i \in 1 .. x : /\ e[i].doc = s[i].doc /\ e[i].file = s[i].file
                            /\ e[i].score = s[i].score /\ e[i].len <= s[i].len
      BY <3>2, <3>4, <3>6, <3>7
    <3>10. Shortens(e, s)
      BY <3>4, <3>8, <3>9 DEF Shortens
    <3> QED BY <1>2, <1>6, <3>3, <3>10
  <2> QED BY <2>9, <2>10
<1> QED BY <1>2, <1>5, <1>6

-----------------------------------------------------------------------------
(* The best of a list                                                      *)

\* BestOf by positions.
Best(s, t, n) ==
    /\ Descending(t) /\ Distinct(t) /\ FewPerFile(t) /\ Len(t) <= n
    /\ \A i \in 1 .. Len(t) : \E k \in 1 .. Len(s) : t[i] = s[k]
    /\ \A k \in 1 .. Len(s) : \/ \E i \in 1 .. Len(t) : t[i] = s[k]
                              \/ \E l \in 1 .. k - 1 : Key(s[l]) = Key(s[k])
                              \/ Beaten(s[k], t, n)

\* The property BestOf, by positions.
LEMMA BestIsBestOf ==
  ASSUME NEW s \in Seq(Hit), NEW t \in Seq(Hit), NEW n \in Nat
  PROVE  BestOf(s, t, n) <=> Best(s, t, n)
<1>1. /\ DOMAIN s = 1 .. Len(s) /\ Len(s) \in Nat
      /\ DOMAIN t = 1 .. Len(t) /\ Len(t) \in Nat
  BY HitFacts
<1>2. (\A k, l \in DOMAIN t : k < l => t[k].score >= t[l].score /\ Key(t[k]) # Key(t[l]))
        <=> Descending(t) /\ Distinct(t)
  <2>1. ASSUME \A k, l \in DOMAIN t : k < l => t[k].score >= t[l].score /\ Key(t[k]) # Key(t[l])
        PROVE  Descending(t) /\ Distinct(t)
    <3>1. Descending(t)
      BY <1>1, <2>1 DEF Descending
    <3>2. ASSUME NEW i \in 1 .. Len(t), NEW j \in 1 .. Len(t), i # j PROVE Key(t[i]) # Key(t[j])
      <4>1. i < j \/ j < i
        BY <1>1, <3>2
      <4> QED BY <1>1, <2>1, <4>1
    <3> QED BY <3>1, <3>2 DEF Distinct
  <2>2. ASSUME Descending(t), Distinct(t), NEW k \in DOMAIN t, NEW l \in DOMAIN t, k < l
        PROVE  t[k].score >= t[l].score /\ Key(t[k]) # Key(t[l])
    <3>1. k # l
      BY <1>1, <2>2
    <3> QED BY <1>1, <2>2, <3>1 DEF Descending, Distinct
  <2> QED BY <2>1, <2>2
<1>3. (\A k \in DOMAIN t : \E h \in Range(s) : h = t[k])
        <=> \A i \in 1 .. Len(t) : \E k \in 1 .. Len(s) : t[i] = s[k]
  BY <1>1 DEF Range
<1>4. (\A h \in Range(t) : h.file # NoName => Cardinality(OfFile(t, h.file)) <= MaxPerFile)
        <=> FewPerFile(t)
  BY <1>1 DEF Range, FewPerFile
<1>5. ASSUME NEW k \in 1 .. Len(s)
      PROVE  /\ s[k] \in Range(t) <=> \E i \in 1 .. Len(t) : t[i] = s[k]
             /\ Beaten(s[k], t, n) <=>
                  \/ /\ s[k].file # NoName
                     /\ \E i, j \in OfFile(t, s[k].file) :
                           i # j /\ t[i].score >= s[k].score /\ t[j].score >= s[k].score
                  \/ Len(t) = n /\ \A h \in Range(t) : h.score >= s[k].score
  <2>1. s[k] \in Range(t) <=> \E i \in 1 .. Len(t) : t[i] = s[k]
    BY <1>1 DEF Range
  <2>2. (\A h \in Range(t) : h.score >= s[k].score) <=> \A i \in 1 .. Len(t) : t[i].score >= s[k].score
    BY <1>1 DEF Range
  <2>3. (\E i, j \in OfFile(t, s[k].file) :
            i # j /\ t[i].score >= s[k].score /\ t[j].score >= s[k].score)
        <=> \E i, j \in 1 .. Len(t) : /\ i # j /\ t[i].file = s[k].file /\ t[j].file = s[k].file
                                      /\ t[i].score >= s[k].score /\ t[j].score >= s[k].score
    BY <1>1 DEF OfFile
  <2> QED BY <2>1, <2>2, <2>3 DEF Beaten
<1>6. (\A k \in DOMAIN s :
          \/ s[k] \in Range(t)
          \/ \E l \in 1 .. k - 1 : Key(s[l]) = Key(s[k])
          \/ /\ s[k].file # NoName
             /\ \E i, j \in OfFile(t, s[k].file) :
                   i # j /\ t[i].score >= s[k].score /\ t[j].score >= s[k].score
          \/ Len(t) = n /\ \A h \in Range(t) : h.score >= s[k].score)
      <=> \A k \in 1 .. Len(s) : \/ \E i \in 1 .. Len(t) : t[i] = s[k]
                                 \/ \E l \in 1 .. k - 1 : Key(s[l]) = Key(s[k])
                                 \/ Beaten(s[k], t, n)
  BY <1>1, <1>5
<1> QED BY <1>2, <1>3, <1>4, <1>6, Zenon DEF BestOf, Best

\* What DedupSortLimit returns is the best of its input.
LEMMA DedupSortLimitIsBest ==
  ASSUME NEW s \in Seq(Hit), NEW n \in Nat, n > 0, NEW t \in DedupSortLimit(s, n)
  PROVE  t \in Seq(Hit) /\ Best(s, t, n)
<1>1. /\ t \in Seq(Hit) /\ Descending(t) /\ Distinct(t) /\ Len(t) <= n /\ FewPerFile(t)
      /\ \E p : Places(p, t, s) /\ Accounted(s, t, p, n)
  BY DedupSortLimitIs
<1>2. PICK p : Places(p, t, s) /\ Accounted(s, t, p, n)
  BY <1>1
<1>3. \A i \in 1 .. Len(t) : p[i] \in 1 .. Len(s) /\ t[i] = s[p[i]]
  BY <1>2 DEF Places
<1>4. \A k \in 1 .. Len(s) : \/ \E i \in 1 .. Len(t) : t[i] = s[k]
                             \/ \E l \in 1 .. k - 1 : Key(s[l]) = Key(s[k])
                             \/ Beaten(s[k], t, n)
  BY <1>2, <1>3 DEF Accounted
<1> QED BY <1>1, <1>3, <1>4 DEF Best

\* Another order among hits of the same score is as good.
LEMMA BestArranged ==
  ASSUME NEW s \in Seq(Hit), NEW u \in Seq(Hit), NEW t \in Seq(Hit), NEW n \in Nat, Best(s, u, n),
         NEW p, Places(p, t, u), Len(t) = Len(u), Descending(t)
  PROVE  Best(s, t, n)
<1>1. Len(u) \in Nat
  BY HitFacts
<1>2. /\ p \in [1 .. Len(u) -> 1 .. Len(u)] /\ \A i \in 1 .. Len(u) : t[i] = u[p[i]]
      /\ \A i, j \in 1 .. Len(u) : p[i] = p[j] => i = j
  BY DEF Places
<1>3. \A k \in 1 .. Len(u) : \E i \in 1 .. Len(u) : p[i] = k
  BY <1>1, <1>2, PlacesOnto
<1>4. Distinct(t) /\ FewPerFile(t) /\ Len(t) <= n
  BY PlacesDistinct, FewInArrangement DEF Best
<1>5. \A i \in 1 .. Len(t) : \E k \in 1 .. Len(s) : t[i] = s[k]
  <2> SUFFICES ASSUME NEW i \in 1 .. Len(u) PROVE \E k \in 1 .. Len(s) : t[i] = s[k]
    OBVIOUS
  <2>1. p[i] \in 1 .. Len(u) /\ t[i] = u[p[i]]
    BY <1>2
  <2>2. PICK k \in 1 .. Len(s) : u[p[i]] = s[k]
    BY <2>1 DEF Best
  <2> QED BY <2>1, <2>2
<1>6. ASSUME NEW k \in 1 .. Len(s)
      PROVE  \/ \E i \in 1 .. Len(t) : t[i] = s[k]
             \/ \E l \in 1 .. k - 1 : Key(s[l]) = Key(s[k])
             \/ Beaten(s[k], t, n)
  <2>1. CASE \E i \in 1 .. Len(u) : u[i] = s[k]
    <3>1. PICK i \in 1 .. Len(u) : u[i] = s[k]
      BY <2>1
    <3>2. PICK j \in 1 .. Len(u) : p[j] = i
      BY <1>3
    <3> QED BY <1>2, <3>1, <3>2
  <2>2. CASE \E l \in 1 .. k - 1 : Key(s[l]) = Key(s[k])
    BY <2>2
  <2>3. CASE Beaten(s[k], u, n)
    <3> DEFINE h == s[k]
    <3>0. Beaten(h, u, n)
      BY <2>3
    <3> HIDE DEF h
    <3>1. CASE Len(u) = n /\ \A i \in 1 .. Len(u) : u[i].score >= h.score
      <4>1. \A i \in 1 .. Len(t) : t[i].score >= h.score
        BY <1>2, <3>1
      <4>2. Beaten(h, t, n)
        BY <3>1, <4>1 DEF Beaten
      <4> QED BY <4>2 DEF h
    <3>2. CASE h.file # NoName /\ \E i, j \in 1 .. Len(u) :
                  /\ i # j /\ u[i].file = h.file /\ u[j].file = h.file
                  /\ u[i].score >= h.score /\ u[j].score >= h.score
      <4>1. PICK i, j \in 1 .. Len(u) :
                  /\ i # j /\ u[i].file = h.file /\ u[j].file = h.file
                  /\ u[i].score >= h.score /\ u[j].score >= h.score
        BY <3>2
      <4>2. PICK x \in 1 .. Len(u) : p[x] = i
        BY <1>3
      <4>3. PICK y \in 1 .. Len(u) : p[y] = j
        BY <1>3
      <4>4. x # y /\ t[x] = u[i] /\ t[y] = u[j] /\ x \in 1 .. Len(t) /\ y \in 1 .. Len(t)
        BY <1>2, <4>1, <4>2, <4>3
      <4>5. Beaten(h, t, n)
        BY <3>2, <4>1, <4>4 DEF Beaten
      <4> QED BY <4>5 DEF h
    <3> QED BY <3>0, <3>1, <3>2 DEF Beaten
  <2> QED BY <2>1, <2>2, <2>3 DEF Best
<1> QED BY <1>4, <1>5, <1>6 DEF Best

\* The first hits of the best are the best under a smaller limit.
LEMMA BestPrefix ==
  ASSUME NEW s \in Seq(Hit), NEW u \in Seq(Hit), NEW n \in Nat, NEW m \in Nat, m <= n, Best(s, u, n)
  PROVE  Best(s, SubSeq(u, 1, Least(Len(u), m)), m)
<1> DEFINE x == Least(Len(u), m)
           t == SubSeq(u, 1, x)
<1>1. Len(u) \in Nat /\ \A k \in 1 .. Len(u) : u[k].score \in Nat
  BY HitFacts
<1>2. x \in Nat /\ x <= Len(u) /\ x <= m /\ (x < Len(u) => x = m)
  BY <1>1 DEF Least
<1>x. x \in 0 .. Len(u)
  BY <1>1, <1>2
<1> HIDE DEF x
<1>3. t \in Seq(Hit) /\ Len(t) = x /\ \A i \in 1 .. x : t[i] = u[i]
  BY <1>x, PrefixIs
<1> HIDE DEF t
<1>4. \A i \in 1 .. x : i \in 1 .. Len(u)
  BY <1>1, <1>2, Segments
<1>5. Places([i \in 1 .. x |-> i], t, u)
  BY <1>3, <1>4 DEF Places
<1>6. Distinct(t) /\ FewPerFile(t)
  BY <1>3, <1>5, PlacesDistinct, FewInArrangement DEF Best
<1>7. Descending(t)
  BY <1>3, <1>4 DEF Best, Descending
<1>8. \A i \in 1 .. Len(t) : \E k \in 1 .. Len(s) : t[i] = s[k]
  BY <1>3, <1>4 DEF Best
\* A hit no better than one beyond the prefix is beaten by the prefix.
<1>9. ASSUME NEW k \in 1 .. Len(s), NEW i \in 1 .. Len(u), i \notin 1 .. x, u[i].score >= s[k].score
      PROVE  Beaten(s[k], t, m)
  <2>1. x < i /\ x = m
    BY <1>1, <1>2, <1>9, Segments
  <2>2. ASSUME NEW j \in 1 .. x PROVE t[j].score >= s[k].score
    <3>1. j \in 1 .. Len(u) /\ j < i
      BY <1>1, <1>2, <1>4, <2>1
    <3>2. u[j].score >= u[i].score
      BY <3>1 DEF Best, Descending
    <3>3. s[k].score \in Nat /\ u[i].score \in Nat /\ u[j].score \in Nat
      BY <1>1, <3>1, HitFacts
    <3>4. u[j].score >= s[k].score
      BY <1>9, <3>2, <3>3
    <3> QED BY <1>3, <3>4
  <2> QED BY <1>3, <2>1, <2>2 DEF Beaten
<1>10. ASSUME NEW k \in 1 .. Len(s)
       PROVE  \/ \E i \in 1 .. Len(t) : t[i] = s[k]
              \/ \E l \in 1 .. k - 1 : Key(s[l]) = Key(s[k])
              \/ Beaten(s[k], t, m)
  <2>0. s[k].score \in Nat
    BY HitFacts
  <2>1. CASE \E i \in 1 .. Len(u) : u[i] = s[k]
    <3>1. PICK i \in 1 .. Len(u) : u[i] = s[k]
      BY <2>1
    <3>2. u[i].score >= s[k].score
      BY <2>0, <3>1
    <3> QED BY <1>3, <1>9, <3>1, <3>2
  <2>2. CASE \E l \in 1 .. k - 1 : Key(s[l]) = Key(s[k])
    BY <2>2
  <2>3. CASE Beaten(s[k], u, n)
    <3> DEFINE h == s[k]
    <3>0. Beaten(h, u, n) /\ \A i \in 1 .. Len(u) : i \notin 1 .. x /\ u[i].score >= h.score => Beaten(h, t, m)
      BY <1>9, <2>3
    <3> HIDE DEF h
    <3>1. CASE Len(u) = n /\ \A i \in 1 .. Len(u) : u[i].score >= h.score
      <4>1. x = m
        BY <1>1, <1>2, <3>1
      <4>2. \A i \in 1 .. x : t[i].score >= h.score
        BY <1>3, <1>4, <3>1
      <4>3. Beaten(h, t, m)
        BY <1>3, <4>1, <4>2 DEF Beaten
      <4> QED BY <4>3 DEF h
    <3>2. CASE h.file # NoName /\ \E i, j \in 1 .. Len(u) :
                  /\ i # j /\ u[i].file = h.file /\ u[j].file = h.file
                  /\ u[i].score >= h.score /\ u[j].score >= h.score
      <4>1. PICK i, j \in 1 .. Len(u) :
                  /\ i # j /\ u[i].file = h.file /\ u[j].file = h.file
                  /\ u[i].score >= h.score /\ u[j].score >= h.score
        BY <3>2
      <4>2. CASE i \in 1 .. x /\ j \in 1 .. x
        <5>1. Beaten(h, t, m)
          BY <1>3, <3>2, <4>1, <4>2 DEF Beaten
        <5> QED BY <5>1 DEF h
      <4>3. CASE ~(i \in 1 .. x /\ j \in 1 .. x)
        <5>1. Beaten(h, t, m)
          BY <3>0, <4>1, <4>3
        <5> QED BY <5>1 DEF h
      <4> QED BY <4>2, <4>3
    <3> QED BY <3>0, <3>1, <3>2 DEF Beaten
  <2> QED BY <2>1, <2>2, <2>3 DEF Best
<1>11. Best(s, t, m)
  BY <1>2, <1>3, <1>6, <1>7, <1>8, <1>10 DEF Best
<1> QED BY <1>11 DEF t, x

-----------------------------------------------------------------------------
(* The union over several collections                                      *)

\* n hits of C that are no worse, at most two of a file.
Crowded(h, C, W, n) ==
    /\ W \in SUBSET (1 .. Len(C)) /\ Cardinality(W) = n
    /\ \A w \in W : C[w].score >= h.score
    /\ \A w, x, y \in W : C[w].file # NoName /\ C[w].file = C[x].file /\ C[w].file = C[y].file =>
                             w = x \/ w = y \/ x = y

\* What a hit of a collection that is not in C is missing for.
Outdone(h, C, n) ==
    \/ /\ h.file # NoName
       /\ \E i, j \in 1 .. Len(C) : /\ i # j /\ C[i].file = h.file /\ C[j].file = h.file
                                    /\ C[i].score >= h.score /\ C[j].score >= h.score
    \/ \E W : Crowded(h, C, W, n)

\* C joins what the searches have kept of the hits in s.
Joined(s, C, n) ==
    \E p : /\ Places(p, C, s)
           /\ \A k \in 1 .. Len(s) : \/ \E i \in 1 .. Len(C) : p[i] = k
                                     \/ \E l \in 1 .. k - 1 : Key(s[l]) = Key(s[k])
                                     \/ Outdone(s[k], C, n)

\* No file has three hits in a list that keeps the limit per file.
LEMMA FewMeansNoThree ==
  ASSUME NEW t \in Seq(Hit), FewPerFile(t), NEW w \in 1 .. Len(t), NEW x \in 1 .. Len(t), NEW y \in 1 .. Len(t),
         t[w].file # NoName, t[w].file = t[x].file, t[w].file = t[y].file
  PROVE  w = x \/ w = y \/ x = y
<1> SUFFICES ASSUME w # x, w # y, x # y PROVE FALSE
  OBVIOUS
<1> DEFINE E == OfFile(t, t[w].file)
<1>1. Len(t) \in Nat /\ DOMAIN t = 1 .. Len(t)
  BY HitFacts
<1>2. w \in E /\ x \in E /\ y \in E /\ E \in SUBSET (1 .. Len(t))
  BY <1>1 DEF OfFile
<1>3. IsFiniteSet(E)
  BY <1>1, <1>2, SubsetOfInterval
<1>4. Cardinality(E) <= 2
  BY DEF FewPerFile, MaxPerFile
<1> HIDE DEF E
<1> QED BY <1>2, <1>3, <1>4, ThreeMembers

\* More hits outdo no fewer.
LEMMA OutdoneGrows ==
  ASSUME NEW C \in Seq(Hit), NEW t \in Seq(Hit), NEW h \in Hit, NEW n \in Nat, Outdone(h, C, n)
  PROVE  Outdone(h, C \o t, n)
<1> DEFINE D == C \o t
<1>1. Len(C) \in Nat /\ Len(t) \in Nat
  BY HitFacts
<1>2. Len(D) = Len(C) + Len(t) /\ \A i \in 1 .. Len(C) : i \in 1 .. Len(D) /\ D[i] = C[i]
  BY <1>1
<1> HIDE DEF D
<1>3. CASE h.file # NoName /\ \E i, j \in 1 .. Len(C) :
                /\ i # j /\ C[i].file = h.file /\ C[j].file = h.file
                /\ C[i].score >= h.score /\ C[j].score >= h.score
  <2>1. PICK i, j \in 1 .. Len(C) : /\ i # j /\ C[i].file = h.file /\ C[j].file = h.file
                                    /\ C[i].score >= h.score /\ C[j].score >= h.score
    BY <1>3
  <2>2. Outdone(h, D, n)
    BY <1>2, <1>3, <2>1 DEF Outdone
  <2> QED BY <2>2 DEF D
<1>4. ASSUME NEW W, Crowded(h, C, W, n) PROVE Outdone(h, C \o t, n)
  <2>1. W \in SUBSET (1 .. Len(C)) /\ \A w \in W : w \in 1 .. Len(D) /\ D[w] = C[w]
    BY <1>2, <1>4 DEF Crowded
  <2>2. Crowded(h, D, W, n)
    BY <1>4, <2>1 DEF Crowded
  <2>3. Outdone(h, D, n)
    BY <2>2 DEF Outdone
  <2> QED BY <2>3 DEF D
<1> QED BY <1>3, <1>4 DEF Outdone

\* A hit that its own collection's list leaves out is outdone in the union.
LEMMA BeatenIsOutdone ==
  ASSUME NEW C \in Seq(Hit), NEW t \in Seq(Hit), NEW h \in Hit, NEW n \in Nat, FewPerFile(t), Beaten(h, t, n)
  PROVE  Outdone(h, C \o t, n)
<1> DEFINE D == C \o t
           m == Len(C)
<1>1. m \in Nat /\ Len(t) \in Nat
  BY HitFacts
<1>2. Len(D) = m + Len(t) /\ \A i \in 1 .. Len(t) : m + i \in 1 .. Len(D) /\ D[m + i] = t[i]
  BY <1>1
<1> HIDE DEF D
<1>3. CASE h.file # NoName /\ \E i, j \in 1 .. Len(t) :
                /\ i # j /\ t[i].file = h.file /\ t[j].file = h.file
                /\ t[i].score >= h.score /\ t[j].score >= h.score
  <2>1. PICK i, j \in 1 .. Len(t) : /\ i # j /\ t[i].file = h.file /\ t[j].file = h.file
                                    /\ t[i].score >= h.score /\ t[j].score >= h.score
    BY <1>3
  <2>2. m + i \in 1 .. Len(D) /\ m + j \in 1 .. Len(D) /\ m + i # m + j /\ D[m + i] = t[i] /\ D[m + j] = t[j]
    BY <1>1, <1>2, <2>1
  <2>3. \E x, y \in 1 .. Len(D) : /\ x # y /\ D[x].file = h.file /\ D[y].file = h.file
                                  /\ D[x].score >= h.score /\ D[y].score >= h.score
    BY <2>1, <2>2
  <2>4. Outdone(h, D, n)
    BY <1>3, <2>3 DEF Outdone
  <2> QED BY <2>4 DEF D
<1>4. CASE Len(t) = n /\ \A i \in 1 .. Len(t) : t[i].score >= h.score
  <2> DEFINE W == m + 1 .. m + n
  <2>1. ASSUME NEW w \in W PROVE w \in 1 .. Len(D) /\ w - m \in 1 .. Len(t) /\ D[w] = t[w - m]
    <3>1. w - m \in 1 .. Len(t) /\ m + (w - m) = w
      BY <1>1, <1>4
    <3> QED BY <1>2, <3>1
  <2>2. Cardinality(W) = n
    BY <1>1, FS_Interval
  <2>3. \A w \in W : D[w].score >= h.score
    BY <1>4, <2>1
  <2>4. ASSUME NEW w \in W, NEW x \in W, NEW y \in W,
               D[w].file # NoName, D[w].file = D[x].file, D[w].file = D[y].file
        PROVE  w = x \/ w = y \/ x = y
    <3>1. /\ w - m \in 1 .. Len(t) /\ x - m \in 1 .. Len(t) /\ y - m \in 1 .. Len(t)
          /\ D[w] = t[w - m] /\ D[x] = t[x - m] /\ D[y] = t[y - m]
      BY <2>1
    <3>2. w - m = x - m \/ w - m = y - m \/ x - m = y - m
      BY <2>4, <3>1, FewMeansNoThree
    <3>3. w \in Int /\ x \in Int /\ y \in Int
      BY <1>1
    <3> QED BY <1>1, <3>2, <3>3
  <2>5. W \in SUBSET (1 .. Len(D))
    BY <2>1
  <2> HIDE DEF W
  <2>6. Crowded(h, D, W, n)
    BY <2>2, <2>3, <2>4, <2>5 DEF Crowded
  <2>7. Outdone(h, D, n)
    BY <2>6 DEF Outdone
  <2> QED BY <2>7 DEF D
<1> QED BY <1>3, <1>4 DEF Beaten

\* Nothing has been joined.
LEMMA JoinedEmpty ==
  ASSUME NEW n
  PROVE  Joined(<< >>, << >>, n)
<1>1. Len(<< >>) = 0
  OBVIOUS
<1>2. 1 .. 0 = {}
  OBVIOUS
<1>3. Places([i \in {} |-> 0], << >>, << >>)
  BY <1>1, <1>2 DEF Places
<1> QED BY <1>1, <1>2, <1>3 DEF Joined

\* The list of one more collection joins the others.
LEMMA JoinedStep ==
  ASSUME NEW s \in Seq(Hit), NEW C \in Seq(Hit), NEW n \in Nat, n > 0, Joined(s, C, n),
         NEW r \in Seq(Hit), NEW t \in DedupSortLimit(r, n)
  PROVE  Joined(s \o r, C \o t, n)
<1>1. /\ t \in Seq(Hit) /\ Len(t) <= n /\ FewPerFile(t)
      /\ \E p : Places(p, t, r) /\ Accounted(r, t, p, n)
  BY DedupSortLimitIs
<1>2. PICK q : Places(q, t, r) /\ Accounted(r, t, q, n)
  BY <1>1
<1>3. PICK p : /\ Places(p, C, s)
               /\ \A k \in 1 .. Len(s) : \/ \E i \in 1 .. Len(C) : p[i] = k
                                         \/ \E l \in 1 .. k - 1 : Key(s[l]) = Key(s[k])
                                         \/ Outdone(s[k], C, n)
  BY DEF Joined
<1> DEFINE a == Len(s)
           b == Len(r)
           c == Len(C)
           d == Len(t)
           S == s \o r
           D == C \o t
           f == [i \in 1 .. c + d |-> IF i <= c THEN p[i] ELSE a + q[i - c]]
<1>4. a \in Nat /\ b \in Nat /\ c \in Nat /\ d \in Nat
  BY <1>1, HitFacts
<1>5. /\ Len(S) = a + b
      /\ \A i \in 1 .. a : S[i] = s[i]
      /\ \A i \in 1 .. b : S[a + i] = r[i]
  BY <1>4
<1>6. /\ Len(D) = c + d
      /\ \A i \in 1 .. c : D[i] = C[i]
      /\ \A i \in 1 .. d : D[c + i] = t[i]
  BY <1>1, <1>4
<1> HIDE DEF S, D
<1>7. /\ \A i \in 1 .. c : p[i] \in 1 .. a /\ C[i] = s[p[i]]
      /\ \A i, j \in 1 .. c : p[i] = p[j] => i = j
  BY <1>3 DEF Places
<1>8. /\ \A i \in 1 .. d : q[i] \in 1 .. b /\ t[i] = r[q[i]]
      /\ \A i, j \in 1 .. d : q[i] = q[j] => i = j
  BY <1>2 DEF Places
<1>9. \A i \in 1 .. c : i \in 1 .. c + d /\ f[i] = p[i] /\ f[i] \in 1 .. a
  BY <1>4, <1>7
<1>10. \A i \in 1 .. d : c + i \in 1 .. c + d /\ f[c + i] = a + q[i] /\ f[c + i] \in a + 1 .. a + b
  BY <1>4, <1>8
<1>11. \A i \in 1 .. c + d : i \in 1 .. c \/ (i - c \in 1 .. d /\ i = c + (i - c))
  BY <1>4
<1> HIDE DEF f
<1>12. Places(f, D, S)
  <2>1. ASSUME NEW i \in 1 .. c + d PROVE f[i] \in 1 .. a + b /\ D[i] = S[f[i]]
    <3>1. CASE i \in 1 .. c
      <4>1. f[i] = p[i] /\ p[i] \in 1 .. a /\ D[i] = C[i] /\ C[i] = s[p[i]]
        BY <1>6, <1>7, <1>9, <3>1
      <4>2. S[p[i]] = s[p[i]]
        BY <1>5, <4>1
      <4>3. p[i] \in 1 .. a + b
        BY <1>4, <4>1
      <4> QED BY <4>1, <4>2, <4>3
    <3>2. CASE i - c \in 1 .. d /\ i = c + (i - c)
      <4> DEFINE j == i - c
      <4>1. j \in 1 .. d /\ i = c + j
        BY <3>2
      <4> HIDE DEF j
      <4>2. f[i] = a + q[j] /\ q[j] \in 1 .. b /\ D[i] = t[j] /\ t[j] = r[q[j]]
        BY <1>6, <1>8, <1>10, <4>1
      <4>3. S[a + q[j]] = r[q[j]]
        BY <1>5, <4>2
      <4> QED BY <1>4, <4>2, <4>3
    <3> QED BY <1>11, <3>1, <3>2
  <2>2. ASSUME NEW i \in 1 .. c + d, NEW j \in 1 .. c + d, f[i] = f[j] PROVE i = j
    <3>1. CASE i \in 1 .. c /\ j \in 1 .. c
      BY <1>7, <1>9, <2>2, <3>1
    <3>2. CASE i - c \in 1 .. d /\ i = c + (i - c) /\ j - c \in 1 .. d /\ j = c + (j - c)
      <4>1. f[i] = a + q[i - c] /\ f[j] = a + q[j - c] /\ q[i - c] \in 1 .. b /\ q[j - c] \in 1 .. b
        BY <1>8, <1>10, <3>2
      <4>2. q[i - c] = q[j - c]
        <5> DEFINE u == q[i - c]
                   v == q[j - c]
        <5>1. a + u = a + v /\ u \in 1 .. b /\ v \in 1 .. b
          BY <2>2, <4>1
        <5> HIDE DEF u, v
        <5>2. u = v
          BY <1>4, <5>1
        <5> QED BY <5>2 DEF u, v
      <4>3. i - c = j - c
        BY <1>8, <3>2, <4>2
      <4> QED BY <3>2, <4>3
    <3>3. CASE i \in 1 .. c /\ j - c \in 1 .. d /\ j = c + (j - c)
      <4>1. f[i] \in 1 .. a /\ f[j] \in a + 1 .. a + b
        BY <1>9, <1>10, <3>3
      <4> QED BY <1>4, <2>2, <4>1
    <3>4. CASE j \in 1 .. c /\ i - c \in 1 .. d /\ i = c + (i - c)
      <4>1. f[j] \in 1 .. a /\ f[i] \in a + 1 .. a + b
        BY <1>9, <1>10, <3>4
      <4> QED BY <1>4, <2>2, <4>1
    <3> QED BY <1>11, <3>1, <3>2, <3>3, <3>4
  <2>3. f \in [1 .. c + d -> 1 .. a + b]
    BY <2>1 DEF f
  <2> QED BY <1>5, <1>6, <2>1, <2>2, <2>3 DEF Places
<1> DEFINE P(y) == \/ \E i \in 1 .. Len(D) : f[i] = y
                   \/ \E l \in 1 .. y - 1 : Key(S[l]) = Key(S[y])
                   \/ Outdone(S[y], D, n)
<1>13. ASSUME NEW k \in 1 .. a PROVE P(k)
  <2>1. S[k] = s[k] /\ s[k] \in Hit
    BY <1>5, HitFacts
  <2>2. CASE \E i \in 1 .. c : p[i] = k
    BY <1>6, <1>9, <2>2
  <2>3. CASE \E l \in 1 .. k - 1 : Key(s[l]) = Key(s[k])
    <3>1. PICK l \in 1 .. k - 1 : Key(s[l]) = Key(s[k])
      BY <2>3
    <3>2. l \in 1 .. a
      BY <1>4
    <3> QED BY <1>5, <2>1, <3>1, <3>2
  <2>4. CASE Outdone(s[k], C, n)
    <3>1. Outdone(s[k], C \o t, n)
      BY <1>1, <2>1, <2>4, OutdoneGrows
    <3> QED BY <2>1, <3>1 DEF D
  <2> QED BY <1>3, <2>2, <2>3, <2>4
<1>14. ASSUME NEW x \in 1 .. b PROVE P(a + x)
  <2>1. S[a + x] = r[x] /\ r[x] \in Hit
    BY <1>5, HitFacts
  <2>2. CASE \E i \in 1 .. d : q[i] = x
    BY <1>6, <1>10, <2>2
  <2>3. CASE \E l \in 1 .. x - 1 : Key(r[l]) = Key(r[x])
    <3>1. PICK l \in 1 .. x - 1 : Key(r[l]) = Key(r[x])
      BY <2>3
    <3>2. l \in 1 .. b /\ a + l \in 1 .. a + x - 1
      BY <1>4
    <3>3. S[a + l] = r[l]
      BY <1>5, <3>2
    <3> QED BY <2>1, <3>1, <3>2, <3>3
  <2>4. CASE Beaten(r[x], t, n)
    <3>1. Outdone(r[x], C \o t, n)
      BY <1>1, <2>1, <2>4, BeatenIsOutdone
    <3> QED BY <2>1, <3>1 DEF D
  <2> QED BY <1>2, <2>2, <2>3, <2>4 DEF Accounted
<1> HIDE DEF P
<1>15. ASSUME NEW k \in 1 .. Len(S) PROVE P(k)
  <2>1. CASE k \in 1 .. a
    BY <1>13, <2>1
  <2>2. CASE k \notin 1 .. a
    <3> DEFINE x == k - a
    <3>1. x \in 1 .. b /\ k = a + x
      BY <1>4, <1>5, <2>2
    <3> HIDE DEF x
    <3>2. P(a + x)
      BY <1>14, <3>1
    <3> QED BY <3>1, <3>2
  <2> QED BY <2>1, <2>2
<1>16. Joined(S, D, n)
  BY <1>12, <1>15 DEF Joined, P
<1> QED BY <1>16 DEF S, D

\* t holds, or beats, every hit of C.
Covers(q, t, C, n) ==
    /\ Places(q, t, C)
    /\ \A w \in 1 .. Len(C) : (\E i \in 1 .. Len(t) : q[i] = w) \/ Beaten(C[w], t, n)

\* n hits of C that are no worse than h leave their number in t: each is there
\* itself, or two of its file that are no worse are.
LEMMA CrowdedIsBeaten ==
  ASSUME NEW C \in Seq(Hit), NEW t \in Seq(Hit), NEW n \in Nat, Len(t) <= n, NEW q, Covers(q, t, C, n),
         NEW h \in Hit, NEW W, Crowded(h, C, W, n)
  PROVE  Len(t) = n /\ \A i \in 1 .. Len(t) : t[i].score >= h.score
<1> SUFFICES ASSUME ~(Len(t) = n /\ \A i \in 1 .. Len(t) : t[i].score >= h.score) PROVE FALSE
  OBVIOUS
<1> DEFINE T == {i \in 1 .. Len(t) : t[i].score >= h.score}
           In(w) == \E i \in 1 .. Len(t) : q[i] = w
           Lacks(f) == \E w \in W : C[w].file = f /\ ~In(w)
           Other(f, i) == \E j \in T : j # i /\ t[j].file = f
           pos(w) == CHOOSE i \in 1 .. Len(t) : q[i] = w
           one(f) == CHOOSE i \in T : t[i].file = f /\ Other(f, i)
           two(f) == CHOOSE j \in T : j # one(f) /\ t[j].file = f
           lead(f) == CHOOSE w \in W : C[w].file = f
           G(w) == IF ~Lacks(C[w].file) THEN pos(w)
                   ELSE IF w = lead(C[w].file) THEN one(C[w].file) ELSE two(C[w].file)
           g == [w \in W |-> G(w)]
<1>1. /\ Len(C) \in Nat /\ \A k \in 1 .. Len(C) : C[k].score \in Nat
      /\ Len(t) \in Nat /\ \A k \in 1 .. Len(t) : t[k].score \in Nat
      /\ h.score \in Nat
  <2>1. h.score \in Nat
    BY DEF Hit
  <2> QED BY <2>1, HitFacts
<1>2. /\ W \in SUBSET (1 .. Len(C)) /\ Cardinality(W) = n
      /\ \A w \in W : w \in 1 .. Len(C) /\ C[w].score >= h.score
      /\ \A w, x, y \in W : C[w].file # NoName /\ C[w].file = C[x].file /\ C[w].file = C[y].file =>
                               w = x \/ w = y \/ x = y
  BY DEF Crowded
<1>3. /\ q \in [1 .. Len(t) -> 1 .. Len(C)] /\ \A i \in 1 .. Len(t) : t[i] = C[q[i]]
      /\ \A w \in 1 .. Len(C) : In(w) \/ Beaten(C[w], t, n)
  BY DEF Covers, Places
<1>4. ASSUME NEW w \in W, ~In(w)
      PROVE  C[w].file # NoName /\ \E i \in T : t[i].file = C[w].file /\ Other(C[w].file, i)
  <2>1. w \in 1 .. Len(C) /\ C[w].score >= h.score /\ C[w].score \in Nat /\ Beaten(C[w], t, n)
    BY <1>1, <1>2, <1>3, <1>4
  <2>2. \A i \in 1 .. Len(t) : t[i].score >= C[w].score => t[i].score >= h.score
    BY <1>1, <2>1
  <2>3. ~(Len(t) = n /\ \A i \in 1 .. Len(t) : t[i].score >= C[w].score)
    BY <2>2
  <2>4. C[w].file # NoName /\ \E i, j \in 1 .. Len(t) :
               /\ i # j /\ t[i].file = C[w].file /\ t[j].file = C[w].file
               /\ t[i].score >= C[w].score /\ t[j].score >= C[w].score
    BY <2>1, <2>3 DEF Beaten
  <2>5. PICK i, j \in 1 .. Len(t) :
               /\ i # j /\ t[i].file = C[w].file /\ t[j].file = C[w].file
               /\ t[i].score >= C[w].score /\ t[j].score >= C[w].score
    BY <2>4
  <2>6. i \in T /\ j \in T
    BY <2>2, <2>5
  <2> QED BY <2>4, <2>5, <2>6
<1>5. ASSUME NEW w \in W, In(w)
      PROVE  pos(w) \in T /\ q[pos(w)] = w /\ t[pos(w)].file = C[w].file
  <2>1. pos(w) \in 1 .. Len(t) /\ q[pos(w)] = w
    BY <1>5
  <2>2. t[pos(w)] = C[w]
    BY <1>3, <2>1
  <2> QED BY <1>2, <2>1, <2>2
<1> HIDE DEF pos, T, In
<1>6. ASSUME NEW w \in W, Lacks(C[w].file)
      PROVE  LET f == C[w].file
             IN  /\ f # NoName
                 /\ one(f) \in T /\ t[one(f)].file = f
                 /\ two(f) \in T /\ t[two(f)].file = f /\ one(f) # two(f)
                 /\ lead(f) \in W /\ C[lead(f)].file = f
  <2> DEFINE f == C[w].file
  <2>1. PICK x \in W : C[x].file = f /\ ~In(x)
    BY <1>6
  <2>2. f # NoName /\ \E i \in T : t[i].file = f /\ Other(f, i)
    BY <1>4, <2>1
  <2>3. one(f) \in T /\ t[one(f)].file = f /\ Other(f, one(f))
    BY <2>2
  <2> HIDE DEF one
  <2>4. two(f) \in T /\ two(f) # one(f) /\ t[two(f)].file = f
    BY <2>3
  <2>5. lead(f) \in W /\ C[lead(f)].file = f
    OBVIOUS
  <2> QED BY <2>2, <2>3, <2>4, <2>5
<1>7. \A w \in W : ~Lacks(C[w].file) => In(w)
  OBVIOUS
<1> HIDE DEF Lacks, one, two, lead
<1>8. ASSUME NEW w \in W PROVE G(w) \in T /\ t[G(w)].file = C[w].file
  BY <1>5, <1>6, <1>7
<1>9. ASSUME NEW w \in W, NEW x \in W, G(w) = G(x) PROVE w = x
  <2>1. C[w].file = C[x].file
    BY <1>8, <1>9
  <2>2. CASE ~Lacks(C[w].file)
    <3>1. In(w) /\ In(x) /\ pos(w) = pos(x)
      BY <1>7, <1>9, <2>1, <2>2
    <3> QED BY <1>5, <3>1
  <2>3. CASE Lacks(C[w].file)
    <3> DEFINE f == C[w].file
    <3>1. f # NoName /\ one(f) # two(f) /\ lead(f) \in W /\ C[lead(f)].file = f
      BY <1>6, <2>3
    <3>2. w = lead(f) <=> x = lead(f)
      BY <1>9, <2>1, <2>3, <3>1
    <3>3. CASE w = lead(f)
      BY <3>2, <3>3
    <3>4. CASE w # lead(f)
      BY <1>2, <2>1, <3>1, <3>2, <3>4
    <3> QED BY <3>3, <3>4
  <2> QED BY <2>2, <2>3
<1> HIDE DEF G
<1>10. g \in [W -> T] /\ \A w, x \in W : g[w] = g[x] => w = x
  BY <1>8, <1>9
<1>11. g \in Injection(W, T)
  BY <1>10 DEF Injection, IsInjective
<1>12. T \in SUBSET (1 .. Len(t))
  BY DEF T
<1>13. IsFiniteSet(T) /\ Cardinality(T) \in 0 .. Len(t)
  BY <1>1, <1>12, SubsetOfInterval
<1>14. n <= Cardinality(T)
  BY <1>2, <1>11, <1>13, FS_Injection
<1>15. Len(t) = n /\ Cardinality(T) = Len(t)
  BY <1>1, <1>13, <1>14
<1>16. IsFiniteSet(1 .. Len(t)) /\ Cardinality(1 .. Len(t)) = Len(t)
  BY <1>1, IntervalSize
<1>17. 1 .. Len(t) = T
  BY <1>12, <1>15, <1>16, FS_Subset
<1>18. \A i \in 1 .. Len(t) : t[i].score >= h.score
  BY <1>17 DEF T
<1> QED BY <1>15, <1>18

\* The union of the lists of several collections, ordered and cut once more,
\* is the best of all that was found in them.
LEMMA UnionIsBest ==
  ASSUME NEW s \in Seq(Hit), NEW C \in Seq(Hit), NEW n \in Nat, n > 0, Joined(s, C, n), Distinct(s),
         NEW t \in DedupSortLimit(C, n)
  PROVE  t \in Seq(Hit) /\ Best(s, t, n)
<1>1. /\ t \in Seq(Hit) /\ Descending(t) /\ Distinct(t) /\ Len(t) <= n /\ FewPerFile(t)
      /\ \E p : Places(p, t, C) /\ Accounted(C, t, p, n)
  BY DedupSortLimitIs
<1>2. PICK q : Places(q, t, C) /\ Accounted(C, t, q, n)
  BY <1>1
<1>3. PICK p : /\ Places(p, C, s)
               /\ \A k \in 1 .. Len(s) : \/ \E i \in 1 .. Len(C) : p[i] = k
                                         \/ \E l \in 1 .. k - 1 : Key(s[l]) = Key(s[k])
                                         \/ Outdone(s[k], C, n)
  BY DEF Joined
<1>4. /\ Len(s) \in Nat /\ Len(C) \in Nat /\ Len(t) \in Nat
      /\ \A i \in 1 .. Len(C) : p[i] \in 1 .. Len(s) /\ C[i] = s[p[i]] /\ C[i].score \in Nat
      /\ \A i \in 1 .. Len(t) : q[i] \in 1 .. Len(C) /\ t[i] = C[q[i]] /\ t[i].score \in Nat
  <2>1. /\ \A i \in 1 .. Len(C) : p[i] \in 1 .. Len(s) /\ C[i] = s[p[i]]
        /\ \A i \in 1 .. Len(t) : q[i] \in 1 .. Len(C) /\ t[i] = C[q[i]]
    BY <1>2, <1>3 DEF Places
  <2>2. /\ Len(s) \in Nat /\ Len(C) \in Nat /\ \A i \in 1 .. Len(C) : C[i].score \in Nat
    BY HitFacts
  <2>3. /\ Len(t) \in Nat /\ \A i \in 1 .. Len(t) : t[i].score \in Nat
    BY <1>1, HitFacts
  <2> QED BY <2>1, <2>2, <2>3
<1>5. Distinct(C)
  BY <1>3, PlacesDistinct
<1>6. ASSUME NEW L, Distinct(L), Len(L) \in Nat, NEW k \in 1 .. Len(L), NEW l \in 1 .. k - 1,
             Key(L[l]) = Key(L[k])
      PROVE  FALSE
  <2>1. l \in 1 .. Len(L) /\ l # k
    BY <1>6
  <2> QED BY <1>6, <2>1 DEF Distinct
<1>7. Covers(q, t, C, n)
  <2>1. ASSUME NEW w \in 1 .. Len(C) PROVE (\E i \in 1 .. Len(t) : q[i] = w) \/ Beaten(C[w], t, n)
    BY <1>2, <1>4, <1>5, <1>6 DEF Accounted
  <2> QED BY <1>2, <2>1 DEF Covers
<1>8. ASSUME NEW i \in 1 .. Len(t) PROVE \E k \in 1 .. Len(s) : t[i] = s[k]
  <2>1. q[i] \in 1 .. Len(C) /\ t[i] = C[q[i]]
    BY <1>4
  <2>2. p[q[i]] \in 1 .. Len(s) /\ C[q[i]] = s[p[q[i]]]
    BY <1>4, <2>1
  <2> QED BY <2>1, <2>2
\* A hit of C is in the result or beaten there, and so is what it beats.
<1>9. ASSUME NEW h \in Hit, Outdone(h, C, n) PROVE Beaten(h, t, n)
  <2>0. h.score \in Nat
    BY <1>9 DEF Hit
  <2>1. CASE \E W : Crowded(h, C, W, n)
    <3>1. Len(t) = n /\ \A i \in 1 .. Len(t) : t[i].score >= h.score
      BY <1>1, <1>7, <2>1, CrowdedIsBeaten
    <3> QED BY <3>1 DEF Beaten
  <2>2. CASE h.file # NoName /\ \E i, j \in 1 .. Len(C) :
                /\ i # j /\ C[i].file = h.file /\ C[j].file = h.file
                /\ C[i].score >= h.score /\ C[j].score >= h.score
    <3>1. PICK i, j \in 1 .. Len(C) :
                /\ i # j /\ C[i].file = h.file /\ C[j].file = h.file
                /\ C[i].score >= h.score /\ C[j].score >= h.score
      BY <2>2
    <3>2. ASSUME NEW w \in {i, j}, Beaten(C[w], t, n) PROVE Beaten(h, t, n)
      <4>1. w \in 1 .. Len(C) /\ C[w].file = h.file /\ C[w].score >= h.score /\ C[w].score \in Nat
        BY <1>4, <3>1
      <4>2. \A x \in 1 .. Len(t) : t[x].score >= C[w].score => t[x].score >= h.score
        BY <1>4, <2>0, <4>1
      <4>3. CASE Len(t) = n /\ \A x \in 1 .. Len(t) : t[x].score >= C[w].score
        BY <4>2, <4>3 DEF Beaten
      <4>4. CASE \E x, y \in 1 .. Len(t) :
                   /\ x # y /\ t[x].file = C[w].file /\ t[y].file = C[w].file
                   /\ t[x].score >= C[w].score /\ t[y].score >= C[w].score
        BY <2>2, <4>1, <4>2, <4>4 DEF Beaten
      <4> QED BY <3>2, <4>3, <4>4 DEF Beaten
    <3>3. CASE (\E x \in 1 .. Len(t) : q[x] = i) /\ (\E y \in 1 .. Len(t) : q[y] = j)
      <4>1. PICK x, y \in 1 .. Len(t) : q[x] = i /\ q[y] = j
        BY <3>3
      <4>2. x # y /\ t[x] = C[i] /\ t[y] = C[j]
        BY <1>4, <3>1, <4>1
      <4> QED BY <2>2, <3>1, <4>2 DEF Beaten
    <3> QED BY <1>7, <3>2, <3>3 DEF Covers
  <2> QED BY <1>9, <2>1, <2>2 DEF Outdone
<1>10. ASSUME NEW k \in 1 .. Len(s)
       PROVE  (\E i \in 1 .. Len(t) : t[i] = s[k]) \/ Beaten(s[k], t, n)
  <2>0. s[k] \in Hit
    BY HitFacts
  <2>1. CASE \E i \in 1 .. Len(C) : p[i] = k
    <3>1. PICK i \in 1 .. Len(C) : p[i] = k
      BY <2>1
    <3>2. C[i] = s[k]
      BY <1>4, <3>1
    <3> QED BY <1>4, <1>7, <3>2 DEF Covers
  <2>2. CASE \E l \in 1 .. k - 1 : Key(s[l]) = Key(s[k])
    BY <1>4, <1>6, <2>2
  <2>3. CASE Outdone(s[k], C, n)
    BY <1>9, <2>0, <2>3
  <2> QED BY <1>3, <2>1, <2>2, <2>3
<1> QED BY <1>1, <1>8, <1>10 DEF Best

-----------------------------------------------------------------------------
(* From the output of qmd to hits                                          *)

\* The markup of a snippet is part of it.
Sound(s) == \A k \in 1 .. Len(s) : s[k].markup <= s[k].len

\* Hits keep their markup within their snippet when they move.
LEMMA SoundPlaces ==
  ASSUME NEW s \in Seq(Hit), Sound(s), NEW t, NEW p, Places(p, t, s)
  PROVE  Sound(t)
BY DEF Sound, Places

\* The same when lists are joined.
LEMMA SoundConcat ==
  ASSUME NEW s \in Seq(Hit), NEW t \in Seq(Hit), Sound(s), Sound(t)
  PROVE  s \o t \in Seq(Hit) /\ Sound(s \o t)
<1> DEFINE D == s \o t
           m == Len(s)
<1>1. m \in Nat /\ Len(t) \in Nat
  BY HitFacts
<1>2. D \in Seq(Hit) /\ Len(D) = m + Len(t)
      /\ (\A i \in 1 .. m : D[i] = s[i]) /\ \A i \in m + 1 .. m + Len(t) : D[i] = t[i - m] /\ i - m \in 1 .. Len(t)
  BY <1>1
<1> HIDE DEF D
<1>3. \A i \in 1 .. Len(D) : i \in 1 .. m \/ i \in m + 1 .. m + Len(t)
  BY <1>1, <1>2
<1>4. Sound(D)
  BY <1>2, <1>3 DEF Sound
<1> QED BY <1>2, <1>4 DEF D

\* What a sequence is: two that agree everywhere are the same, and a
\* concatenation is its first part followed by its second.
LEMMA SameSequence ==
  ASSUME NEW x \in Seq(Hit), NEW y \in Seq(Hit), Len(x) = Len(y), \A k \in 1 .. Len(x) : x[k] = y[k]
  PROVE  x = y
OBVIOUS

\* A concatenation by its positions.
LEMMA ConcatIs ==
  ASSUME NEW a \in Seq(Hit), NEW b \in Seq(Hit)
  PROVE  /\ a \o b \in Seq(Hit) /\ Len(a \o b) = Len(a) + Len(b)
         /\ \A k \in 1 .. Len(a) : (a \o b)[k] = a[k]
         /\ \A k \in Len(a) + 1 .. Len(a) + Len(b) : (a \o b)[k] = b[k - Len(a)] /\ k - Len(a) \in 1 .. Len(b)
OBVIOUS

\* A row of --files output is a hit.
LEMMA RowFacts ==
  ASSUME NEW h \in Hit
  PROVE  AsRow(h) \in Hit /\ AsRow(h).markup <= AsRow(h).len
<1> DEFINE t == IF h.file = NoName THEN BaseOfNothing ELSE h.file
<1>1. AsRow(h) = [h EXCEPT !.title = t, !.len = 0, !.markup = 0, !.stop = 0]
  BY DEF AsRow
<1>2. h.file \in STRING
  BY DEF Hit
<1>3. t \in STRING
  BY <1>2, RetrieveAssumption
<1> HIDE DEF t
<1>4. h = [doc |-> h.doc, file |-> h.file, title |-> h.title, score |-> h.score,
           len |-> h.len, markup |-> h.markup, stop |-> h.stop]
  BY DEF Hit
<1>5. h.doc \in STRING /\ h.score \in Nat
  BY DEF Hit
<1>6. AsRow(h) = [doc |-> h.doc, file |-> h.file, title |-> t, score |-> h.score,
                  len |-> 0, markup |-> 0, stop |-> 0]
  BY <1>1, <1>4
<1> QED BY <1>2, <1>3, <1>5, <1>6 DEF Hit

\* Parsed output is a list of hits.
LEMMA ParsedFacts ==
  ASSUME NEW form, NEW hits \in Seq(Hit), Sound(hits), Parses(form, hits)
  PROVE  parseSearchOutput(form, hits) \in Seq(Hit) /\ Sound(parseSearchOutput(form, hits))
<1>1. Len(hits) \in Nat /\ DOMAIN hits = 1 .. Len(hits) /\ \A k \in 1 .. Len(hits) : hits[k] \in Hit
  BY HitFacts
<1>2. CASE form \in {"blank", "none"}
  <2>1. parseSearchOutput(form, hits) = << >>
    BY <1>2 DEF parseSearchOutput
  <2> QED BY <2>1 DEF Sound
<1>3. CASE form \in {"json", "warned"}
  <2>1. parseSearchOutput(form, hits) = hits
    BY <1>3 DEF parseSearchOutput
  <2> QED BY <2>1
<1>4. CASE form = "csv"
  <2> DEFINE t == [k \in 1 .. Len(hits) |-> AsRow(hits[k])]
  <2>1. parseSearchOutput(form, hits) = t
    BY <1>1, <1>4 DEF parseSearchOutput
  <2>2. \A k \in 1 .. Len(hits) : AsRow(hits[k]) \in Hit /\ AsRow(hits[k]).markup <= AsRow(hits[k]).len
    BY <1>1, RowFacts
  <2>3. t \in Seq(Hit) /\ Len(t) = Len(hits) /\ \A k \in 1 .. Len(hits) : t[k] = AsRow(hits[k])
    BY <1>1, <2>2
  <2> HIDE DEF t
  <2>4. Sound(t)
    BY <2>2, <2>3 DEF Sound
  <2> QED BY <2>1, <2>3, <2>4
<1> QED BY <1>2, <1>3, <1>4 DEF Parses

\* Filters return lists of hits.
LEMMA FilterFacts ==
  ASSUME NEW s \in Seq(Hit), Sound(s)
  PROVE  /\ \A c : filterExclude(s, c) \in Seq(Hit) /\ Sound(filterExclude(s, c))
         /\ filterMinScore(s) \in Seq(Hit) /\ Sound(filterMinScore(s))
<1>1. DOMAIN s = 1 .. Len(s)
  BY HitFacts
<1>2. ASSUME NEW K \in SUBSET (1 .. Len(s)) PROVE Pick(s, K) \in Seq(Hit) /\ Sound(Pick(s, K))
  <2>1. Pick(s, K) \in Seq(Hit) /\ \E p : Places(p, Pick(s, K), s)
    BY <1>2, PickPlaces
  <2> QED BY <2>1, SoundPlaces
<1>3. ASSUME NEW c PROVE filterExclude(s, c) \in Seq(Hit) /\ Sound(filterExclude(s, c))
  <2> DEFINE K == {k \in DOMAIN s : s[k].file \notin Excluded[c]}
  <2>1. K \in SUBSET (1 .. Len(s)) /\ filterExclude(s, c) = Pick(s, K)
    BY <1>1 DEF filterExclude
  <2> HIDE DEF K
  <2> QED BY <1>2, <2>1
<1>4. filterMinScore(s) \in Seq(Hit) /\ Sound(filterMinScore(s))
  <2> DEFINE K == {k \in DOMAIN s : s[k].score >= MinScore}
  <2>1. K \in SUBSET (1 .. Len(s)) /\ filterMinScore(s) = Pick(s, K)
    BY <1>1 DEF filterMinScore
  <2> HIDE DEF K
  <2> QED BY <1>2, <2>1
<1> QED BY <1>3, <1>4

\* What a search of a collection yields is a list of hits.
LEMMA AnswerFacts ==
  ASSUME NEW c \in Collections, NEW a \in Answers(c), Parses(a[1], a[2])
  PROVE  LET s == filterExclude(parseSearchOutput(a[1], a[2]), c)
         IN  s \in Seq(Hit) /\ Sound(s)
<1>1. a[2] \in Outputs[c]
  BY DEF Answers
<1>2. \A s \in Outputs[c] : s \in Seq(Hit) /\ \A k \in DOMAIN s : s[k].markup <= s[k].len
  BY RetrieveAssumption
<1> DEFINE hits == a[2]
<1>3. hits \in Seq(Hit) /\ \A k \in DOMAIN hits : hits[k].markup <= hits[k].len
  BY <1>1, <1>2
<1>4. Sound(hits)
  BY <1>3, HitFacts DEF Sound
<1>5. parseSearchOutput(a[1], hits) \in Seq(Hit) /\ Sound(parseSearchOutput(a[1], hits))
  BY <1>3, <1>4, ParsedFacts
<1> QED BY <1>5, FilterFacts

\* A cleaned snippet is within its limit, and nothing else of the hit changes.
LEMMA CleanFacts ==
  ASSUME NEW h \in Hit, h.markup <= h.len
  PROVE  /\ CleanSnippet(h) \in Hit /\ CleanSnippet(h).len <= MaxSnippet
         /\ CleanSnippet(h).doc = h.doc /\ CleanSnippet(h).file = h.file
<1> DEFINE n == h.len - h.markup
           end == MaxSnippet - 3
           from == IF end > SentenceWindow THEN end - SentenceWindow ELSE 0
           l == IF n <= MaxSnippet THEN n ELSE (IF h.stop \in from + 1 .. end THEN h.stop ELSE end) + 3
<1>1. CleanSnippet(h) = [h EXCEPT !.markup = 0, !.len = l]
  BY DEF CleanSnippet
<1>2. h.len \in Nat /\ h.markup \in Nat /\ h.stop \in Nat
  BY DEF Hit
<1>3. MaxSnippet \in Nat /\ MaxSnippet > 4 /\ SentenceWindow \in Nat
  BY Settings
<1>4. n \in Nat /\ end \in Nat /\ from \in Nat
  BY <1>2, <1>3
<1>5. l \in Nat /\ l <= MaxSnippet
  <2>1. CASE n <= MaxSnippet
    BY <1>4, <2>1
  <2>2. CASE ~(n <= MaxSnippet) /\ h.stop \in from + 1 .. end
    BY <1>2, <1>3, <1>4, <2>2
  <2>3. CASE ~(n <= MaxSnippet) /\ h.stop \notin from + 1 .. end
    BY <1>3, <1>4, <2>3
  <2> QED BY <2>1, <2>2, <2>3
<1> HIDE DEF l
<1> DEFINE y == [h EXCEPT !.markup = 0, !.len = l]
<1>6. y \in Hit
  BY <1>5 DEF Hit
<1>7. y.len = l
  BY DEF Hit
<1>8. y.doc = h.doc
  BY DEF Hit
<1>9. y.file = h.file
  BY DEF Hit
<1> QED BY <1>1, <1>5, <1>6, <1>7, <1>8, <1>9

\* Cleaning keeps the hits and bounds their snippets.
LEMMA CleanList ==
  ASSUME NEW s \in Seq(Hit), Sound(s)
  PROVE  /\ cleanResultSnippets(s) \in Seq(Hit) /\ Len(cleanResultSnippets(s)) = Len(s)
         /\ \A k \in 1 .. Len(s) :
               /\ cleanResultSnippets(s)[k] = CleanSnippet(s[k])
               /\ cleanResultSnippets(s)[k].len <= MaxSnippet
               /\ cleanResultSnippets(s)[k].doc = s[k].doc /\ cleanResultSnippets(s)[k].file = s[k].file
<1> DEFINE t == [k \in 1 .. Len(s) |-> CleanSnippet(s[k])]
<1>1. Len(s) \in Nat /\ DOMAIN s = 1 .. Len(s) /\ \A k \in 1 .. Len(s) : s[k] \in Hit
  BY HitFacts
<1>2. cleanResultSnippets(s) = t
  BY <1>1 DEF cleanResultSnippets
<1>3. \A k \in 1 .. Len(s) :
         /\ CleanSnippet(s[k]) \in Hit /\ CleanSnippet(s[k]).len <= MaxSnippet
         /\ CleanSnippet(s[k]).doc = s[k].doc /\ CleanSnippet(s[k]).file = s[k].file
  BY <1>1, CleanFacts DEF Sound
<1>4. t \in Seq(Hit) /\ Len(t) = Len(s) /\ \A k \in 1 .. Len(s) : t[k] = CleanSnippet(s[k])
  BY <1>1, <1>3
<1> HIDE DEF t
<1> QED BY <1>2, <1>3, <1>4

\* Lists may be cleaned before or after they are joined.
LEMMA CleanConcat ==
  ASSUME NEW s \in Seq(Hit), NEW t \in Seq(Hit), Sound(s), Sound(t)
  PROVE  cleanResultSnippets(s \o t) = cleanResultSnippets(s) \o cleanResultSnippets(t)
<1> DEFINE a == cleanResultSnippets(s)
           b == cleanResultSnippets(t)
           d == s \o t
           c == cleanResultSnippets(d)
           e == a \o b
<1>1. Len(s) \in Nat /\ Len(t) \in Nat
  BY HitFacts
<1>2. d \in Seq(Hit) /\ Sound(d)
  BY SoundConcat
<1>3. /\ Len(d) = Len(s) + Len(t) /\ \A k \in 1 .. Len(s) : d[k] = s[k]
      /\ \A k \in Len(s) + 1 .. Len(s) + Len(t) : d[k] = t[k - Len(s)] /\ k - Len(s) \in 1 .. Len(t)
  BY ConcatIs
<1> HIDE DEF d
<1>4. a \in Seq(Hit) /\ Len(a) = Len(s) /\ \A k \in 1 .. Len(s) : a[k] = CleanSnippet(s[k])
  BY CleanList
<1>5. b \in Seq(Hit) /\ Len(b) = Len(t) /\ \A k \in 1 .. Len(t) : b[k] = CleanSnippet(t[k])
  BY CleanList
<1>6. c \in Seq(Hit) /\ Len(c) = Len(d) /\ \A k \in 1 .. Len(d) : c[k] = CleanSnippet(d[k])
  BY <1>2, CleanList
<1> HIDE DEF a, b, c
<1>7. /\ e \in Seq(Hit) /\ Len(e) = Len(a) + Len(b) /\ \A k \in 1 .. Len(a) : e[k] = a[k]
      /\ \A k \in Len(a) + 1 .. Len(a) + Len(b) : e[k] = b[k - Len(a)] /\ k - Len(a) \in 1 .. Len(b)
  BY <1>4, <1>5, ConcatIs
<1> HIDE DEF e
<1>8. ASSUME NEW k \in 1 .. Len(c) PROVE c[k] = e[k]
  <2>1. CASE k \in 1 .. Len(s)
    BY <1>3, <1>4, <1>6, <1>7, <2>1
  <2>2. CASE k \in Len(s) + 1 .. Len(s) + Len(t)
    <3>1. c[k] = CleanSnippet(d[k]) /\ d[k] = t[k - Len(s)] /\ k - Len(s) \in 1 .. Len(t)
      BY <1>3, <1>6, <2>2
    <3>2. e[k] = b[k - Len(s)]
      BY <1>4, <1>5, <1>7, <2>2
    <3> QED BY <1>5, <3>1, <3>2
  <2> QED BY <1>1, <1>3, <1>6, <2>1, <2>2
<1>9. Len(c) = Len(e)
  BY <1>3, <1>4, <1>5, <1>6, <1>7
<1>10. c = e
  BY <1>6, <1>7, <1>8, <1>9, SameSequence
<1> QED BY <1>10 DEF a, b, c, d, e

-----------------------------------------------------------------------------
(* finalizeResults                                                         *)

\* There are finitely many collections.
LEMMA CollectionsFinite == IsFiniteSet(Collections)
<1>1. Order \in Seq(STRING)
  BY RetrieveAssumption
<1>2. Len(Order) \in Nat /\ DOMAIN Order = 1 .. Len(Order)
  BY <1>1
<1> DEFINE D == 1 .. Len(Order)
<1>3. IsFiniteSet(D)
  BY <1>2, IntervalSize
<1>4. \A c \in Collections : \E k \in D : Order[k] = c
  BY <1>2 DEF Collections, Range
<1>5. Collections = {Order[k] : k \in D}
  BY <1>2 DEF Collections, Range
<1> HIDE DEF D
<1> DEFINE f == [k \in D |-> Order[k]]
<1>6. f \in Surjection(D, Collections)
  BY <1>4, <1>5 DEF Surjection
<1> QED BY <1>3, <1>6, FS_Surjection

\* The limit that the code applies: top_k also cuts all files.
CodeLimit == IF FilesAll /\ FilesAllMaxHits > 0 THEN Least(SearchN, FilesAllMaxHits) ELSE SearchN

\* The limits a request has.
LEMMA RequestFacts ==
  ASSUME req \in Requests
  PROVE  /\ SearchN \in Nat /\ SearchN > 0 /\ CoreN \in Nat /\ CodeLimit \in Nat /\ CodeLimit <= SearchN
         /\ CoreN > 0 => CoreN = SearchN
         /\ ~FilesAll => CoreN = SearchN /\ CodeLimit = SearchN
         /\ FilesAll /\ FilesAllMaxHits > 0 => CodeLimit = Least(SearchN, FilesAllMaxHits)
         /\ FilesAll /\ ~(FilesAllMaxHits > 0) => CodeLimit = SearchN
         /\ MaxGetDocs \in Nat /\ MaxGetBytes \in Nat
         /\ req.named \in SUBSET Collections /\ IsFiniteSet(req.named)
<1>1. req.named \in SUBSET Collections /\ req.topK \in Nat /\ req.maxDocs \in Nat /\ req.maxBytes \in Nat
  BY RetrieveAssumption DEF Request
<1>2. SearchN \in Nat /\ SearchN > 0
  BY <1>1, Settings DEF SearchN
<1>3. CoreN \in Nat /\ (CoreN > 0 => CoreN = SearchN) /\ (~FilesAll => CoreN = SearchN)
  BY <1>1, Settings DEF SearchN, CoreN
<1>4. Least(SearchN, FilesAllMaxHits) \in Nat /\ Least(SearchN, FilesAllMaxHits) <= SearchN
  BY <1>2, Settings, LeastIs
<1>5. /\ CodeLimit \in Nat /\ CodeLimit <= SearchN
      /\ ~FilesAll => CodeLimit = SearchN
      /\ FilesAll /\ FilesAllMaxHits > 0 => CodeLimit = Least(SearchN, FilesAllMaxHits)
      /\ FilesAll /\ ~(FilesAllMaxHits > 0) => CodeLimit = SearchN
  BY <1>2, <1>4, Settings DEF CodeLimit
<1>6. MaxGetDocs \in Nat /\ MaxGetBytes \in Nat
  BY <1>1, Settings DEF MaxGetDocs, MaxGetBytes
<1>7. IsFiniteSet(req.named)
  BY <1>1, CollectionsFinite, FS_Subset
<1> QED BY <1>1, <1>2, <1>3, <1>5, <1>6, <1>7

\* The hits as finalizeResults orders them.
View(s) == IF FilesOnly THEN s ELSE cleanResultSnippets(s)

Named(s) == \A k \in 1 .. Len(s) : s[k].doc # NoName \/ s[k].file # NoName

Within(C) == req.kind = "search" => \A i \in 1 .. Len(C) : C[i].len <= MaxSnippet

Budgeted == req.kind = "search" /\ MaxChars > 0

\* The hits as finalizeResults sees them.
LEMMA ViewFacts ==
  ASSUME NEW s \in Seq(Hit), Sound(s)
  PROVE  /\ View(s) \in Seq(Hit) /\ Len(View(s)) = Len(s) /\ Within(View(s))
         /\ Named(s) => Named(View(s))
<1>1. CASE FilesOnly
  BY <1>1 DEF View, Within, FilesOnly
<1>2. CASE ~FilesOnly
  <2> DEFINE v == cleanResultSnippets(s)
  <2>1. View(s) = v
    BY <1>2 DEF View
  <2>2. /\ v \in Seq(Hit) /\ Len(v) = Len(s)
        /\ \A k \in 1 .. Len(s) : v[k].len <= MaxSnippet /\ v[k].doc = s[k].doc /\ v[k].file = s[k].file
    BY CleanList
  <2> HIDE DEF v
  <2> QED BY <2>1, <2>2 DEF Within, Named
<1> QED BY <1>1, <1>2

\* They may be joined before or after.
LEMMA ViewConcat ==
  ASSUME NEW s \in Seq(Hit), NEW t \in Seq(Hit), Sound(s), Sound(t)
  PROVE  View(s \o t) = View(s) \o View(t)
BY CleanConcat DEF View

\* What holds of a list holds of an arrangement of it.
LEMMA PlacesWithin ==
  ASSUME NEW s, NEW t, NEW p, Places(p, t, s)
  PROVE  (Within(s) => Within(t)) /\ (Named(s) => Named(t))
BY DEF Places, Within, Named

\* An arrangement has no more hits than its list.
LEMMA PlacesShorter ==
  ASSUME NEW s \in Seq(Hit), NEW t \in Seq(Hit), NEW p, Places(p, t, s)
  PROVE  Len(t) <= Len(s)
<1> DEFINE D == 1 .. Len(t)
           E == 1 .. Len(s)
<1>1. Len(s) \in Nat /\ Len(t) \in Nat
  BY HitFacts
<1>2. /\ IsFiniteSet(D) /\ Cardinality(D) = Len(t)
      /\ IsFiniteSet(E) /\ Cardinality(E) = Len(s)
  BY <1>1, IntervalSize
<1>3. p \in [D -> E] /\ \A i, j \in D : p[i] = p[j] => i = j
  BY DEF Places
<1> HIDE DEF D, E
<1>4. p \in Injection(D, E)
  BY <1>3 DEF Injection, IsInjective
<1>5. Cardinality(D) <= Cardinality(E)
  BY <1>2, <1>4, FS_Injection
<1> QED BY <1>2, <1>5

\* An arrangement of all hits can be undone.
LEMMA PlacesInverse ==
  ASSUME NEW s \in Seq(Hit), NEW t \in Seq(Hit), NEW p, Places(p, t, s), Len(t) = Len(s)
  PROVE  \E q : Places(q, s, t)
<1> DEFINE D == 1 .. Len(s)
<1>1. Len(s) \in Nat
  BY HitFacts
<1>2. /\ p \in [D -> D] /\ \A i, j \in D : p[i] = p[j] => i = j
      /\ \A i \in D : t[i] = s[p[i]]
  BY DEF Places
<1>3. \A k \in D : \E i \in D : p[i] = k
  BY <1>1, <1>2, PlacesOnto
<1> HIDE DEF D
<1> DEFINE q == [k \in D |-> CHOOSE i \in D : p[i] = k]
<1>4. \A k \in D : q[k] \in D /\ p[q[k]] = k
  BY <1>3
<1>5. q \in [D -> D]
  BY <1>4
<1> HIDE DEF q
<1>6. (\A k \in D : s[k] = t[q[k]]) /\ \A k, l \in D : q[k] = q[l] => k = l
  BY <1>2, <1>4
<1>7. Places(q, s, t)
  BY <1>5, <1>6 DEF Places, D
<1> QED BY <1>7

\* A shortened list keeps what it says of files and, with names, of duplicates.
LEMMA ShortensFacts ==
  ASSUME NEW s \in Seq(Hit), NEW e, Shortens(e, s)
  PROVE  /\ FewPerFile(s) => FewPerFile(e)
         /\ Within(s) => Within(e)
         /\ Distinct(s) /\ Named(s) => Distinct(e)
<1>1. /\ Len(s) \in Nat /\ DOMAIN s = 1 .. Len(s) /\ e \in Seq(Hit) /\ Len(e) \in Nat
      /\ DOMAIN e = 1 .. Len(e) /\ Len(e) <= Len(s)
      /\ \A i \in 1 .. Len(e) : s[i].len \in Nat /\ e[i].len \in Nat
  BY HitFacts, Segments DEF Shortens
<1>2. \A i \in 1 .. Len(e) : i \in 1 .. Len(s) /\ e[i].doc = s[i].doc /\ e[i].file = s[i].file /\ e[i].len <= s[i].len
  BY <1>1, Segments DEF Shortens
<1>3. ASSUME FewPerFile(s) PROVE FewPerFile(e)
  <2> SUFFICES ASSUME NEW k \in 1 .. Len(e), e[k].file # NoName
               PROVE  Cardinality(OfFile(e, e[k].file)) <= MaxPerFile
    BY DEF FewPerFile
  <2> DEFINE A == OfFile(e, e[k].file)
             B == OfFile(s, s[k].file)
  <2>1. A \in SUBSET B /\ B \in SUBSET (1 .. Len(s))
    BY <1>1, <1>2 DEF OfFile
  <2>2. Cardinality(B) <= 2
    BY <1>2, <1>3 DEF FewPerFile, MaxPerFile
  <2>3. IsFiniteSet(B)
    BY <1>1, <2>1, SubsetOfInterval
  <2> HIDE DEF A, B
  <2>4. Cardinality(A) <= Cardinality(B) /\ Cardinality(A) \in Nat /\ Cardinality(B) \in Nat
    BY <2>1, <2>3, FS_Subset, FS_CardinalityType
  <2> QED BY <2>2, <2>4 DEF A, MaxPerFile
<1>4. ASSUME Within(s) PROVE Within(e)
  BY <1>1, <1>2, <1>4, Settings DEF Within
<1>5. ASSUME Distinct(s), Named(s) PROVE Distinct(e)
  <2>1. \A i \in 1 .. Len(e) : Key(e[i]) = Key(s[i])
    BY <1>2, <1>5 DEF Named, Key
  <2> QED BY <1>2, <1>5, <2>1 DEF Distinct
<1> QED BY <1>3, <1>4, <1>5

\* What one search returns: the best of its hits, unless enforceMaxChars has
\* removed something, and then all of max_chars is used.
OneResult(s, C, gone) ==
    /\ Len(C) <= CodeLimit /\ FewPerFile(C) /\ Within(C)
    /\ ~gone => Best(View(s), C, CodeLimit)
    /\ Named(s) => Distinct(C)
    /\ Budgeted => Chars(C) <= MaxChars
    /\ gone => Budgeted /\ (Named(s) => Chars(C) = MaxChars)

\* finalizeResults for files.
LEMMA FinalizeFiles ==
  ASSUME req \in Requests, FilesOnly, NEW s \in Seq(Hit), Sound(s), NEW u \in DedupSortLimit(s, SearchN),
         NEW C, C = IF FilesAll THEN enforceFilesAllMaxHits(u) ELSE u
  PROVE  C \in Seq(Hit) /\ OneResult(s, C, FALSE)
<1>1. View(s) = s
  BY DEF View
<1>2. u \in Seq(Hit) /\ Best(s, u, SearchN)
  BY RequestFacts, DedupSortLimitIsBest
<1>3. Len(u) \in Nat /\ Len(u) <= SearchN
  BY <1>2, HitFacts DEF Best
<1>4. ~Budgeted /\ (\A v : Within(v))
  BY DEF Budgeted, FilesOnly, Within
<1>5. C \in Seq(Hit) /\ Best(s, C, CodeLimit)
  <2>1. CASE FilesAll /\ FilesAllMaxHits > 0
    <3>1. CodeLimit = Least(SearchN, FilesAllMaxHits) /\ CodeLimit \in Nat /\ CodeLimit <= SearchN
          /\ SearchN \in Nat /\ FilesAllMaxHits \in Nat
      BY <2>1, RequestFacts, Settings
    <3>2. Least(Len(u), FilesAllMaxHits) = Least(Len(u), CodeLimit)
      BY <1>3, <3>1 DEF Least
    <3>3. C = SubSeq(u, 1, Least(Len(u), CodeLimit))
      BY <2>1, <3>2 DEF enforceFilesAllMaxHits
    <3>4. Best(s, C, CodeLimit)
      BY <1>2, <3>1, <3>3, BestPrefix
    <3>5. Least(Len(u), CodeLimit) \in 0 .. Len(u)
      BY <1>3, <3>1, LeastIs
    <3> QED BY <1>2, <3>3, <3>4, <3>5, PrefixIs
  <2>2. CASE ~(FilesAll /\ FilesAllMaxHits > 0)
    <3>1. C = u
      BY <2>2 DEF enforceFilesAllMaxHits
    <3>2. CodeLimit = SearchN
      BY <2>2, RequestFacts
    <3> QED BY <1>2, <3>1, <3>2
  <2> QED BY <2>1, <2>2
<1>6. Len(C) <= CodeLimit /\ FewPerFile(C) /\ Distinct(C)
  BY <1>5 DEF Best
<1> QED BY <1>1, <1>4, <1>5, <1>6 DEF OneResult

\* finalizeResults for snippets.
LEMMA FinalizeSearch ==
  ASSUME req \in Requests, ~FilesOnly, NEW s \in Seq(Hit), Sound(s),
         NEW u \in DedupSortLimit(View(s), SearchN), NEW C, C = enforceMaxChars(u)
  PROVE  C \in Seq(Hit) /\ OneResult(s, C, C # u)
<1> DEFINE v == View(s)
<1>1. v \in Seq(Hit) /\ Within(v) /\ (Named(s) => Named(v))
  BY ViewFacts
<1>2. CodeLimit = SearchN /\ SearchN \in Nat /\ SearchN > 0
  BY RequestFacts DEF FilesOnly, FilesAll
<1> HIDE DEF v
<1>3. u \in Seq(Hit) /\ Best(v, u, SearchN)
  BY <1>1, <1>2, DedupSortLimitIsBest DEF v
<1>4. PICK p : Places(p, u, v)
  BY <1>1, <1>2, DedupSortLimitIs DEF v
<1>5. Within(u) /\ (Named(s) => Named(u))
  BY <1>1, <1>4, PlacesWithin
<1>6. Len(u) <= CodeLimit /\ FewPerFile(u) /\ Distinct(u)
  BY <1>2, <1>3 DEF Best
<1>7. /\ Shortens(C, u)
      /\ MaxChars > 0 => Chars(C) <= MaxChars
      /\ C # u => MaxChars > 0 /\ Chars(C) = MaxChars
  BY <1>3, EnforceMaxCharsIs
<1>8. C \in Seq(Hit) /\ Len(C) <= Len(u)
  BY <1>7 DEF Shortens
<1>9. FewPerFile(C) /\ Within(C) /\ (Named(s) => Distinct(C))
  BY <1>3, <1>5, <1>6, <1>7, ShortensFacts
<1>10. Len(C) <= CodeLimit
  BY <1>2, <1>3, <1>6, <1>8, HitFacts
<1>11. ~(C # u) => Best(v, C, CodeLimit)
  BY <1>2, <1>3
<1>12. C # u => Budgeted /\ Chars(C) = MaxChars
  <2>1. req.kind = "search"
    BY DEF FilesOnly
  <2> QED BY <1>7, <2>1 DEF Budgeted
<1>13. Budgeted => Chars(C) <= MaxChars
  BY <1>7 DEF Budgeted
<1> QED BY <1>8, <1>9, <1>10, <1>11, <1>12, <1>13 DEF OneResult, v

\* What finalizeResults returns.
LEMMA FinalizeIs ==
  ASSUME req \in Requests, NEW s \in Seq(Hit), Sound(s), NEW f \in finalizeResults(s)
  PROVE  /\ f[1] \in Seq(Hit) /\ f[2] \in BOOLEAN /\ OneResult(s, f[1], f[2])
         /\ ~FilesAll /\ ~f[2] => f[1] \in DedupSortLimit(View(s), SearchN)
<1>1. CASE FilesOnly
  <2>1. PICK u \in DedupSortLimit(s, SearchN) :
             f = <<IF FilesAll THEN enforceFilesAllMaxHits(u) ELSE u, FALSE>>
    BY <1>1 DEF finalizeResults
  <2>2. f[1] = (IF FilesAll THEN enforceFilesAllMaxHits(u) ELSE u) /\ f[2] = FALSE
    BY <2>1
  <2>3. f[1] \in Seq(Hit) /\ OneResult(s, f[1], FALSE)
    BY <1>1, <2>2, FinalizeFiles
  <2>4. View(s) = s
    BY <1>1 DEF View
  <2>5. ~FilesAll => f[1] \in DedupSortLimit(View(s), SearchN)
    BY <2>2, <2>4
  <2> QED BY <2>2, <2>3, <2>5
<1>2. CASE ~FilesOnly
  <2>1. View(s) = cleanResultSnippets(s)
    BY <1>2 DEF View
  <2>2. PICK u \in DedupSortLimit(View(s), SearchN) : f = <<enforceMaxChars(u), enforceMaxChars(u) # u>>
    BY <1>2, <2>1 DEF finalizeResults
  <2> DEFINE C == enforceMaxChars(u)
  <2>3. f[1] = C /\ f[2] = (C # u)
    BY <2>2
  <2>4. C \in Seq(Hit) /\ OneResult(s, C, C # u)
    BY <1>2, FinalizeSearch
  <2> HIDE DEF C
  <2>5. f[2] \in BOOLEAN /\ OneResult(s, f[1], f[2])
    BY <2>3, <2>4
  <2>6. ~f[2] => f[1] = u
    BY <2>3
  <2> QED BY <2>2, <2>3, <2>4, <2>5, <2>6
<1> QED BY <1>1, <1>2

\* Ordering a result again changes nothing but the order of ties.
LEMMA AggregateOne ==
  ASSUME req \in Requests, NEW s \in Seq(Hit), Sound(s), NEW C \in Seq(Hit), NEW gone \in BOOLEAN,
         OneResult(s, C, gone), NEW t \in DedupSortLimit(C, CoreN)
  PROVE  t \in Seq(Hit) /\ OneResult(s, t, gone)
<1> DEFINE v == View(s)
<1>1. v \in Seq(Hit)
  BY ViewFacts
<1>2. Len(C) <= CodeLimit /\ CodeLimit <= SearchN /\ CodeLimit \in Nat /\ SearchN \in Nat /\ CoreN \in Nat
      /\ (CoreN > 0 => CoreN = SearchN)
  BY RequestFacts DEF OneResult
<1>3. t \in Seq(Hit) /\ Descending(t) /\ Distinct(t)
  BY <1>2, DedupSortLimitIs
<1>4. PICK p : Places(p, t, C)
  BY <1>2, DedupSortLimitIs
<1>5. Len(t) <= Len(C) /\ Len(t) \in Nat /\ Len(C) \in Nat
  BY <1>3, <1>4, PlacesShorter, HitFacts
<1>6. Within(t) /\ FewPerFile(t)
  BY <1>3, <1>4, PlacesWithin, FewInArrangement DEF OneResult
<1>7. Chars(t) <= Chars(C) /\ Chars(t) \in Nat /\ Chars(C) \in Nat
  BY <1>3, <1>4, CharsPlaces, CharsType
<1>8. Distinct(C) => Len(t) = Len(C)
  <2>1. CoreN > 0 => FewPerFile(C) /\ Len(C) <= CoreN
    BY <1>2, <1>5 DEF OneResult
  <2> QED BY <1>2, <2>1, DedupSortLimitKeepsAll
<1> HIDE DEF v
<1>9. ASSUME ~gone PROVE Best(v, t, CodeLimit)
  <2>1. Best(v, C, CodeLimit)
    BY <1>9 DEF OneResult, v
  <2>2. Len(t) = Len(C)
    BY <1>8, <2>1 DEF Best
  <2> QED BY <1>1, <1>2, <1>3, <1>4, <2>1, <2>2, BestArranged
<1>10. ASSUME gone PROVE Budgeted /\ (Named(s) => Chars(t) = MaxChars)
  <2>1. Budgeted
    BY <1>10 DEF OneResult
  <2>2. ASSUME Named(s) PROVE Chars(t) = MaxChars
    <3>1. Chars(C) = MaxChars /\ Len(t) = Len(C)
      BY <1>8, <1>10, <2>2 DEF OneResult
    <3>2. PICK q : Places(q, C, t)
      BY <1>3, <1>4, <3>1, PlacesInverse
    <3>3. Chars(C) <= Chars(t)
      BY <1>3, <3>2, CharsPlaces
    <3> QED BY <1>7, <3>1, <3>3
  <2> QED BY <2>1, <2>2
<1>11. Budgeted => Chars(t) <= MaxChars
  BY <1>7, Settings DEF OneResult
<1>12. Len(t) <= CodeLimit
  BY <1>2, <1>5
<1> QED BY <1>3, <1>6, <1>9, <1>10, <1>11, <1>12 DEF OneResult, v

-----------------------------------------------------------------------------
(* The searches and their aggregation                                      *)

Ended == pc \in {"select", "get", "done"}

SearchTypes ==
    /\ pc \in {"search", "select", "get", "done", "failed"}
    /\ req \in Requests /\ waiting \in SUBSET Scope
    /\ found \in Seq(Hit) /\ combined \in Seq(Hit) /\ Sound(found) /\ Within(combined)
    /\ answered \in BOOLEAN /\ cut \in BOOLEAN

\* Nothing is combined before a search has ended, and all of them end.
Stages ==
    /\ Ended => answered /\ waiting = {}
    /\ ~answered => combined = << >> /\ ~cut /\ (~All => found = << >>)
    /\ answered /\ All => waiting = {}
    /\ answered /\ ~All => waiting # req.named

Answered == answered /\ One => OneResult(found, combined, cut)

\* Each named collection that has ended has added at most max_chars.
Spent == ~All /\ Budgeted => Chars(combined) <= MaxChars * Cardinality(req.named \ waiting)

\* The lists of several collections, before and after they are ordered.
Gathered == pc = "search" /\ ~All /\ ~FilesAll /\ ~cut => Joined(View(found), combined, SearchN)

United == Ended /\ ~One /\ ~FilesAll /\ ~cut /\ Distinct(View(found)) =>
             Best(View(found), combined, SearchN)

SearchInv == SearchTypes /\ Stages /\ Answered /\ Spent /\ Gathered /\ United

\* The request does not change, so neither does what is made of it.
LEMMA SameRequest ==
  ASSUME req' = req
  PROVE  /\ SearchN' = SearchN /\ CodeLimit' = CodeLimit /\ FilesAll' = FilesAll /\ All' = All /\ One' = One
         /\ Budgeted' = Budgeted /\ Scope' = Scope
         /\ View(found)' = View(found') /\ Within(combined)' = Within(combined')
BY DEF SearchN, CodeLimit, FilesAll, All, One, Budgeted, Scope, View, FilesOnly, Within

\* What is said of a result depends on its lists and its request only.
LEMMA SameResult ==
  ASSUME req' = req
  PROVE  OneResult(found, combined, cut)' <=> OneResult(found', combined', cut')
BY SameRequest DEF OneResult

\* The parts of the invariant after a step, with the request of before.
LEMMA AfterStep ==
  ASSUME req' = req
  PROVE  /\ SearchTypes' <=> /\ pc' \in {"search", "select", "get", "done", "failed"}
                             /\ req \in Requests /\ waiting' \in SUBSET Scope
                             /\ found' \in Seq(Hit) /\ combined' \in Seq(Hit)
                             /\ Sound(found') /\ Within(combined')
                             /\ answered' \in BOOLEAN /\ cut' \in BOOLEAN
         /\ Stages' <=> /\ pc' \in {"select", "get", "done"} => answered' /\ waiting' = {}
                        /\ ~answered' => combined' = << >> /\ ~cut' /\ (~All => found' = << >>)
                        /\ answered' /\ All => waiting' = {}
                        /\ answered' /\ ~All => waiting' # req.named
         /\ Answered' <=> (answered' /\ One => OneResult(found', combined', cut'))
         /\ Spent' <=> (~All /\ Budgeted =>
                           Chars(combined') <= MaxChars * Cardinality(req.named \ waiting'))
         /\ Gathered' <=> (pc' = "search" /\ ~All /\ ~FilesAll /\ ~cut' =>
                              Joined(View(found'), combined', SearchN))
         /\ United' <=> (pc' \in {"select", "get", "done"} /\ ~One /\ ~FilesAll /\ ~cut' /\ Distinct(View(found')) =>
                            Best(View(found'), combined', SearchN))
<1>1. SearchTypes' <=> /\ pc' \in {"search", "select", "get", "done", "failed"}
                       /\ req \in Requests /\ waiting' \in SUBSET Scope
                       /\ found' \in Seq(Hit) /\ combined' \in Seq(Hit)
                       /\ Sound(found') /\ Within(combined')
                       /\ answered' \in BOOLEAN /\ cut' \in BOOLEAN
  BY SameRequest DEF SearchTypes
<1>2. Stages' <=> /\ pc' \in {"select", "get", "done"} => answered' /\ waiting' = {}
                  /\ ~answered' => combined' = << >> /\ ~cut' /\ (~All => found' = << >>)
                  /\ answered' /\ All => waiting' = {}
                  /\ answered' /\ ~All => waiting' # req.named
  BY SameRequest DEF Stages, Ended
<1>3. Answered' <=> (answered' /\ One => OneResult(found', combined', cut'))
  BY SameRequest, SameResult DEF Answered
<1>4. Spent' <=> (~All /\ Budgeted => Chars(combined') <= MaxChars * Cardinality(req.named \ waiting'))
  BY SameRequest DEF Spent
<1>5. Gathered' <=> (pc' = "search" /\ ~All /\ ~FilesAll /\ ~cut' =>
                        Joined(View(found'), combined', SearchN))
  BY SameRequest DEF Gathered
<1>6. United' <=> (pc' \in {"select", "get", "done"} /\ ~One /\ ~FilesAll /\ ~cut' /\ Distinct(View(found')) =>
                      Best(View(found'), combined', SearchN))
  BY SameRequest DEF United, Ended
<1> QED BY <1>1, <1>2, <1>3, <1>4, <1>5, <1>6

\* Joined lists keep the limit on snippets.
LEMMA WithinConcat ==
  ASSUME NEW a \in Seq(Hit), NEW b \in Seq(Hit), Within(a), Within(b)
  PROVE  Within(a \o b)
<1> DEFINE d == a \o b
<1>1. Len(a) \in Nat /\ Len(b) \in Nat
  BY HitFacts
<1>2. /\ Len(d) = Len(a) + Len(b) /\ \A k \in 1 .. Len(a) : d[k] = a[k]
      /\ \A k \in Len(a) + 1 .. Len(a) + Len(b) : d[k] = b[k - Len(a)] /\ k - Len(a) \in 1 .. Len(b)
  BY ConcatIs
<1> HIDE DEF d
<1>3. \A k \in 1 .. Len(d) : k \in 1 .. Len(a) \/ k \in Len(a) + 1 .. Len(a) + Len(b)
  BY <1>1, <1>2
<1>4. Within(d)
  BY <1>2, <1>3 DEF Within
<1> QED BY <1>4 DEF d

\* One more collection has ended.
LEMMA OneMore ==
  ASSUME NEW N, IsFiniteSet(N), NEW W \in SUBSET N, NEW c \in W
  PROVE  /\ Cardinality(N \ W) \in Nat
         /\ MaxChars * Cardinality(N \ (W \ {c})) = MaxChars * Cardinality(N \ W) + MaxChars
         /\ MaxChars * Cardinality(N \ W) \in Nat
<1> DEFINE A == N \ W
<1>1. IsFiniteSet(A) /\ c \notin A /\ N \ (W \ {c}) = A \union {c}
  BY FS_Subset
<1> HIDE DEF A
<1>2. Cardinality(A) \in Nat /\ Cardinality(A \union {c}) = Cardinality(A) + 1
  BY <1>1, FS_CardinalityType, FS_AddElement
<1>3. \A m, k \in Nat : m * (k + 1) = m * k + m /\ m * k \in Nat
  OBVIOUS
<1>4. MaxChars \in Nat
  BY Settings
<1> QED BY <1>1, <1>2, <1>3, <1>4 DEF A

\* The invariant of the searches at the start.
LEMMA SearchInit ==
  ASSUME Init
  PROVE  SearchInv
<1> USE DEF Init
<1>1. << >> \in Seq(Hit) /\ Len(<< >>) = 0
  OBVIOUS
<1>2. Sound(<< >>) /\ Within(<< >>)
  BY <1>1 DEF Sound, Within
<1>3. SearchTypes
  BY <1>1, <1>2 DEF SearchTypes
<1>4. Stages /\ Answered /\ United
  BY DEF Stages, Answered, United, Ended
<1>5. Spent
  <2>1. req.named \ waiting = {} \/ All
    BY DEF Scope
  <2>2. Cardinality({}) = 0 /\ MaxChars * 0 = 0
    BY FS_EmptySet, Settings
  <2>3. combined = << >> /\ Chars(combined) = 0
    BY CharsEmpty
  <2> HIDE DEF Init
  <2> DEFINE k == Cardinality(req.named \ waiting)
  <2>4. ~All => k = 0
    BY <2>1, <2>2
  <2>5. Spent <=> (~All /\ Budgeted => Chars(combined) <= MaxChars * k)
    BY DEF Spent
  <2> HIDE DEF k
  <2> QED BY <2>2, <2>3, <2>4, <2>5
<1>6. Gathered
  <2>1. View(<< >>) = << >>
    <3> DEFINE v == View(<< >>)
    <3>1. v \in Seq(Hit) /\ Len(v) = 0
      BY <1>1, <1>2, ViewFacts
    <3> HIDE DEF v
    <3>2. v = << >>
      BY <3>1
    <3> QED BY <3>2 DEF v
  <2> QED BY <2>1, JoinedEmpty DEF Gathered
<1> QED BY <1>3, <1>4, <1>5, <1>6 DEF SearchInv

\* A named collection is searched.
LEMMA SearchNamedKeeps ==
  ASSUME SearchInv, NEW c \in Collections, SearchNamed(c)
  PROVE  SearchInv'
<1>1. /\ pc' = pc /\ req' = req /\ pc = "search" /\ c \in waiting /\ ~All
      /\ answered' = TRUE /\ waiting' = waiting \ {c}
  BY DEF SearchNamed, Turn
<1>2. PICK a \in Answers(c) :
         /\ Parses(a[1], a[2])
         /\ LET s == filterMinScore(filterExclude(parseSearchOutput(a[1], a[2]), c))
            IN  /\ \E f \in finalizeResults(s) : combined' = combined \o f[1] /\ cut' = (cut \/ f[2])
                /\ found' = found \o s
  BY DEF SearchNamed
<1> DEFINE s == filterMinScore(filterExclude(parseSearchOutput(a[1], a[2]), c))
<1>3. s \in Seq(Hit) /\ Sound(s)
  BY <1>2, AnswerFacts, FilterFacts
<1> HIDE DEF s
<1>4. PICK f \in finalizeResults(s) : combined' = combined \o f[1] /\ cut' = (cut \/ f[2])
  BY <1>2 DEF s
<1>5. found' = found \o s
  BY <1>2 DEF s
<1>6. /\ req \in Requests /\ waiting \in SUBSET Scope /\ found \in Seq(Hit) /\ combined \in Seq(Hit)
      /\ Sound(found) /\ Within(combined) /\ answered \in BOOLEAN /\ cut \in BOOLEAN
  BY DEF SearchInv, SearchTypes
<1>7. /\ f[1] \in Seq(Hit) /\ f[2] \in BOOLEAN /\ OneResult(s, f[1], f[2])
      /\ ~FilesAll /\ ~f[2] => f[1] \in DedupSortLimit(View(s), SearchN)
  BY <1>3, <1>4, <1>6, FinalizeIs
<1>8. found' \in Seq(Hit) /\ Sound(found')
  BY <1>3, <1>5, <1>6, SoundConcat
<1>9. combined' \in Seq(Hit) /\ Within(combined')
  <2>1. Within(f[1])
    BY <1>7 DEF OneResult
  <2> QED BY <1>4, <1>6, <1>7, <2>1, ConcatIs, WithinConcat
<1>10. SearchTypes'
  <2>1. waiting' \in SUBSET Scope /\ answered' \in BOOLEAN
    BY <1>1, <1>6
  <2>2. cut' \in BOOLEAN
    BY <1>4, <1>6, <1>7, Zenon
  <2>3. pc' \in {"search", "select", "get", "done", "failed"}
    BY <1>1
  <2> QED BY <1>1, <1>6, <1>8, <1>9, <2>1, <2>2, <2>3, AfterStep
<1>11. Scope = req.named /\ IsFiniteSet(req.named)
  BY <1>1, <1>6, RequestFacts DEF Scope
<1>12. Stages'
  <2>1. waiting' # req.named
    BY <1>1, <1>6, <1>11
  <2> QED BY <1>1, <2>1, AfterStep
<1>13. Answered'
  <2> SUFFICES ASSUME One PROVE OneResult(found', combined', cut')
    BY <1>1, AfterStep
  <2>1. Cardinality(req.named) = 1
    BY <1>1 DEF One
  <2>2. PICK x : req.named = {x}
    BY <1>11, <2>1, FS_Singleton
  <2>3. waiting = req.named
    BY <1>1, <1>6, <1>11, <2>2
  <2>4. ~answered
    BY <1>1, <2>3 DEF SearchInv, Stages
  <2>5. found = << >> /\ combined = << >> /\ ~cut
    BY <1>1, <2>4 DEF SearchInv, Stages
  <2>6. found' = s /\ combined' = f[1]
    BY <1>3, <1>4, <1>5, <1>7, <2>5
  <2>7. cut' = f[2]
    BY <1>4, <1>7, <2>5, Zenon
  <2> QED BY <1>7, <2>6, <2>7
<1>14. Spent'
  <2> SUFFICES ASSUME Budgeted PROVE Chars(combined') <= MaxChars * Cardinality(req.named \ waiting')
    BY <1>1, AfterStep
  <2> DEFINE spent == MaxChars * Cardinality(req.named \ waiting)
  <2>1. Chars(combined) <= spent
    BY <1>1 DEF SearchInv, Spent
  <2>2. Chars(f[1]) <= MaxChars
    BY <1>7 DEF OneResult
  <2>3. Chars(combined') <= Chars(combined) + Chars(f[1])
    BY <1>4, <1>6, <1>7, CharsConcat
  <2>4. MaxChars * Cardinality(req.named \ waiting') = spent + MaxChars /\ spent \in Nat
    BY <1>1, <1>6, <1>11, OneMore
  <2>5. Chars(combined) \in Nat /\ Chars(f[1]) \in Nat /\ Chars(combined') \in Nat /\ MaxChars \in Nat
    BY <1>6, <1>7, <1>9, CharsType, Settings
  <2> HIDE DEF spent
  <2> QED BY <2>1, <2>2, <2>3, <2>4, <2>5
<1>15. Gathered'
  <2> SUFFICES ASSUME ~FilesAll, ~cut' PROVE Joined(View(found'), combined', SearchN)
    BY <1>1, AfterStep
  <2>1. ~cut /\ ~f[2]
    <3>1. cut' = (cut \/ f[2])
      BY <1>4
    <3> QED BY <3>1
  <2>2. Joined(View(found), combined, SearchN)
    BY <1>1, <2>1 DEF SearchInv, Gathered
  <2>3. View(found') = View(found) \o View(s)
    BY <1>3, <1>5, <1>6, ViewConcat
  <2>4. View(found) \in Seq(Hit) /\ View(s) \in Seq(Hit) /\ SearchN \in Nat /\ SearchN > 0
    BY <1>3, <1>6, ViewFacts, RequestFacts
  <2>5. f[1] \in DedupSortLimit(View(s), SearchN)
    BY <1>7, <2>1
  <2>6. Joined(View(found) \o View(s), combined \o f[1], SearchN)
    BY <1>6, <2>2, <2>4, <2>5, JoinedStep
  <2> QED BY <1>4, <2>3, <2>6
<1>16. United'
  BY <1>1, AfterStep
<1> QED BY <1>10, <1>12, <1>13, <1>14, <1>15, <1>16 DEF SearchInv

\* A collection of the tier is searched.
LEMMA SearchTierKeeps ==
  ASSUME SearchInv, NEW c \in Collections, SearchTier(c)
  PROVE  SearchInv'
<1>1. /\ pc' = pc /\ req' = req /\ pc = "search" /\ c \in waiting /\ All
      /\ answered' = answered /\ combined' = combined /\ cut' = cut /\ waiting' = waiting \ {c}
  BY DEF SearchTier, Turn
<1>2. PICK a \in Answers(c) :
         /\ Parses(a[1], a[2])
         /\ found' = found \o filterExclude(parseSearchOutput(a[1], a[2]), c)
  BY DEF SearchTier
<1>3. SearchTypes /\ Stages
  BY DEF SearchInv
<1>4. found' \in Seq(Hit) /\ Sound(found')
  BY <1>2, <1>3, AnswerFacts, SoundConcat DEF SearchTypes
<1>5. ~answered
  BY <1>1, <1>3 DEF Stages
<1>6. SearchTypes'
  BY <1>1, <1>3, <1>4, AfterStep DEF SearchTypes
<1>7. Stages'
  BY <1>1, <1>3, <1>5, AfterStep DEF Stages
<1>8. Answered' /\ Spent' /\ Gathered' /\ United'
  BY <1>1, <1>5, AfterStep
<1> QED BY <1>6, <1>7, <1>8 DEF SearchInv

\* A search fails.
LEMMA SearchFailsKeeps ==
  ASSUME SearchInv, NEW c \in Collections, SearchFails(c)
  PROVE  SearchInv'
<1>1. /\ pc' = pc /\ req' = req /\ pc = "search" /\ c \in waiting /\ found' = found
      /\ answered' = answered /\ combined' = combined /\ cut' = cut /\ waiting' = waiting \ {c}
  BY DEF SearchFails, Turn
<1>2. SearchTypes /\ Stages /\ Answered /\ Spent /\ Gathered
  BY DEF SearchInv
<1>3. SearchTypes'
  BY <1>1, <1>2, AfterStep DEF SearchTypes
<1>4. Stages'
  <2>1. ~All => waiting' # req.named
    BY <1>1, <1>2 DEF SearchTypes, Scope
  <2> QED BY <1>1, <1>2, <2>1, AfterStep DEF Stages
<1>5. Answered'
  BY <1>1, <1>2, AfterStep DEF Answered
<1>6. Spent'
  <2> SUFFICES ASSUME ~All, Budgeted PROVE Chars(combined) <= MaxChars * Cardinality(req.named \ waiting')
    BY <1>1, AfterStep
  <2> DEFINE spent == MaxChars * Cardinality(req.named \ waiting)
  <2>1. Chars(combined) <= spent
    BY <1>2 DEF Spent
  <2>2. waiting \in SUBSET req.named /\ IsFiniteSet(req.named) /\ combined \in Seq(Hit)
    BY <1>2, RequestFacts DEF SearchTypes, Scope
  <2>3. MaxChars * Cardinality(req.named \ waiting') = spent + MaxChars /\ spent \in Nat
    BY <1>1, <2>2, OneMore
  <2>4. Chars(combined) \in Nat /\ MaxChars \in Nat
    BY <2>2, CharsType, Settings
  <2> HIDE DEF spent
  <2> QED BY <2>1, <2>3, <2>4
<1>7. Gathered' /\ United'
  BY <1>1, <1>2, AfterStep DEF Gathered
<1> QED BY <1>3, <1>4, <1>5, <1>6, <1>7 DEF SearchInv

\* The searches of the tier have ended.
LEMMA FinishTierKeeps ==
  ASSUME SearchInv, FinishTier
  PROVE  SearchInv'
<1>1. /\ pc' = pc /\ req' = req /\ pc = "search" /\ All /\ waiting = {} /\ waiting' = waiting
      /\ answered' = TRUE
  BY DEF FinishTier
<1> DEFINE s == filterMinScore(found)
<1>2. PICK f \in finalizeResults(s) : combined' = f[1] /\ cut' = f[2]
  BY DEF FinishTier
<1>3. found' = s
  BY DEF FinishTier
<1>4. req \in Requests /\ found \in Seq(Hit) /\ Sound(found)
  BY DEF SearchInv, SearchTypes
<1>5. s \in Seq(Hit) /\ Sound(s)
  BY <1>4, FilterFacts
<1> HIDE DEF s
<1>6. f[1] \in Seq(Hit) /\ f[2] \in BOOLEAN /\ OneResult(s, f[1], f[2])
  BY <1>2, <1>4, <1>5, FinalizeIs
<1>7. SearchTypes'
  <2>1. Within(combined')
    BY <1>2, <1>6 DEF OneResult
  <2> QED BY <1>1, <1>2, <1>3, <1>4, <1>5, <1>6, <2>1, AfterStep
<1>8. Stages'
  BY <1>1, AfterStep
<1>9. Answered'
  BY <1>1, <1>2, <1>3, <1>6, AfterStep
<1>10. Spent' /\ Gathered' /\ United'
  BY <1>1, AfterStep
<1> QED BY <1>7, <1>8, <1>9, <1>10 DEF SearchInv

\* The results are joined and cut again.
LEMMA AggregateKeeps ==
  ASSUME SearchInv, Aggregate
  PROVE  SearchInv'
<1>1. /\ req' = req /\ pc = "search" /\ waiting = {} /\ waiting' = waiting /\ found' = found
      /\ answered /\ answered' = answered /\ cut' = cut /\ pc' \in {"select", "done"}
  BY DEF Aggregate
<1>2. PICK t \in DedupSortLimit(combined, CoreN) :
         combined' = IF FilesAll /\ FilesAllMaxHits > 0 /\ Len(t) > FilesAllMaxHits
                     THEN SubSeq(t, 1, FilesAllMaxHits) ELSE t
  BY DEF Aggregate
<1>3. SearchTypes /\ Stages /\ Answered /\ Spent /\ Gathered
  BY DEF SearchInv
<1>4. /\ req \in Requests /\ found \in Seq(Hit) /\ Sound(found) /\ combined \in Seq(Hit)
      /\ Within(combined) /\ cut \in BOOLEAN /\ answered \in BOOLEAN
  BY <1>3 DEF SearchTypes
<1>5. t \in Seq(Hit) /\ \E p : Places(p, t, combined)
  BY <1>4, RequestFacts, DedupSortLimitIs
<1>6. ~FilesAll => combined' = t
  BY <1>2
<1>7. combined' \in Seq(Hit) /\ Within(combined')
  <2>1. CASE FilesAll
    <3>1. Len(t) \in Nat /\ FilesAllMaxHits \in Nat
      BY <1>5, HitFacts, Settings
    <3>2. combined' \in Seq(Hit)
      <4>1. CASE FilesAllMaxHits > 0 /\ Len(t) > FilesAllMaxHits
        <5>1. FilesAllMaxHits \in 0 .. Len(t)
          BY <3>1, <4>1
        <5> QED BY <1>2, <1>5, <2>1, <4>1, <5>1, PrefixIs
      <4>2. CASE ~(FilesAllMaxHits > 0 /\ Len(t) > FilesAllMaxHits)
        BY <1>2, <1>5, <4>2
      <4> QED BY <4>1, <4>2
    <3> QED BY <2>1, <3>2 DEF FilesAll, Within
  <2>2. CASE ~FilesAll
    BY <1>4, <1>5, <1>6, <2>2, PlacesWithin
  <2> QED BY <2>1, <2>2
<1>8. SearchTypes'
  BY <1>1, <1>3, <1>4, <1>7, AfterStep DEF SearchTypes
<1>9. Stages'
  BY <1>1, <1>3, AfterStep DEF Stages
<1>10. Answered'
  <2> SUFFICES ASSUME One PROVE OneResult(found, combined', cut)
    BY <1>1, AfterStep
  <2>1. OneResult(found, combined, cut)
    BY <1>1, <1>3 DEF Answered
  <2>2. OneResult(found, t, cut)
    BY <1>4, <2>1, AggregateOne
  <2>3. ~(FilesAll /\ FilesAllMaxHits > 0 /\ Len(t) > FilesAllMaxHits)
    <3> SUFFICES ASSUME FilesAll, FilesAllMaxHits > 0 PROVE Len(t) <= FilesAllMaxHits
      BY <1>5, HitFacts, Settings
    <3>1. Len(t) <= CodeLimit /\ CodeLimit = Least(SearchN, FilesAllMaxHits) /\ SearchN \in Nat /\ CodeLimit \in Nat
      BY <1>4, <2>2, RequestFacts DEF OneResult
    <3>2. CodeLimit <= FilesAllMaxHits
      BY <3>1, LeastIs, Settings
    <3> QED BY <1>5, <3>1, <3>2, HitFacts, Settings
  <2>4. combined' = t
    BY <1>2, <2>3
  <2> QED BY <2>2, <2>4
<1>11. Spent'
  <2> SUFFICES ASSUME ~All, Budgeted PROVE Chars(combined') <= MaxChars * Cardinality(req.named \ waiting)
    BY <1>1, AfterStep
  <2>1. combined' = t
    BY <1>6 DEF Budgeted, FilesAll
  <2>2. Chars(t) <= Chars(combined) /\ Chars(t) \in Nat /\ Chars(combined) \in Nat
    BY <1>4, <1>5, CharsPlaces, CharsType
  <2> DEFINE spent == MaxChars * Cardinality(req.named \ waiting)
  <2>3. Chars(combined) <= spent
    BY <1>3 DEF Spent
  <2>4. spent \in Nat
    <3>1. IsFiniteSet(req.named \ waiting)
      BY <1>4, RequestFacts, FS_Subset
    <3>2. Cardinality(req.named \ waiting) \in Nat
      BY <3>1, FS_CardinalityType
    <3>3. \A m, k \in Nat : m * k \in Nat
      OBVIOUS
    <3> QED BY <3>2, <3>3, Settings
  <2> HIDE DEF spent
  <2>5. Chars(combined') <= spent
    BY <2>1, <2>2, <2>3, <2>4
  <2> QED BY <2>5 DEF spent
<1>12. Gathered'
  BY <1>1, AfterStep
<1>13. United'
  <2> SUFFICES ASSUME ~One, ~FilesAll, ~cut, Distinct(View(found)) PROVE Best(View(found), combined', SearchN)
    BY <1>1, AfterStep
  <2>1. Joined(View(found), combined, SearchN)
    BY <1>1, <1>3 DEF Gathered, One
  <2>2. View(found) \in Seq(Hit) /\ SearchN \in Nat /\ SearchN > 0 /\ CoreN = SearchN
    BY <1>4, ViewFacts, RequestFacts
  <2>3. Best(View(found), t, SearchN)
    BY <1>4, <2>1, <2>2, UnionIsBest
  <2> QED BY <1>6, <2>3
<1> QED BY <1>8, <1>9, <1>10, <1>11, <1>12, <1>13 DEF SearchInv

\* The steps of SearchAndGet, and a request that fails, leave the hits alone.
LEMMA HitsAreLeft ==
  ASSUME SearchInv, req' = req, UNCHANGED <<waiting, found, combined, answered, cut>>,
         pc' = pc \/ pc' = "failed" \/ (pc \in {"select", "get", "done"} /\ pc' \in {"select", "get", "done"})
  PROVE  SearchInv'
<1>1. waiting' = waiting /\ found' = found /\ combined' = combined /\ answered' = answered /\ cut' = cut
  OBVIOUS
<1>2. SearchTypes /\ Stages /\ Answered /\ Spent /\ Gathered /\ United
  BY DEF SearchInv
<1>3. SearchTypes'
  BY <1>1, <1>2, AfterStep DEF SearchTypes
<1>4. Stages'
  BY <1>1, <1>2, AfterStep DEF Stages, Ended
<1>5. Answered'
  BY <1>1, <1>2, AfterStep DEF Answered
<1>6. Spent'
  BY <1>1, <1>2, AfterStep DEF Spent
<1>7. Gathered'
  BY <1>1, <1>2, AfterStep DEF Gathered
<1>8. United'
  BY <1>1, <1>2, AfterStep DEF United, Ended
<1> QED BY <1>3, <1>4, <1>5, <1>6, <1>7, <1>8 DEF SearchInv

\* Every step keeps the invariant of the searches.
LEMMA SearchStep ==
  ASSUME SearchInv, [Next]_vars
  PROVE  SearchInv'
<1>1. ASSUME NEW c \in Collections, SearchNamed(c) PROVE SearchInv'
  BY <1>1, SearchNamedKeeps
<1>2. ASSUME NEW c \in Collections, SearchTier(c) PROVE SearchInv'
  BY <1>2, SearchTierKeeps
<1>3. ASSUME NEW c \in Collections, SearchFails(c) PROVE SearchInv'
  BY <1>3, SearchFailsKeeps
<1>4. CASE FinishTier
  BY <1>4, FinishTierKeeps
<1>5. CASE Aggregate
  BY <1>5, AggregateKeeps
<1>6. CASE AllFailed
  BY <1>6, HitsAreLeft DEF AllFailed
<1>7. CASE Select
  BY <1>7, HitsAreLeft DEF Select
<1>8. CASE Fill
  BY <1>8, HitsAreLeft DEF Fill, Take
<1>9. CASE Assemble
  BY <1>9, HitsAreLeft DEF Assemble, AllRead
<1>10. ASSUME NEW k \in 1 .. Len(targets), Get(k) PROVE SearchInv'
  BY <1>10, HitsAreLeft DEF Get
<1>11. CASE UNCHANGED vars
  BY <1>11, HitsAreLeft DEF vars
<1> QED BY <1>1, <1>2, <1>3, <1>4, <1>5, <1>6, <1>7, <1>8, <1>9, <1>10, <1>11 DEF Next

\* The searches keep the invariant: what one search has found is cut to its
\* best within the budgets, and what several have found is cut without losing
\* a hit that belongs to the best of all.
THEOREM SearchInvariant == Spec => []SearchInv
<1>1. Init => SearchInv
  BY SearchInit
<1>2. SearchInv /\ [Next]_vars => SearchInv'
  BY SearchStep
<1> QED BY <1>1, <1>2, PTL DEF Spec

\* The response holds the best of everything that was found, whatever the
\* collections, the limits and the outputs of qmd are: what each search cuts
\* away would have been cut from the union too.  As in ListsAreBest, a list that
\* max_chars has shortened, several named collections that share a hit or are asked
\* for all files, and all files that top_k cuts are left out.
THEOREM BestHits == Spec => []ListsAreBest
<1>1. SearchInv => ListsAreBest
  <2> SUFFICES ASSUME SearchInv, pc \in {"select", "get", "done"}, ~cut, TopKOutOfPlay
               PROVE  ListsAreBest
    BY DEF ListsAreBest
  <2> DEFINE v == View(found)
  <2>1. /\ req \in Requests /\ found \in Seq(Hit) /\ Sound(found) /\ combined \in Seq(Hit)
        /\ answered /\ Answered /\ United
    BY DEF SearchInv, SearchTypes, Stages, Ended
  <2>2. v \in Seq(Hit) /\ DOMAIN v = 1 .. Len(v) /\ CodeLimit \in Nat /\ (~FilesAll => CodeLimit = SearchN)
    BY <2>1, ViewFacts, RequestFacts, HitFacts
  <2>3. ListsAreBest <=> (One \/ ((\A k, l \in DOMAIN v : Key(v[k]) = Key(v[l]) => k = l) /\ ~FilesAll)
                            => BestOf(v, combined, Limit))
    BY DEF ListsAreBest, View
  <2>6. Limit = CodeLimit
    <3>1. req.topK \in Nat
      BY <2>1, RetrieveAssumption DEF Request
    <3> QED BY <3>1, Settings DEF Limit, CodeLimit, TopKOutOfPlay, SearchN, Least
  <2> HIDE DEF v
  <2>4. (\A k, l \in DOMAIN v : Key(v[k]) = Key(v[l]) => k = l) => Distinct(v)
    BY <2>2 DEF Distinct
  <2>5. ASSUME One \/ (Distinct(v) /\ ~FilesAll) PROVE Best(v, combined, CodeLimit)
    <3>1. CASE One
      BY <2>1, <3>1 DEF Answered, OneResult, v
    <3>2. CASE ~One
      BY <2>1, <2>2, <2>5, <3>2 DEF United, Ended, v
    <3> QED BY <3>1, <3>2
  <2> QED BY <2>1, <2>2, <2>3, <2>4, <2>5, <2>6, BestIsBestOf
<1> QED BY <1>1, SearchInvariant, PTL

\* A request that one search answers gets at most max_chars of snippets, no snippet is
\* longer than its limit, and something is removed only when all of it is used.
THEOREM CharsWithinLimit == Spec => []SnippetsWithinLimit
<1>1. SearchInv => SnippetsWithinLimit
  <2> SUFFICES ASSUME SearchInv, pc = "done", req.kind = "search", MaxChars > 0
               PROVE  /\ \A h \in Range(combined) : h.len <= MaxSnippet
                      /\ One => Chars(combined) <= MaxChars
                      /\ (cut /\ One /\ \A h \in Range(found) : h.doc # NoName \/ h.file # NoName)
                         => Chars(combined) = MaxChars
    BY DEF SnippetsWithinLimit
  <2>1. /\ req \in Requests /\ found \in Seq(Hit) /\ combined \in Seq(Hit) /\ Within(combined)
        /\ answered /\ Answered /\ Budgeted
    BY DEF SearchInv, SearchTypes, Stages, Ended, Budgeted
  <2>2. DOMAIN combined = 1 .. Len(combined) /\ DOMAIN found = 1 .. Len(found)
    BY <2>1, HitFacts
  <2>3. \A h \in Range(combined) : h.len <= MaxSnippet
    BY <2>1, <2>2 DEF Within, Range
  <2>4. One => Chars(combined) <= MaxChars
    BY <2>1 DEF Answered, OneResult
  <2>5. ASSUME cut, One, \A h \in Range(found) : h.doc # NoName \/ h.file # NoName
        PROVE  Chars(combined) = MaxChars
    <3>1. Named(found)
      BY <2>2, <2>5 DEF Named, Range
    <3>2. OneResult(found, combined, cut)
      BY <2>1, <2>5 DEF Answered
    <3> QED BY <2>5, <3>1, <3>2 DEF OneResult
  <2> QED BY <2>3, <2>4, <2>5
<1> QED BY <1>1, SearchInvariant, PTL

\* What the code keeps of max_chars for a request that names its collections:
\* max_chars for each of them.
CharsPerCollection ==
    (pc = "done" /\ req.kind = "search" /\ MaxChars > 0 /\ ~All) =>
        Chars(combined) <= MaxChars * Cardinality(req.named)

\* Several named collections may fill max_chars each, and no more.
THEOREM CharsWithinLimits == Spec => []CharsPerCollection
<1>1. SearchInv => CharsPerCollection
  <2> SUFFICES ASSUME SearchInv, pc = "done", req.kind = "search", MaxChars > 0, ~All
               PROVE  Chars(combined) <= MaxChars * Cardinality(req.named)
    BY DEF CharsPerCollection
  <2>1. Spent /\ Budgeted /\ waiting = {}
    BY DEF SearchInv, Stages, Ended, Budgeted
  <2>2. req.named \ waiting = req.named
    BY <2>1
  <2> QED BY <2>1, <2>2 DEF Spent
<1> QED BY <1>1, SearchInvariant, PTL

-----------------------------------------------------------------------------
(* SearchAndGet: selecting, reading, filling and listing                   *)

\* A list of positions in increasing order, none above n.
Rising(q, n) ==
    /\ q \in Seq(Nat)
    /\ \A i \in 1 .. Len(q) : q[i] \in 1 .. n
    /\ \A i, j \in 1 .. Len(q) : i < j => q[i] < q[j]

\* No numbers rise.
LEMMA RisingEmpty ==
  ASSUME NEW n
  PROVE  Rising(<< >>, n)
BY DEF Rising

\* A function on 1 .. m is a list.
LEMMA FunctionIsList ==
  ASSUME NEW S, NEW m \in Nat, NEW f \in [1 .. m -> S]
  PROVE  f \in Seq(S)
BY SMT

\* Rising numbers are different and lie below their bound.
LEMMA RisingFacts ==
  ASSUME NEW n \in Nat, NEW q, Rising(q, n)
  PROVE  /\ Len(q) \in Nat /\ DOMAIN q = 1 .. Len(q)
         /\ q \in Seq(1 .. n) /\ IsInjective(q) /\ Rising(q, n + 1)
         /\ q \in [1 .. Len(q) -> 1 .. n] /\ Range(q) \in SUBSET (1 .. n)
<1>1. Len(q) \in Nat /\ DOMAIN q = 1 .. Len(q) /\ q \in Seq(Nat)
  BY DEF Rising
<1>2. \A i \in 1 .. Len(q) : q[i] \in 1 .. n /\ q[i] \in 1 .. n + 1 /\ q[i] \in Nat
  BY DEF Rising
<1>3. \A i, j \in 1 .. Len(q) : q[i] = q[j] => i = j
  <2> SUFFICES ASSUME NEW i \in 1 .. Len(q), NEW j \in 1 .. Len(q), q[i] = q[j], i # j PROVE FALSE
    OBVIOUS
  <2>1. i < j \/ j < i
    BY <1>1
  <2>2. q[i] < q[j] \/ q[j] < q[i]
    BY <2>1 DEF Rising
  <2> QED BY <1>2, <2>2
<1>4. q \in [1 .. Len(q) -> 1 .. n]
  BY <1>1, <1>2
<1>5. Range(q) \in SUBSET (1 .. n)
  BY <1>1, <1>2 DEF Range
<1>6. q \in Seq(1 .. n)
  BY <1>1, <1>4, FunctionIsList
<1>7. IsInjective(q)
  BY <1>1, <1>3 DEF IsInjective
<1>8. Rising(q, n + 1)
  BY <1>2 DEF Rising
<1> QED BY <1>1, <1>4, <1>5, <1>6, <1>7, <1>8

\* Appending to a list of numbers.
LEMMA AppendIs ==
  ASSUME NEW q \in Seq(Nat), NEW x \in Nat
  PROVE  /\ Append(q, x) \in Seq(Nat) /\ Len(Append(q, x)) = Len(q) + 1 /\ Len(q) \in Nat
         /\ Append(q, x)[Len(q) + 1] = x
         /\ \A i \in 1 .. Len(q) : Append(q, x)[i] = q[i]
         /\ \A i \in 1 .. Len(q) + 1 : i \in 1 .. Len(q) \/ i = Len(q) + 1
         /\ Range(Append(q, x)) = Range(q) \union {x}
<1> DEFINE a == Append(q, x)
           m == Len(q)
<1>1. m \in Nat /\ DOMAIN q = 1 .. m
  OBVIOUS
<1>2. a \in Seq(Nat) /\ Len(a) = m + 1 /\ DOMAIN a = 1 .. m + 1 /\ a[m + 1] = x
      /\ \A i \in 1 .. m : a[i] = q[i]
  BY <1>1
<1>3. (\A i \in 1 .. m + 1 : i \in 1 .. m \/ i = m + 1) /\ m + 1 \in 1 .. m + 1
      /\ \A i \in 1 .. m : i \in 1 .. m + 1
  BY <1>1
<1> HIDE DEF a, m
<1>4. Range(a) = Range(q) \union {x}
  BY <1>1, <1>2, <1>3 DEF Range
<1> QED BY <1>1, <1>2, <1>3, <1>4 DEF a, m

\* The next number may follow.
LEMMA RisingAppend ==
  ASSUME NEW n \in Nat, NEW q, Rising(q, n)
  PROVE  Rising(Append(q, n + 1), n + 1)
<1> DEFINE a == Append(q, n + 1)
<1>1. q \in Seq(Nat) /\ \A i \in 1 .. Len(q) : q[i] \in 1 .. n
  BY DEF Rising
<1>2. /\ a \in Seq(Nat) /\ Len(a) = Len(q) + 1 /\ Len(q) \in Nat
      /\ a[Len(q) + 1] = n + 1 /\ (\A i \in 1 .. Len(q) : a[i] = q[i])
      /\ \A i \in 1 .. Len(q) + 1 : i \in 1 .. Len(q) \/ i = Len(q) + 1
  BY <1>1, AppendIs
<1> HIDE DEF a
<1>0. \A y \in 1 .. n : y \in 1 .. n + 1 /\ y < n + 1
  OBVIOUS
<1>3. ASSUME NEW i \in 1 .. Len(a) PROVE a[i] \in 1 .. n + 1
  <2>1. CASE i \in 1 .. Len(q)
    BY <1>0, <1>1, <1>2, <2>1
  <2>2. CASE i = Len(q) + 1
    BY <1>2, <2>2
  <2> QED BY <1>2, <2>1, <2>2
<1>4. ASSUME NEW i \in 1 .. Len(a), NEW j \in 1 .. Len(a), i < j PROVE a[i] < a[j]
  <2>1. i \in 1 .. Len(q)
    BY <1>2, <1>4
  <2>2. CASE j \in 1 .. Len(q)
    BY <1>2, <1>4, <2>1, <2>2 DEF Rising
  <2>3. CASE j = Len(q) + 1
    <3>1. a[i] \in 1 .. n /\ a[j] = n + 1
      BY <1>1, <1>2, <2>1, <2>3
    <3> QED BY <1>0, <3>1
  <2> QED BY <1>2, <2>2, <2>3
<1>5. Rising(a, n + 1)
  BY <1>2, <1>3, <1>4 DEF Rising
<1> QED BY <1>5 DEF a

\* After n outcomes, R are shown and S named: the greedy choice so far.
Filled(o, R, S, n, left, max) ==
    /\ \A k \in 1 .. n : o[k] \in Nat \/ o[k] = -1
    /\ R \in SUBSET (1 .. n) /\ S \in SUBSET (1 .. n)
    /\ \A k \in R : o[k] \in Nat
    /\ left \in Nat /\ left + Total(o, R) = max
    /\ \A k \in 1 .. n :
          /\ k \in R <=> o[k] # -1 /\ Total(o, {d \in R : d < k}) + o[k] <= max
          /\ o[k] # -1 => k \in R \union S

\* Before the first turn of the loop.
LEMMA FilledStart ==
  ASSUME NEW o, NEW max \in Nat
  PROVE  Filled(o, {}, {}, 0, max, max)
<1>1. Total(o, {}) = 0 /\ 1 .. 0 = {}
  BY TotalEmpty
<1> QED BY <1>1 DEF Filled

\* A turn of the loop keeps the choice greedy.
LEMMA FilledStep ==
  ASSUME NEW o, NEW R, NEW S, NEW n \in Nat, NEW left, NEW max \in Nat, Filled(o, R, S, n, left, max),
         o[n + 1] \in Nat \/ o[n + 1] = -1
  PROVE  /\ o[n + 1] = -1 => Filled(o, R, S, n + 1, left, max)
         /\ o[n + 1] # -1 /\ o[n + 1] > left => Filled(o, R, S \union {n + 1}, n + 1, left, max)
         /\ o[n + 1] # -1 /\ o[n + 1] <= left =>
               Filled(o, R \union {n + 1}, S, n + 1, left - o[n + 1], max)
<1> DEFINE x == n + 1
<1>1. /\ \A k \in 1 .. n : o[k] \in Nat \/ o[k] = -1
      /\ R \in SUBSET (1 .. n) /\ S \in SUBSET (1 .. n) /\ \A k \in R : o[k] \in Nat
  BY DEF Filled
<1>2. left \in Nat /\ left + Total(o, R) = max
  BY DEF Filled
<1>3. \A k \in 1 .. n : /\ k \in R <=> o[k] # -1 /\ Total(o, {d \in R : d < k}) + o[k] <= max
                        /\ o[k] # -1 => k \in R \union S
  BY DEF Filled
<1>4. /\ x \notin 1 .. n /\ x \in 1 .. x /\ ~(x < x)
      /\ (\A k \in 1 .. n : k \in 1 .. x /\ k < x /\ ~(x < k))
      /\ \A k \in 1 .. x : k \in 1 .. n \/ k = x
  OBVIOUS
<1>5. IsFiniteSet(R)
  BY <1>1, SubsetOfInterval
<1>6. Total(o, R) \in Nat
  BY <1>1, <1>5, UnitsFinite
<1> HIDE DEF x
<1>7. {d \in R : d < x} = R
  BY <1>1, <1>4
<1>8. {d \in R \union {x} : d < x} = R
  BY <1>1, <1>4
<1>9. \A k \in 1 .. n : {d \in R \union {x} : d < k} = {d \in R : d < k}
  BY <1>1, <1>4
<1>10. o[x] \in Nat \/ o[x] = -1
  BY DEF x
<1>11. \A k \in 1 .. x : o[k] \in Nat \/ o[k] = -1
  BY <1>1, <1>4, <1>10
<1>12. ASSUME o[x] = -1 PROVE Filled(o, R, S, x, left, max)
  <2>1. R \in SUBSET (1 .. x) /\ S \in SUBSET (1 .. x) /\ x \notin R
    BY <1>1, <1>4
  <2> QED BY <1>1, <1>2, <1>3, <1>4, <1>11, <1>12, <2>1 DEF Filled
<1>13. ASSUME o[x] # -1, o[x] > left PROVE Filled(o, R, S \union {x}, x, left, max)
  <2>1. R \in SUBSET (1 .. x) /\ S \union {x} \in SUBSET (1 .. x) /\ x \notin R
    BY <1>1, <1>4
  <2>2. ~(Total(o, {d \in R : d < x}) + o[x] <= max)
    <3>1. ~(Total(o, R) + o[x] <= max)
      BY <1>2, <1>6, <1>10, <1>13
    <3> QED BY <1>7, <3>1
  <2>3. ASSUME NEW k \in 1 .. x
        PROVE  /\ k \in R <=> o[k] # -1 /\ Total(o, {d \in R : d < k}) + o[k] <= max
               /\ o[k] # -1 => k \in R \union (S \union {x})
    BY <1>3, <1>4, <2>1, <2>2
  <2> QED BY <1>1, <1>2, <1>11, <2>1, <2>3 DEF Filled
<1>14. ASSUME o[x] # -1, o[x] <= left PROVE Filled(o, R \union {x}, S, x, left - o[x], max)
  <2>1. R \union {x} \in SUBSET (1 .. x) /\ S \in SUBSET (1 .. x) /\ x \notin R
    BY <1>1, <1>4
  <2>2. o[x] \in Nat
    BY <1>10, <1>14
  <2>3. Total(o, R \union {x}) = Total(o, R) + o[x]
    BY <1>1, <1>5, <2>1, <2>2, TotalAdd
  <2>4. left - o[x] \in Nat /\ (left - o[x]) + Total(o, R \union {x}) = max
    BY <1>2, <1>6, <1>14, <2>2, <2>3
  <2>5. Total(o, {d \in R \union {x} : d < x}) + o[x] <= max
    <3>1. Total(o, R) + o[x] <= max
      BY <1>2, <1>6, <1>14, <2>2
    <3> QED BY <1>8, <3>1
  <2>6. ASSUME NEW k \in 1 .. x
        PROVE  /\ k \in R \union {x} <=>
                     o[k] # -1 /\ Total(o, {d \in R \union {x} : d < k}) + o[k] <= max
               /\ o[k] # -1 => k \in (R \union {x}) \union S
    <3>1. CASE k \in 1 .. n
      <4>1. {d \in R \union {x} : d < k} = {d \in R : d < k} /\ k # x
        BY <1>4, <1>9, <3>1
      <4>2. k \in R <=> o[k] # -1 /\ Total(o, {d \in R : d < k}) + o[k] <= max
        BY <1>3, <3>1
      <4> QED BY <1>3, <3>1, <4>1, <4>2
    <3>2. CASE k = x
      BY <1>14, <2>5, <3>2
    <3> QED BY <1>4, <3>1, <3>2
  <2>7. \A k \in R \union {x} : o[k] \in Nat
    BY <1>1, <2>2
  <2> QED BY <1>11, <2>1, <2>4, <2>6, <2>7 DEF Filled
<1> QED BY <1>12, <1>13, <1>14 DEF x

\* Every hit has a target.
Covered(C, T) == \A i \in 1 .. Len(C) : \E k \in 1 .. Len(T) : T[k] = preferredHitURI(C[i])

\* The first m entries of u are names; those of K, picked, are a list of names with each of them.
AreNames(u, m) == \A k \in 1 .. m : u[k] \in STRING

Picked(u, K, m) ==
  /\ Pick(u, K) \in Seq(STRING) /\ Len(Pick(u, K)) = Cardinality(K)
  /\ Cardinality(K) \in Nat /\ Cardinality(K) <= m
  /\ \A k \in K : \E i \in 1 .. Cardinality(K) : Pick(u, K)[i] = u[k]

\* Some of the names are names.
LEMMA PickStrings ==
  ASSUME NEW m \in Nat, NEW u, AreNames(u, m), NEW K \in SUBSET (1 .. m)
  PROVE  Picked(u, K, m)
<1> DEFINE c == Cardinality(K)
           p == [i \in 1 .. c |-> Nth(K, i)]
<1>1. Lists(p, c, K) /\ Pick(u, K) = [i \in 1 .. c |-> u[p[i]]]
  <2>1. Lists(p, c, K)
    BY NthLists
  <2>2. Pick(u, K) = [i \in 1 .. c |-> u[p[i]]]
    BY DEF Pick
  <2> QED BY <2>1, <2>2
<1> HIDE DEF p
<1>2. c \in Nat /\ c <= m
  BY SubsetOfInterval
<1>3. (\A i \in 1 .. c : p[i] \in 1 .. m) /\ \A k \in K : \E i \in 1 .. c : p[i] = k
  BY <1>1 DEF Lists
<1> HIDE DEF c
<1>4. \A i \in 1 .. c : u[p[i]] \in STRING
  BY <1>3 DEF AreNames
<1>5. Pick(u, K) \in Seq(STRING) /\ Len(Pick(u, K)) = c /\ \A i \in 1 .. c : Pick(u, K)[i] = u[p[i]]
  BY <1>1, <1>2, <1>4
<1> QED BY <1>2, <1>3, <1>5 DEF c, Picked

\* What Select chooses: some of the hits, each of them when it is as many.
LEMMA SelectIs ==
  ASSUME NEW C \in Seq(Hit), NEW n \in Nat
  PROVE  LET uris == [k \in 1 .. Least(n, Len(C)) |-> preferredHitURI(C[k])]
             T == Pick(uris, {k \in DOMAIN uris : uris[k] # NoName})
         IN  T \in Seq(STRING) /\ Len(T) <= Len(C) /\ (Len(T) = Len(C) => Covered(C, T))
<1> DEFINE m == Least(n, Len(C))
           uris == [k \in 1 .. m |-> preferredHitURI(C[k])]
           K == {k \in DOMAIN uris : uris[k] # NoName}
           T == Pick(uris, K)
<1>1. Len(C) \in Nat /\ m \in Nat /\ m <= Len(C) /\ \A k \in 1 .. Len(C) : C[k] \in Hit
  BY HitFacts, LeastIs
<1> HIDE DEF m
<1>2. \A k \in 1 .. m : k \in 1 .. Len(C)
  BY <1>1, Segments
<1>3. DOMAIN uris = 1 .. m /\ \A k \in 1 .. m : uris[k] = preferredHitURI(C[k])
  OBVIOUS
<1>4. \A h \in Hit : preferredHitURI(h) \in STRING
  BY DEF preferredHitURI, Hit
<1> HIDE DEF uris
<1>5. \A k \in 1 .. m : uris[k] \in STRING
  BY <1>1, <1>2, <1>3, <1>4
<1>6. K \in SUBSET (1 .. m)
  BY <1>3
<1> HIDE DEF K
<1> DEFINE c == Cardinality(K)
<1>7. /\ T \in Seq(STRING) /\ Len(T) = c /\ c \in Nat /\ c <= m
      /\ \A k \in K : \E i \in 1 .. c : T[i] = uris[k]
  <2>1. m \in Nat
    BY <1>1
  <2>2. AreNames(uris, m)
    BY <1>5 DEF AreNames
  <2>3. Picked(uris, K, m)
    BY <1>6, <2>1, <2>2, PickStrings
  <2> QED BY <2>3 DEF Picked
<1>8. IsFiniteSet(1 .. m) /\ Cardinality(1 .. m) = m
  BY <1>1, IntervalSize
<1> HIDE DEF c, T
<1>9. ASSUME Len(T) = Len(C) PROVE Covered(C, T)
  <2>1. c = m /\ m = Len(C)
    BY <1>1, <1>7, <1>9
  <2> DEFINE D == 1 .. m
  <2>2. \A k \in D : k \in K
    <3> SUFFICES ASSUME NEW k \in D, k \notin K PROVE FALSE
      OBVIOUS
    <3>1. IsFiniteSet(D) /\ Cardinality(D) = m /\ K \in SUBSET D
      BY <1>6, <1>8
    <3> HIDE DEF D
    <3>2. Cardinality(K) < Cardinality(D)
      BY <3>1, FewerMembers
    <3> QED BY <1>1, <2>1, <3>1, <3>2 DEF c
  <2>3. ASSUME NEW i \in 1 .. Len(C) PROVE \E k \in 1 .. Len(T) : T[k] = preferredHitURI(C[i])
    <3>1. i \in K /\ uris[i] = preferredHitURI(C[i])
      BY <1>3, <2>1, <2>2
    <3> QED BY <1>7, <3>1
  <2> QED BY <2>3 DEF Covered
<1>10. T \in Seq(STRING) /\ Len(T) <= Len(C) /\ (Len(T) = Len(C) => Covered(C, T))
  BY <1>1, <1>7, <1>9
<1> QED BY <1>10 DEF T, K, uris, m

\* Every hit is shown as a document or listed.
Listed(C, T, ds, other0) ==
    \A h \in Range(C) : (\E k \in Range(ds) : T[k] = preferredHitURI(h)) \/ h \in Range(other0)

\* Every hit is shown as a document or listed.
LEMMA AssembleLists ==
  ASSUME NEW C \in Seq(Hit), NEW T \in Seq(STRING), NEW ds, Rising(ds, Len(T)),
         Len(T) <= Len(C), Len(T) = Len(C) => Covered(C, T), NEW rest,
         rest = LET shown == {T[k] : k \in Range(ds)}
                IN  IF Len(C) > Len(ds)
                    THEN Pick(C, {k \in DOMAIN C : preferredHitURI(C[k]) \notin shown}) ELSE << >>
  PROVE  rest \in Seq(Hit) /\ Listed(C, T, ds, rest)
<1> DEFINE shown == {T[k] : k \in Range(ds)}
           K == {k \in DOMAIN C : preferredHitURI(C[k]) \notin shown}
<1>1. Len(C) \in Nat /\ DOMAIN C = 1 .. Len(C) /\ Len(T) \in Nat
  BY HitFacts
<1>2. /\ Len(ds) \in Nat /\ DOMAIN ds = 1 .. Len(ds) /\ ds \in [1 .. Len(ds) -> 1 .. Len(T)]
      /\ IsInjective(ds)
  BY <1>1, RisingFacts
<1>3. CASE Len(C) > Len(ds)
  <2>1. K \in SUBSET (1 .. Len(C)) /\ rest = Pick(C, K)
    BY <1>1, <1>3
  <2>2. \A k \in DOMAIN C : k \notin K => \E d \in Range(ds) : T[d] = preferredHitURI(C[k])
    OBVIOUS
  <2> HIDE DEF K, shown
  <2>3. rest \in Seq(Hit) /\ \E p : Places(p, rest, C) /\ Lists(p, Cardinality(K), K)
    BY <2>1, PickPlaces
  <2>4. PICK p : Places(p, rest, C) /\ Lists(p, Cardinality(K), K)
    BY <2>3
  <2>5. Len(rest) = Cardinality(K) /\ DOMAIN rest = 1 .. Len(rest)
    BY <2>1, <2>3, PickPlaces, HitFacts
  <2>6. ASSUME NEW h \in Range(C)
        PROVE  (\E k \in Range(ds) : T[k] = preferredHitURI(h)) \/ h \in Range(rest)
    <3>1. PICK k \in DOMAIN C : C[k] = h
      BY DEF Range
    <3>2. CASE k \in K
      <4>1. PICK i \in 1 .. Len(rest) : p[i] = k
        BY <2>4, <2>5, <3>2 DEF Lists
      <4>2. rest[i] = h
        BY <2>4, <3>1, <4>1 DEF Places
      <4> QED BY <2>5, <4>1, <4>2 DEF Range
    <3>3. CASE k \notin K
      BY <2>2, <3>1, <3>3
    <3> QED BY <3>2, <3>3
  <2> QED BY <2>3, <2>6 DEF Listed
<1>4. CASE ~(Len(C) > Len(ds))
  <2> DEFINE D == 1 .. Len(ds)
             E == 1 .. Len(T)
  <2>1. /\ IsFiniteSet(D) /\ Cardinality(D) = Len(ds)
        /\ IsFiniteSet(E) /\ Cardinality(E) = Len(T)
    BY <1>1, <1>2, IntervalSize
  <2>2. ds \in [D -> E] /\ \A i, j \in D : ds[i] = ds[j] => i = j
    BY <1>2 DEF IsInjective
  <2>3. Cardinality(D) <= Cardinality(E)
    <3> HIDE DEF D, E
    <3>1. ds \in Injection(D, E)
      BY <2>2 DEF Injection, IsInjective
    <3> QED BY <2>1, <3>1, FS_Injection
  <2>4. Len(ds) = Len(T) /\ Len(T) = Len(C)
    BY <1>1, <1>2, <1>4, <2>1, <2>3
  <2>5. \A k \in 1 .. Len(T) : \E i \in 1 .. Len(T) : ds[i] = k
    <3>1. D = E
      BY <2>4
    <3>2. ds \in [E -> E] /\ \A i, j \in E : ds[i] = ds[j] => i = j
      BY <2>2, <3>1
    <3> QED BY <1>1, <3>2, PlacesOnto
  <2>6. \A k \in 1 .. Len(T) : k \in Range(ds)
    BY <1>2, <2>4, <2>5 DEF Range
  <2>7. Covered(C, T) /\ rest = << >>
    BY <1>4, <2>4
  <2>8. ASSUME NEW h \in Range(C) PROVE \E k \in Range(ds) : T[k] = preferredHitURI(h)
    <3>1. PICK i \in 1 .. Len(C) : C[i] = h
      BY <1>1 DEF Range
    <3>2. PICK k \in 1 .. Len(T) : T[k] = preferredHitURI(h)
      BY <2>7, <3>1 DEF Covered
    <3> QED BY <2>6, <3>2
  <2>9. Listed(C, T, ds, rest)
    BY <2>8 DEF Listed
  <2>10. << >> \in Seq(Hit)
    OBVIOUS
  <2> QED BY <2>7, <2>9, <2>10
<1> QED BY <1>3, <1>4

Idle == /\ targets = << >> /\ outcomes = << >> /\ done = << >> /\ next = 1
        /\ docs = << >> /\ truncated = << >> /\ other = << >>

ReadTypes ==
    /\ targets \in Seq(STRING) /\ outcomes \in [1 .. Len(targets) -> Sizes \union {-1, None}]
    /\ next \in 1 .. Len(targets) + 1 /\ remaining \in Nat
    /\ other \in Seq(Hit) /\ capped \in BOOLEAN /\ degraded \in BOOLEAN

\* A read ends once, and the loop over the outcomes begins after the last.
Reads ==
    /\ done \in Seq(Nat)
    /\ \A i \in 1 .. Len(done) : done[i] \in 1 .. Len(targets) /\ outcomes[done[i]] # None
    /\ \A i, j \in 1 .. Len(done) : done[i] = done[j] => i = j
    /\ next > 1 => \A k \in 1 .. Len(targets) : outcomes[k] # None

Choices ==
    /\ Rising(docs, next - 1) /\ Rising(truncated, next - 1)
    /\ pc \in {"get", "done"} /\ req.kind = "get" =>
          Filled(outcomes, Range(docs), Range(truncated), next - 1, remaining, MaxGetBytes)

Progress ==
    /\ pc \in {"search", "select", "failed"} \/ req.kind # "get" => Idle
    /\ pc \in {"select", "get"} => req.kind = "get"
    /\ pc = "get" => /\ Len(targets) <= Len(combined)
                     /\ Len(targets) = Len(combined) => Covered(combined, targets)
    /\ pc = "done" /\ req.kind = "get" => /\ next = Len(targets) + 1
                                          /\ Listed(combined, targets, docs, other)
                                          /\ truncated # << >> => degraded

GetInv == ReadTypes /\ Reads /\ Choices /\ Progress

\* The empty lists of the start.
LEMMA EmptyFacts ==
  /\ << >> \in Seq(STRING) /\ << >> \in Seq(Hit) /\ << >> \in Seq(Nat)
  /\ Len(<< >>) = 0 /\ 1 .. 0 = {} /\ Range(<< >>) = {}
  /\ \A n : Rising(<< >>, n)
<1>1. /\ << >> \in Seq(STRING) /\ << >> \in Seq(Hit) /\ << >> \in Seq(Nat)
      /\ Len(<< >>) = 0 /\ 1 .. 0 = {} /\ DOMAIN << >> = {}
  OBVIOUS
<1>2. Range(<< >>) = {}
  BY <1>1 DEF Range
<1> QED BY <1>1, <1>2, RisingEmpty

\* Before the reads there is nothing to say of them.
LEMMA IdleReads ==
  ASSUME Idle
  PROVE  Reads /\ Rising(docs, next - 1) /\ Rising(truncated, next - 1)
BY EmptyFacts DEF Idle, Reads

\* The invariant of the reads at the start.
LEMMA GetInit ==
  ASSUME Init
  PROVE  GetInv
<1>1. Idle /\ pc = "search" /\ capped = FALSE /\ degraded = FALSE /\ remaining = 0
  BY DEF Init, Idle
<1>2. << >> \in [1 .. 0 -> Sizes \union {-1, None}]
  BY EmptyFacts
<1>3. ReadTypes
  <2>1. targets = << >> /\ outcomes = << >> /\ next = 1 /\ other = << >>
    BY <1>1 DEF Idle
  <2>2. Len(targets) = 0 /\ targets \in Seq(STRING) /\ other \in Seq(Hit)
    BY <2>1, EmptyFacts
  <2>3. outcomes \in [1 .. Len(targets) -> Sizes \union {-1, None}]
    BY <1>2, <2>1, <2>2
  <2>4. next \in 1 .. Len(targets) + 1 /\ remaining \in Nat
    BY <1>1, <2>1, <2>2
  <2>5. capped \in BOOLEAN /\ degraded \in BOOLEAN
    BY <1>1
  <2> QED BY <2>2, <2>3, <2>4, <2>5 DEF ReadTypes
<1>4. Reads /\ Choices
  BY <1>1, IdleReads DEF Choices
<1>5. Progress
  BY <1>1 DEF Progress
<1> QED BY <1>3, <1>4, <1>5 DEF GetInv

\* The searches come before the reads, and then the hits stay as they are.
LEMMA ReadsAreLeft ==
  ASSUME GetInv, req' = req, UNCHANGED <<reading, response, capped>>,
         \/ pc = "search" /\ pc' \in {"search", "failed"}
         \/ pc' = pc /\ combined' = combined
  PROVE  GetInv'
<1>1. /\ targets' = targets /\ outcomes' = outcomes /\ done' = done /\ next' = next
      /\ remaining' = remaining /\ docs' = docs /\ truncated' = truncated /\ other' = other
      /\ degraded' = degraded /\ capped' = capped
  BY DEF reading, response
<1>2. ReadTypes /\ Reads /\ Choices /\ Progress
  BY DEF GetInv
<1>3. ReadTypes'
  BY <1>1, <1>2 DEF ReadTypes
<1>4. Reads'
  BY <1>1, <1>2 DEF Reads
<1>5. MaxGetBytes' = MaxGetBytes
  BY DEF MaxGetBytes
<1>6. Choices'
  BY <1>1, <1>2, <1>5 DEF Choices
<1>7. Idle' <=> Idle
  BY <1>1 DEF Idle
<1>8. Progress'
  BY <1>1, <1>2, <1>7 DEF Progress
<1> QED BY <1>3, <1>4, <1>6, <1>8 DEF GetInv

\* The hits are complete, and no read has begun.
LEMMA AggregateReads ==
  ASSUME GetInv, Aggregate
  PROVE  GetInv'
<1>1. /\ targets' = targets /\ outcomes' = outcomes /\ done' = done /\ next' = next
      /\ remaining' = remaining /\ docs' = docs /\ truncated' = truncated /\ other' = other
      /\ req' = req /\ pc = "search"
      /\ pc' = IF req.kind = "get" THEN "select" ELSE "done"
  BY DEF Aggregate, reading
<1>2. capped' \in BOOLEAN /\ degraded' \in BOOLEAN
  <2>1. PICK t \in DedupSortLimit(combined, CoreN) :
           /\ capped' = (FilesAll /\ FilesAllMaxHits > 0 /\ Len(t) > FilesAllMaxHits)
           /\ degraded' = (FilesAll /\ FilesAllMaxHits > 0 /\ Len(t) > FilesAllMaxHits)
    BY DEF Aggregate
  <2> QED BY <2>1, Zenon
<1>3. ReadTypes /\ Reads /\ Choices /\ Idle
  BY <1>1 DEF GetInv, Progress
<1>4. ReadTypes'
  BY <1>1, <1>2, <1>3 DEF ReadTypes
<1>5. Reads'
  BY <1>1, <1>3 DEF Reads
<1>6. Choices'
  BY <1>1, <1>3 DEF Choices
<1>7. Idle'
  BY <1>1, <1>3 DEF Idle
<1>8. Progress'
  BY <1>1, <1>7 DEF Progress
<1> QED BY <1>4, <1>5, <1>6, <1>8 DEF GetInv

\* The documents to read are chosen.
LEMMA SelectReads ==
  ASSUME SearchInv, GetInv, Select
  PROVE  GetInv'
<1> DEFINE uris == [k \in 1 .. Least(MaxGetDocs, Len(combined)) |-> preferredHitURI(combined[k])]
<1>1. /\ pc = "select" /\ pc' = "get" /\ req' = req /\ combined' = combined /\ done' = done /\ next' = next
      /\ docs' = docs /\ truncated' = truncated /\ other' = other /\ degraded' = degraded /\ capped' = capped
      /\ remaining' = MaxGetBytes
  BY DEF Select, response
<1>2. targets' = Pick(uris, {k \in DOMAIN uris : uris[k] # NoName})
  BY DEF Select
<1>3. outcomes' = [k \in DOMAIN targets' |-> None]
  BY DEF Select
<1>4. combined \in Seq(Hit) /\ MaxGetDocs \in Nat /\ MaxGetBytes \in Nat
  BY RequestFacts DEF SearchInv, SearchTypes
<1>5. /\ targets' \in Seq(STRING) /\ Len(targets') <= Len(combined)
      /\ Len(targets') = Len(combined) => Covered(combined, targets')
  BY <1>2, <1>4, SelectIs
<1> HIDE DEF uris
<1>6. Idle /\ req.kind = "get" /\ ReadTypes
  BY <1>1 DEF GetInv, Progress
<1>7. next = 1 /\ docs = << >> /\ truncated = << >> /\ done = << >>
  BY <1>6 DEF Idle
<1>8. Len(targets') \in Nat /\ DOMAIN targets' = 1 .. Len(targets')
  BY <1>5
<1>9. outcomes' \in [1 .. Len(targets') -> Sizes \union {-1, None}]
  BY <1>3, <1>8
<1>10. ReadTypes'
  <2>1. next' \in 1 .. Len(targets') + 1
    BY <1>1, <1>7, <1>8
  <2> QED BY <1>1, <1>4, <1>5, <1>6, <1>9, <2>1 DEF ReadTypes
<1>11. Reads'
  BY <1>1, <1>7, EmptyFacts DEF Reads
<1>12. Choices'
  <2>1. MaxGetBytes' = MaxGetBytes
    BY <1>1 DEF MaxGetBytes
  <2>2. Filled(outcomes', {}, {}, 0, MaxGetBytes, MaxGetBytes)
    BY <1>4, FilledStart
  <2>3. next' - 1 = 0 /\ docs' = << >> /\ truncated' = << >>
    BY <1>1, <1>7
  <2>4. Range(docs') = {} /\ Range(truncated') = {} /\ Rising(docs', 0) /\ Rising(truncated', 0)
    BY <2>3, EmptyFacts
  <2> QED BY <1>1, <2>1, <2>2, <2>3, <2>4 DEF Choices
<1>13. Progress'
  BY <1>1, <1>5, <1>6 DEF Progress
<1> QED BY <1>10, <1>11, <1>12, <1>13 DEF GetInv

\* A read ends.
LEMMA GetReads ==
  ASSUME GetInv, NEW k \in 1 .. Len(targets), Get(k)
  PROVE  GetInv'
<1>1. /\ pc = "get" /\ pc' = pc /\ req' = req /\ combined' = combined /\ targets' = targets
      /\ next' = next /\ remaining' = remaining /\ capped' = capped
      /\ docs' = docs /\ truncated' = truncated /\ other' = other /\ degraded' = degraded
      /\ outcomes[k] = None /\ done' = Append(done, k)
  BY DEF Get, response
<1>2. PICK size \in Sizes \union {-1} : outcomes' = [outcomes EXCEPT ![k] = size]
  BY DEF Get
<1>3. ReadTypes /\ Reads /\ Choices /\ Progress
  BY DEF GetInv
<1>4. /\ outcomes \in [1 .. Len(targets) -> Sizes \union {-1, None}] /\ Len(targets) \in Nat
      /\ next \in 1 .. Len(targets) + 1
  BY <1>3 DEF ReadTypes
<1>5. size \in Int /\ size # None
  BY Settings
<1>6. /\ outcomes' \in [1 .. Len(targets) -> Sizes \union {-1, None}]
      /\ outcomes'[k] = size
      /\ \A l \in 1 .. Len(targets) : l # k => outcomes'[l] = outcomes[l]
  BY <1>2, <1>4
<1>7. next = 1
  BY <1>1, <1>3, <1>4 DEF Reads
<1>8. ReadTypes'
  BY <1>1, <1>3, <1>6 DEF ReadTypes
<1>9. Reads'
  <2> DEFINE q == Append(done, k)
             m == Len(done)
  <2>1. /\ done \in Seq(Nat) /\ k \in Nat
        /\ \A i \in 1 .. m : done[i] \in 1 .. Len(targets) /\ outcomes[done[i]] # None
        /\ \A i, j \in 1 .. m : done[i] = done[j] => i = j
    BY <1>3 DEF Reads
  <2>2. /\ q \in Seq(Nat) /\ Len(q) = m + 1 /\ m \in Nat /\ q[m + 1] = k
        /\ \A i \in 1 .. m : q[i] = done[i]
        /\ \A i \in 1 .. m + 1 : i \in 1 .. m \/ i = m + 1
    BY <2>1, AppendIs
  <2> HIDE DEF q, m
  <2>3. \A i \in 1 .. m : q[i] # k
    BY <1>1, <2>1, <2>2
  <2>4. ASSUME NEW i \in 1 .. Len(q) PROVE q[i] \in 1 .. Len(targets) /\ outcomes'[q[i]] # None
    <3>1. CASE i \in 1 .. m
      BY <1>6, <2>1, <2>2, <2>3, <3>1
    <3>2. CASE i = m + 1
      BY <1>5, <1>6, <2>2, <3>2
    <3> QED BY <2>2, <3>1, <3>2
  <2>5. \A i, j \in 1 .. Len(q) : q[i] = q[j] => i = j
    BY <2>1, <2>2, <2>3
  <2>6. done' = q /\ ~(next' > 1)
    BY <1>1, <1>7 DEF q
  <2> QED BY <1>1, <2>2, <2>4, <2>5, <2>6 DEF Reads
<1>10. Choices'
  <2>1. MaxGetBytes' = MaxGetBytes
    BY <1>1 DEF MaxGetBytes
  <2>2. Rising(docs, 0) /\ Rising(truncated, 0)
    BY <1>3, <1>7 DEF Choices
  <2>3. Range(docs) = {} /\ Range(truncated) = {}
    <3>1. Range(docs) \in SUBSET (1 .. 0) /\ Range(truncated) \in SUBSET (1 .. 0)
      BY <2>2, RisingFacts
    <3> QED BY <3>1
  <2>4. req.kind = "get"
    BY <1>1, <1>3 DEF Progress
  <2>5. Filled(outcomes, {}, {}, 0, remaining, MaxGetBytes)
    <3>1. Filled(outcomes, Range(docs), Range(truncated), next - 1, remaining, MaxGetBytes)
      BY <1>1, <1>3, <2>4 DEF Choices
    <3> QED BY <1>7, <2>3, <3>1
  <2>6. remaining \in Nat /\ remaining + Total(outcomes, {}) = MaxGetBytes
    BY <2>5 DEF Filled
  <2>7. remaining = MaxGetBytes
    BY <2>6, TotalEmpty
  <2>8. Filled(outcomes', {}, {}, 0, remaining, MaxGetBytes)
    BY <2>6, <2>7, FilledStart
  <2>9. next' - 1 = 0 /\ Range(docs') = {} /\ Range(truncated') = {}
    BY <1>1, <1>7, <2>3
  <2> QED BY <1>1, <2>1, <2>2, <2>8, <2>9 DEF Choices
<1>11. Progress'
  BY <1>1, <1>3 DEF Progress
<1> QED BY <1>8, <1>9, <1>10, <1>11 DEF GetInv

\* The outcome of a read is taken.
LEMMA FillReads ==
  ASSUME SearchInv, GetInv, Fill
  PROVE  GetInv'
<1>1. /\ pc = "get" /\ pc' = pc /\ req' = req /\ combined' = combined /\ targets' = targets
      /\ outcomes' = outcomes /\ done' = done /\ next' = next + 1 /\ next <= Len(targets)
      /\ other' = other /\ degraded' = degraded /\ capped' = capped
      /\ \A k \in DOMAIN targets : outcomes[k] # None
  BY DEF Fill, Take, AllRead
<1>2. \/ outcomes[next] = -1 /\ docs' = docs /\ truncated' = truncated /\ remaining' = remaining
      \/ /\ outcomes[next] # -1 /\ remaining >= 0 /\ outcomes[next] > remaining
         /\ truncated' = Append(truncated, next) /\ docs' = docs /\ remaining' = remaining
      \/ /\ outcomes[next] # -1 /\ (remaining < 0 \/ outcomes[next] <= remaining)
         /\ docs' = Append(docs, next) /\ remaining' = remaining - outcomes[next]
         /\ truncated' = truncated
  BY DEF Fill, Take
<1>3. ReadTypes /\ Reads /\ Choices /\ Progress
  BY DEF GetInv
<1>4. /\ outcomes \in [1 .. Len(targets) -> Sizes \union {-1, None}] /\ Len(targets) \in Nat
      /\ DOMAIN targets = 1 .. Len(targets) /\ next \in 1 .. Len(targets) + 1 /\ remaining \in Nat
  BY <1>3 DEF ReadTypes
<1>5. next \in 1 .. Len(targets) /\ next + 1 \in 1 .. Len(targets) + 1
  BY <1>1, <1>4
<1>6. outcomes[next] \in Nat \/ outcomes[next] = -1
  BY <1>1, <1>4, <1>5, Settings
<1> DEFINE n == next - 1
<1>7. n \in Nat /\ next = n + 1 /\ next' - 1 = n + 1
  BY <1>1, <1>5
<1> HIDE DEF n
<1>8. req.kind = "get" /\ MaxGetBytes \in Nat /\ MaxGetBytes' = MaxGetBytes
  <2>1. req.kind = "get"
    BY <1>1, <1>3 DEF Progress
  <2>2. MaxGetBytes \in Nat
    BY RequestFacts DEF SearchInv, SearchTypes
  <2>3. MaxGetBytes' = MaxGetBytes
    BY <1>1 DEF MaxGetBytes
  <2> QED BY <2>1, <2>2, <2>3
<1>9. Rising(docs, n) /\ Rising(truncated, n)
  BY <1>3 DEF Choices, n
<1>10. Filled(outcomes, Range(docs), Range(truncated), n, remaining, MaxGetBytes)
  BY <1>1, <1>3, <1>8 DEF Choices, n
<1>11. docs \in Seq(Nat) /\ truncated \in Seq(Nat)
  BY <1>9 DEF Rising
<1>12. /\ Rising(docs', n + 1) /\ Rising(truncated', n + 1)
       /\ Filled(outcomes, Range(docs'), Range(truncated'), n + 1, remaining', MaxGetBytes)
  <2>1. /\ outcomes[n + 1] = -1 => Filled(outcomes, Range(docs), Range(truncated), n + 1, remaining, MaxGetBytes)
        /\ outcomes[n + 1] # -1 /\ outcomes[n + 1] > remaining =>
              Filled(outcomes, Range(docs), Range(truncated) \union {n + 1}, n + 1, remaining, MaxGetBytes)
        /\ outcomes[n + 1] # -1 /\ outcomes[n + 1] <= remaining =>
              Filled(outcomes, Range(docs) \union {n + 1}, Range(truncated), n + 1,
                     remaining - outcomes[n + 1], MaxGetBytes)
    BY <1>6, <1>7, <1>8, <1>10, FilledStep
  <2>2. /\ Range(Append(docs, n + 1)) = Range(docs) \union {n + 1}
        /\ Range(Append(truncated, n + 1)) = Range(truncated) \union {n + 1}
    BY <1>7, <1>11, AppendIs
  <2>3. /\ Rising(docs, n + 1) /\ Rising(truncated, n + 1)
        /\ Rising(Append(docs, n + 1), n + 1) /\ Rising(Append(truncated, n + 1), n + 1)
    BY <1>7, <1>9, RisingFacts, RisingAppend
  <2>4. CASE outcomes[next] = -1 /\ docs' = docs /\ truncated' = truncated /\ remaining' = remaining
    BY <1>7, <2>1, <2>3, <2>4
  <2>5. CASE /\ outcomes[next] # -1 /\ remaining >= 0 /\ outcomes[next] > remaining
             /\ truncated' = Append(truncated, next) /\ docs' = docs /\ remaining' = remaining
    BY <1>7, <2>1, <2>2, <2>3, <2>5
  <2>6. CASE /\ outcomes[next] # -1 /\ (remaining < 0 \/ outcomes[next] <= remaining)
             /\ docs' = Append(docs, next) /\ remaining' = remaining - outcomes[next]
             /\ truncated' = truncated
    <3>1. outcomes[next] <= remaining
      BY <1>4, <2>6
    <3> QED BY <1>7, <2>1, <2>2, <2>3, <2>6, <3>1
  <2> QED BY <1>2, <2>4, <2>5, <2>6
<1>13. ReadTypes'
  <2>1. remaining' \in Nat
    BY <1>12 DEF Filled
  <2> QED BY <1>1, <1>3, <1>5, <2>1 DEF ReadTypes
<1>14. Reads'
  BY <1>1, <1>3, <1>4 DEF Reads
<1>15. Choices'
  BY <1>1, <1>7, <1>8, <1>12 DEF Choices
<1>16. Progress'
  BY <1>1, <1>3 DEF Progress
<1> QED BY <1>13, <1>14, <1>15, <1>16 DEF GetInv

\* The response is put together.
LEMMA AssembleReads ==
  ASSUME SearchInv, GetInv, Assemble
  PROVE  GetInv'
<1>1. /\ pc = "get" /\ pc' = "done" /\ req' = req /\ combined' = combined /\ targets' = targets
      /\ outcomes' = outcomes /\ done' = done /\ next' = next /\ next > Len(targets)
      /\ remaining' = remaining /\ docs' = docs /\ truncated' = truncated /\ capped' = capped
      /\ degraded' = (degraded \/ truncated # << >>)
  BY DEF Assemble, AllRead, reading
<1>2. other' = LET shown == {targets[k] : k \in Range(docs)}
               IN  IF Len(combined) > Len(docs)
                   THEN Pick(combined, {k \in DOMAIN combined :
                                          preferredHitURI(combined[k]) \notin shown})
                   ELSE << >>
  BY DEF Assemble
<1>3. ReadTypes /\ Reads /\ Choices /\ Progress
  BY DEF GetInv
<1>4. /\ targets \in Seq(STRING) /\ Len(targets) \in Nat /\ next \in 1 .. Len(targets) + 1
      /\ degraded \in BOOLEAN
  BY <1>3 DEF ReadTypes
<1>5. next = Len(targets) + 1 /\ next - 1 = Len(targets)
  BY <1>1, <1>4
<1>6. /\ combined \in Seq(Hit) /\ Len(targets) <= Len(combined)
      /\ Len(targets) = Len(combined) => Covered(combined, targets)
  BY <1>1, <1>3 DEF Progress, SearchInv, SearchTypes
<1>7. Rising(docs, Len(targets))
  BY <1>3, <1>5 DEF Choices
<1>8. other' \in Seq(Hit) /\ Listed(combined, targets, docs, other')
  BY <1>2, <1>4, <1>6, <1>7, AssembleLists
<1>9. degraded' \in BOOLEAN /\ (truncated # << >> => degraded')
  <2>1. degraded' = (degraded \/ truncated # << >>)
    BY <1>1
  <2> QED BY <1>4, <2>1, Zenon
<1>10. ReadTypes'
  BY <1>1, <1>3, <1>8, <1>9 DEF ReadTypes
<1>11. Reads'
  BY <1>1, <1>3 DEF Reads
<1>12. Choices'
  <2>1. MaxGetBytes' = MaxGetBytes
    BY <1>1 DEF MaxGetBytes
  <2> QED BY <1>1, <1>3, <2>1 DEF Choices
<1>13. Progress'
  <2>1. req.kind = "get"
    BY <1>1, <1>3 DEF Progress
  <2> QED BY <1>1, <1>5, <1>8, <1>9, <2>1 DEF Progress
<1> QED BY <1>10, <1>11, <1>12, <1>13 DEF GetInv

\* Every step keeps the invariant of the reads.
LEMMA GetStep ==
  ASSUME SearchInv, GetInv, [Next]_vars
  PROVE  GetInv'
<1>1. ASSUME NEW c \in Collections, SearchNamed(c) PROVE GetInv'
  BY <1>1, ReadsAreLeft DEF SearchNamed, Turn
<1>2. ASSUME NEW c \in Collections, SearchTier(c) PROVE GetInv'
  BY <1>2, ReadsAreLeft DEF SearchTier, Turn
<1>3. ASSUME NEW c \in Collections, SearchFails(c) PROVE GetInv'
  BY <1>3, ReadsAreLeft DEF SearchFails, Turn
<1>4. CASE FinishTier
  BY <1>4, ReadsAreLeft DEF FinishTier
<1>5. CASE Aggregate
  BY <1>5, AggregateReads
<1>6. CASE AllFailed
  BY <1>6, ReadsAreLeft DEF AllFailed
<1>7. CASE Select
  BY <1>7, SelectReads
<1>8. CASE Fill
  BY <1>8, FillReads
<1>9. CASE Assemble
  BY <1>9, AssembleReads
<1>10. ASSUME NEW k \in 1 .. Len(targets), Get(k) PROVE GetInv'
  BY <1>10, GetReads
<1>11. CASE UNCHANGED vars
  BY <1>11, ReadsAreLeft DEF vars
<1> QED BY <1>1, <1>2, <1>3, <1>4, <1>5, <1>6, <1>7, <1>8, <1>9, <1>10, <1>11 DEF Next

\* The reads keep the invariant: after any number of outcomes, taken by
\* position, the documents are the greedy choice among those outcomes and the
\* bytes that remain are the budget less their sizes.
THEOREM GetInvariant == Spec => []GetInv
<1>1. Init => GetInv
  BY GetInit
<1>2. SearchInv /\ GetInv /\ [Next]_vars => GetInv'
  BY GetStep
<1> QED BY <1>1, <1>2, SearchInvariant, PTL DEF Spec

\* The type invariant: each target, that is each of the first hits with a name, is
\* read once and shown or named at most once, whatever the order in which the reads
\* end.  Two targets may be the same document.
THEOREM TypeCorrect == Spec => []TypeOK
<1>1. SearchInv /\ GetInv => TypeOK
  <2> SUFFICES ASSUME SearchInv, GetInv PROVE TypeOK
    OBVIOUS
  <2>1. SearchTypes /\ ReadTypes /\ Reads /\ Rising(docs, next - 1) /\ Rising(truncated, next - 1)
    BY DEF SearchInv, GetInv, Choices
  <2>2. Len(targets) \in Nat /\ DOMAIN targets = 1 .. Len(targets)
    BY <2>1 DEF ReadTypes
  <2>3. next - 1 \in Nat /\ \A k \in 1 .. next - 1 : k \in 1 .. Len(targets)
    BY <2>1, <2>2 DEF ReadTypes
  <2>4. ASSUME NEW q, Rising(q, next - 1) PROVE q \in Seq(DOMAIN targets) /\ IsInjective(q)
    <3>1. q \in Seq(1 .. next - 1) /\ IsInjective(q)
      BY <2>3, <2>4, RisingFacts
    <3>2. q \in Seq(1 .. Len(targets))
      BY <2>3, <3>1
    <3> QED BY <2>2, <3>1, <3>2
  <2>5. done \in Seq(DOMAIN targets) /\ IsInjective(done)
    <3>1. /\ done \in Seq(Nat) /\ \A i \in 1 .. Len(done) : done[i] \in 1 .. Len(targets)
          /\ \A i, j \in 1 .. Len(done) : done[i] = done[j] => i = j
      BY <2>1 DEF Reads
    <3>2. DOMAIN done = 1 .. Len(done) /\ done \in Seq(1 .. Len(targets))
      BY <3>1
    <3> QED BY <2>2, <3>1, <3>2 DEF IsInjective
  <2>6. \A q \in {done, docs, truncated} : q \in Seq(DOMAIN targets) /\ IsInjective(q)
    BY <2>1, <2>4, <2>5
  <2>7. {answered, capped, cut, degraded} \subseteq BOOLEAN
    BY <2>1 DEF SearchTypes, ReadTypes
  <2>8. waiting \subseteq Scope /\ outcomes \in [DOMAIN targets -> Sizes \union {-1, None}]
    BY <2>1, <2>2 DEF SearchTypes, ReadTypes
  <2> QED BY <2>1, <2>6, <2>7, <2>8 DEF TypeOK, SearchTypes, ReadTypes
<1> QED BY <1>1, SearchInvariant, GetInvariant, PTL

\* SearchAndGet shows the documents of the first hits greedily, in the order
\* of the hits, within the byte budget; every hit is shown or listed, and what
\* is left out is reported.
THEOREM GreedyDocs == Spec => []DocsAreGreedy
<1>1. SearchInv /\ GetInv => DocsAreGreedy
  <2> SUFFICES ASSUME SearchInv, GetInv, pc = "done", req.kind = "get" PROVE DocsAreGreedy
    BY DEF DocsAreGreedy
  <2>1. ReadTypes /\ next = Len(targets) + 1 /\ Listed(combined, targets, docs, other)
        /\ (truncated # << >> => degraded)
    BY DEF GetInv, Progress
  <2>2. Len(targets) \in Nat /\ DOMAIN targets = 1 .. Len(targets) /\ next - 1 = Len(targets)
    BY <2>1 DEF ReadTypes
  <2>3. /\ Rising(docs, Len(targets))
        /\ Filled(outcomes, Range(docs), Range(truncated), Len(targets), remaining, MaxGetBytes)
    BY <2>2 DEF GetInv, Choices
  <2>4. \A k, l \in DOMAIN docs : k < l => docs[k] < docs[l]
    BY <2>2, <2>3, RisingFacts DEF Rising
  <2>5. \A k \in DOMAIN targets :
           /\ k \in Range(docs) <=>
                 /\ outcomes[k] # -1
                 /\ Total(outcomes, {d \in Range(docs) : d < k}) + outcomes[k] <= MaxGetBytes
           /\ outcomes[k] # -1 => k \in Range(docs) \union Range(truncated)
    BY <2>2, <2>3 DEF Filled
  <2> QED BY <2>1, <2>4, <2>5 DEF DocsAreGreedy, Listed
<1> QED BY <1>1, SearchInvariant, GetInvariant, PTL
=============================================================================
