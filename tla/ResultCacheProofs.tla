------------------------- MODULE ResultCacheProofs --------------------------
(***************************************************************************)
(* The result cache for any number of clients, keys and entries.  First,   *)
(* container/list does to the ring of pointers what its operations promise *)
(* of a sequence; then the list of the cache is the cached keys in order   *)
(* of last use, which bounds the cache and keeps evict from its sentinel,  *)
(* as long as no Clear falls between the two phases of a Get.              *)
(***************************************************************************)
EXTENDS ResultCache, SequenceTheorems, FiniteSetTheorems, TLAPS

Nodes == Elems \union {Root}
Pointers == [Nodes -> Nodes \union {Nil}]

\* The ring of the pointers n and p through the sequence q.
Ring(n, p, q) ==
    \A i \in 0..Len(q) : n[At(q, i)] = At(q, i + 1) /\ p[At(q, i + 1)] = At(q, i)

Distinct(q) == \A i, j \in 1..Len(q) : q[i] = q[j] => i = j

\* The elements that o marks are those of q, and the others point nowhere.
Owns(n, p, o, q) ==
    /\ \A e \in Elems : o[e] <=> \E i \in 1..Len(q) : q[i] = e
    /\ \A e \in Elems : ~o[e] => n[e] = Nil /\ p[e] = Nil

Has(q, x) == \E j \in 1..Len(q) : q[j] = x

\* The sequence r is q without its place i, and with e in front of it.
IsCut(r, q, i) ==
    /\ Len(r) = Len(q) - 1
    /\ \A j \in 1..Len(r) : r[j] = IF j < i THEN q[j] ELSE q[j + 1]
IsFronted(r, q, e) ==
    /\ Len(r) = Len(q) + 1
    /\ r[1] = e
    /\ \A j \in 2..Len(r) : r[j] = q[j - 1]

-----------------------------------------------------------------------------
(* Places                                                                  *)

\* The places of a ring are nodes, the sentinel is only at its ends, and no element
\* is at two places.
LEMMA AtFacts ==
    ASSUME NEW q \in Seq(Elems)
    PROVE  /\ Len(q) \in Nat
           /\ At(q, 0) = Root /\ At(q, Len(q) + 1) = Root
           /\ \A i \in 1..Len(q) : At(q, i) = q[i] /\ q[i] \in Elems
           /\ \A i \in 0..(Len(q) + 1) : At(q, i) \in Nodes
<1>1. Len(q) \in Nat /\ \A i \in 1..Len(q) : q[i] \in Elems
  BY LenProperties, ElementOfSeq
<1>2. At(q, 0) = Root /\ At(q, Len(q) + 1) = Root
  BY <1>1 DEF At
<1>3. \A i \in 1..Len(q) : At(q, i) = q[i]
  BY DEF At
<1> QED
  BY <1>1, <1>2, <1>3 DEF Nodes, At

\* Different places hold different nodes, the two ends apart.
LEMMA AtInjective ==
    ASSUME NEW q \in Seq(Elems), Distinct(q)
    PROVE  /\ \A i, j \in 0..Len(q) : At(q, i) = At(q, j) => i = j
           /\ \A i, j \in 1..(Len(q) + 1) : At(q, i) = At(q, j) => i = j
<1>1. /\ Len(q) \in Nat /\ Root \notin Elems
      /\ At(q, 0) = Root /\ At(q, Len(q) + 1) = Root
      /\ \A i \in 1..Len(q) : At(q, i) = q[i] /\ q[i] \in Elems
  BY AtFacts, CacheAssumption
<1>2. ASSUME NEW i \in 0..Len(q), NEW j \in 0..Len(q), At(q, i) = At(q, j) PROVE i = j
  <2>1. CASE i = 0 \/ j = 0
    BY <1>1, <1>2, <2>1
  <2>2. CASE i # 0 /\ j # 0
    <3>1. i \in 1..Len(q) /\ j \in 1..Len(q)
      BY <1>1, <2>2
    <3> QED BY <1>1, <1>2, <3>1 DEF Distinct
  <2> QED BY <2>1, <2>2
<1>3. ASSUME NEW i \in 1..(Len(q) + 1), NEW j \in 1..(Len(q) + 1), At(q, i) = At(q, j)
      PROVE  i = j
  <2>1. CASE i = Len(q) + 1 \/ j = Len(q) + 1
    BY <1>1, <1>3, <2>1
  <2>2. CASE i # Len(q) + 1 /\ j # Len(q) + 1
    <3>1. i \in 1..Len(q) /\ j \in 1..Len(q)
      BY <1>1, <2>2
    <3> QED BY <1>1, <1>3, <3>1 DEF Distinct
  <2> QED BY <2>1, <2>2
<1> QED
  BY <1>2, <1>3

\* The places after a cut.
LEMMA AtCut ==
    ASSUME NEW q \in Seq(Elems), NEW i \in 1..Len(q), NEW r \in Seq(Elems), IsCut(r, q, i)
    PROVE  \A j \in 0..Len(q) : At(r, j) = IF j < i THEN At(q, j) ELSE At(q, j + 1)
<1>1. Len(q) \in Nat /\ Len(r) = Len(q) - 1
  BY AtFacts DEF IsCut
<1> SUFFICES ASSUME NEW j \in 0..Len(q)
             PROVE  At(r, j) = IF j < i THEN At(q, j) ELSE At(q, j + 1)
  OBVIOUS
<1>2. CASE j \in 1..Len(r)
  <2>1. r[j] = IF j < i THEN q[j] ELSE q[j + 1]
    BY <1>2 DEF IsCut
  <2>2. j \in 1..Len(q) /\ j + 1 \in 1..Len(q)
    BY <1>1, <1>2
  <2> QED BY <1>2, <2>1, <2>2 DEF At
<1>3. CASE j = 0
  BY <1>1, <1>3 DEF At
<1>4. CASE j = Len(q)
  <2>1. ~(j < i) /\ j \notin 1..Len(r) /\ j + 1 \notin 1..Len(q)
    BY <1>1, <1>4
  <2> QED BY <2>1 DEF At
<1> QED
  BY <1>1, <1>2, <1>3, <1>4

\* The places after a new front.
LEMMA AtFronted ==
    ASSUME NEW q \in Seq(Elems), NEW e \in Elems, NEW r \in Seq(Elems), IsFronted(r, q, e)
    PROVE  /\ At(r, 0) = Root /\ At(r, 1) = e
           /\ \A j \in 1..(Len(q) + 1) : At(r, j + 1) = At(q, j)
<1>1. Len(q) \in Nat /\ Len(r) = Len(q) + 1
  BY AtFacts DEF IsFronted
<1>2. At(r, 0) = Root /\ At(r, 1) = e
  BY <1>1 DEF At, IsFronted
<1> SUFFICES ASSUME NEW j \in 1..(Len(q) + 1) PROVE At(r, j + 1) = At(q, j)
  BY <1>2
<1>3. CASE j \in 1..Len(q)
  <2>1. j + 1 \in 2..Len(r) /\ j + 1 \in 1..Len(r) /\ (j + 1) - 1 = j
    BY <1>1, <1>3
  <2>2. r[j + 1] = q[j]
    BY <2>1 DEF IsFronted
  <2> QED BY <1>3, <2>1, <2>2 DEF At
<1>4. CASE j = Len(q) + 1
  <2>1. j \notin 1..Len(q) /\ j + 1 \notin 1..Len(r)
    BY <1>1, <1>4
  <2> QED BY <2>1 DEF At
<1> QED
  BY <1>1, <1>3, <1>4

-----------------------------------------------------------------------------
(* The ring                                                                *)

\* Unlinking the element at place i leaves the ring without that place.
LEMMA UnlinkRing ==
    ASSUME NEW n \in Pointers, NEW p \in Pointers, NEW q \in Seq(Elems), NEW i \in 1..Len(q),
           NEW r \in Seq(Elems), Ring(n, p, q), Distinct(q), IsCut(r, q, i)
    PROVE  Ring([n EXCEPT ![p[q[i]]] = n[q[i]]], [p EXCEPT ![n[q[i]]] = p[q[i]]], r)
<1>1. /\ Len(q) \in Nat /\ Len(r) = Len(q) - 1 /\ At(q, i) = q[i]
      /\ \A j \in 0..(Len(q) + 1) : At(q, j) \in Nodes
  BY AtFacts DEF IsCut
<1>2. /\ \A j, k \in 0..Len(q) : At(q, j) = At(q, k) => j = k
      /\ \A j, k \in 1..(Len(q) + 1) : At(q, j) = At(q, k) => j = k
  BY AtInjective
<1>3. \A j \in 0..Len(q) : At(r, j) = IF j < i THEN At(q, j) ELSE At(q, j + 1)
  BY AtCut
<1>4. i - 1 \in 0..Len(q) /\ i \in 0..Len(q) /\ (i - 1) + 1 = i
  BY <1>1
<1>5. n[q[i]] = At(q, i + 1) /\ p[q[i]] = At(q, i - 1)
  BY <1>1, <1>4 DEF Ring
<1> DEFINE a == At(q, i - 1)
           c == At(q, i + 1)
           N == [n EXCEPT ![a] = c]
           P == [p EXCEPT ![c] = a]
<1>6. a \in Nodes /\ c \in Nodes
  BY <1>1, <1>4
<1>7. /\ N[a] = c /\ P[c] = a
      /\ \A x \in Nodes : x # a => N[x] = n[x]
      /\ \A x \in Nodes : x # c => P[x] = p[x]
  <2> HIDE DEF a, c
  <2> QED BY <1>6 DEF Pointers
<1>8. ASSUME NEW j \in 0..Len(r)
      PROVE  N[At(r, j)] = At(r, j + 1) /\ P[At(r, j + 1)] = At(r, j)
  <2>0. j \in 0..Len(q) /\ j + 1 \in 0..Len(q) /\ j + 1 \in 1..(Len(q) + 1)
    BY <1>1
  <2>1. CASE j + 1 < i
    <3>1. At(r, j) = At(q, j) /\ At(r, j + 1) = At(q, j + 1)
      BY <1>1, <1>3, <2>0, <2>1
    <3>2. n[At(q, j)] = At(q, j + 1) /\ p[At(q, j + 1)] = At(q, j)
      BY <2>0 DEF Ring
    <3>3. At(q, j) # a /\ At(q, j + 1) # c
      BY <1>1, <1>2, <1>4, <2>0, <2>1
    <3>4. At(q, j) \in Nodes /\ At(q, j + 1) \in Nodes
      BY <1>1, <2>0
    <3> HIDE DEF N, P, a, c
    <3> QED BY <1>7, <3>1, <3>2, <3>3, <3>4
  <2>2. CASE j + 1 = i
    <3>1. At(r, j) = a /\ At(r, j + 1) = c
      <4>1. j = i - 1 /\ j < i /\ ~(j + 1 < i)
        BY <1>1, <2>2
      <4> QED BY <1>3, <2>0, <2>2, <4>1
    <3> HIDE DEF N, P, a, c
    <3> QED BY <1>7, <3>1
  <2>3. CASE j + 1 > i
    <3>1. At(r, j) = At(q, j + 1) /\ At(r, j + 1) = At(q, j + 2)
      <4>1. ~(j < i) /\ ~(j + 1 < i) /\ (j + 1) + 1 = j + 2
        BY <1>1, <2>3
      <4> QED BY <1>3, <2>0, <4>1
    <3>2. n[At(q, j + 1)] = At(q, j + 2) /\ p[At(q, j + 2)] = At(q, j + 1)
      <4>1. (j + 1) + 1 = j + 2
        OBVIOUS
      <4> QED BY <2>0, <4>1 DEF Ring
    <3>3. At(q, j + 1) # a /\ At(q, j + 2) # c
      BY <1>1, <1>2, <1>4, <2>0, <2>3
    <3>4. At(q, j + 1) \in Nodes /\ At(q, j + 2) \in Nodes
      BY <1>1, <2>0
    <3> HIDE DEF N, P, a, c
    <3> QED BY <1>7, <3>1, <3>2, <3>3, <3>4
  <2> QED BY <1>1, <2>1, <2>2, <2>3
<1>9. Ring(N, P, r)
  <2> HIDE DEF N, P
  <2> QED BY <1>8 DEF Ring
<1> QED
  BY <1>5, <1>9

\* Linking an element that is not in the ring behind the sentinel puts it in front.
LEMMA LinkRing ==
    ASSUME NEW n \in Pointers, NEW p \in Pointers, NEW q \in Seq(Elems), NEW e \in Elems,
           NEW r \in Seq(Elems), Ring(n, p, q), Distinct(q), IsFronted(r, q, e),
           \A i \in 1..Len(q) : q[i] # e
    PROVE  Ring([[n EXCEPT ![e] = n[Root]] EXCEPT ![Root] = e],
                [[p EXCEPT ![e] = Root] EXCEPT ![n[Root]] = e], r)
<1>1. /\ Len(q) \in Nat /\ Len(r) = Len(q) + 1
      /\ At(q, 0) = Root /\ At(q, Len(q) + 1) = Root
      /\ \A j \in 1..Len(q) : At(q, j) = q[j] /\ q[j] \in Elems
      /\ \A j \in 0..(Len(q) + 1) : At(q, j) \in Nodes
      /\ Root \notin Elems /\ e \in Nodes /\ Root \in Nodes
  BY AtFacts, CacheAssumption DEF IsFronted, Nodes
<1>2. \A j, k \in 1..(Len(q) + 1) : At(q, j) = At(q, k) => j = k
  BY AtInjective
<1>3. /\ At(r, 0) = Root /\ At(r, 1) = e
      /\ \A j \in 1..(Len(q) + 1) : At(r, j + 1) = At(q, j)
  BY AtFronted
<1> DEFINE f == n[Root]
           N == [[n EXCEPT ![e] = f] EXCEPT ![Root] = e]
           P == [[p EXCEPT ![e] = Root] EXCEPT ![f] = e]
<1>4. f = At(q, 1)
  <2>1. 0 \in 0..Len(q) /\ 0 + 1 = 1
    BY <1>1
  <2> QED BY <1>1, <2>1 DEF Ring
<1>5. \A j \in 1..(Len(q) + 1) : At(q, j) # e
  <2> SUFFICES ASSUME NEW j \in 1..(Len(q) + 1) PROVE At(q, j) # e
    OBVIOUS
  <2>1. CASE j \in 1..Len(q)
    BY <1>1, <2>1
  <2>2. CASE j = Len(q) + 1
    BY <1>1, <2>2
  <2> QED BY <1>1, <2>1, <2>2
<1>6. f \in Nodes /\ f # e /\ e # Root
  <2>1. 1 \in 1..(Len(q) + 1) /\ 1 \in 0..(Len(q) + 1)
    BY <1>1
  <2> QED BY <1>1, <1>4, <1>5, <2>1
<1>7. /\ N[Root] = e /\ P[e] = Root /\ N[e] = f /\ P[f] = e
      /\ \A x \in Nodes : x # Root /\ x # e => N[x] = n[x]
      /\ \A x \in Nodes : x # f /\ x # e => P[x] = p[x]
  <2> HIDE DEF f
  <2> QED BY <1>1, <1>6 DEF Pointers
<1>8. ASSUME NEW j \in 0..Len(r)
      PROVE  N[At(r, j)] = At(r, j + 1) /\ P[At(r, j + 1)] = At(r, j)
  <2>1. CASE j = 0
    <3>1. At(r, j) = Root /\ At(r, j + 1) = e
      BY <1>3, <2>1
    <3> HIDE DEF N, P, f
    <3> QED BY <1>7, <3>1
  <2>2. CASE j = 1
    <3>1. At(r, j) = e /\ At(r, j + 1) = f
      <4>1. 1 \in 1..(Len(q) + 1)
        BY <1>1
      <4> QED BY <1>3, <1>4, <2>2, <4>1
    <3> HIDE DEF N, P, f
    <3> QED BY <1>7, <3>1
  <2>3. CASE j \notin {0, 1}
    <3> DEFINE m == j - 1
    <3>1. m \in 1..Len(q) /\ m \in 0..Len(q) /\ m \in 1..(Len(q) + 1) /\ m + 1 = j
          /\ m + 1 \in 1..(Len(q) + 1) /\ m + 1 # 1 /\ 1 \in 1..(Len(q) + 1)
          /\ m + 1 \in 0..(Len(q) + 1)
      BY <1>1, <2>3
    <3> HIDE DEF m
    <3>2. At(r, j) = At(q, m) /\ At(r, j + 1) = At(q, m + 1)
      BY <1>3, <3>1
    <3>3. n[At(q, m)] = At(q, m + 1) /\ p[At(q, m + 1)] = At(q, m)
      BY <3>1 DEF Ring
    <3>4. At(q, m) # Root /\ At(q, m) # e /\ At(q, m) \in Nodes
      BY <1>1, <1>5, <3>1
    <3>5. At(q, m + 1) # f /\ At(q, m + 1) # e /\ At(q, m + 1) \in Nodes
      BY <1>1, <1>2, <1>4, <1>5, <3>1
    <3> HIDE DEF N, P, f
    <3> QED BY <1>7, <3>2, <3>3, <3>4, <3>5
  <2> QED BY <2>1, <2>2, <2>3
<1>9. Ring(N, P, r)
  <2> HIDE DEF N, P
  <2> QED BY <1>8 DEF Ring
<1> QED
  BY <1>9

-----------------------------------------------------------------------------
(* The operations of the list                                              *)

\* The parts of what a list represents.
LEMMA RepParts ==
    ASSUME NEW l \in Lists, NEW q \in Seq(Elems), Represents(l, q)
    PROVE  /\ l.next \in Pointers /\ l.prev \in Pointers
           /\ l.owned \in [Elems -> BOOLEAN] /\ l.len \in Nat
           /\ l.len = Len(q) /\ Distinct(q) /\ Ring(l.next, l.prev, q)
           /\ \A e \in Elems : l.owned[e] <=> \E i \in 1..Len(q) : q[i] = e
           /\ \A e \in Elems : ~l.owned[e] => l.next[e] = Nil /\ l.prev[e] = Nil
<1>1. l.next \in Pointers /\ l.prev \in Pointers /\ l.owned \in [Elems -> BOOLEAN] /\ l.len \in Nat
  <2>1. Elems \union {Root, Nil} = Nodes \union {Nil}
    BY DEF Nodes
  <2> QED BY <2>1 DEF Lists, Pointers, Nodes
<1> QED
  BY <1>1 DEF Represents, Distinct, Ring

\* A record of such parts represents the sequence.
LEMMA RepFromParts ==
    ASSUME NEW n \in Pointers, NEW p \in Pointers, NEW o \in [Elems -> BOOLEAN],
           NEW q \in Seq(Elems), Distinct(q), Ring(n, p, q), Owns(n, p, o, q),
           NEW l, l = [next |-> n, prev |-> p, owned |-> o, len |-> Len(q)]
    PROVE  l \in Lists /\ Represents(l, q)
<1>1. Len(q) \in Nat /\ \A i \in 1..Len(q) : q[i] \in Elems
  BY AtFacts
<1>2. l \in Lists
  <2>1. Elems \union {Root, Nil} = Nodes \union {Nil}
    BY DEF Nodes
  <2> QED BY <1>1, <2>1 DEF Lists, Pointers, Nodes
<1>3. l.next = n /\ l.prev = p /\ l.owned = o /\ l.len = Len(q)
  OBVIOUS
<1> QED
  BY <1>1, <1>2, <1>3 DEF Represents, Distinct, Ring, Owns

\* A place cut out of a sequence without repetitions leaves none, and leaves
\* everything but the element there.
LEMMA CutDistinct ==
    ASSUME NEW q, Len(q) \in Nat, NEW i \in 1..Len(q), NEW r, Distinct(q), IsCut(r, q, i)
    PROVE  /\ Distinct(r)
           /\ \A e : Has(r, e) <=> Has(q, e) /\ e # q[i]
<1>1. Len(q) \in Nat /\ Len(r) = Len(q) - 1
  BY DEF IsCut
<1>2. \A j \in 1..Len(r) : r[j] = IF j < i THEN q[j] ELSE q[j + 1]
  BY DEF IsCut
<1>3. Distinct(r)
  <2> SUFFICES ASSUME NEW j \in 1..Len(r), NEW k \in 1..Len(r), r[j] = r[k] PROVE j = k
    BY DEF Distinct
  <2>1. /\ j \in 1..Len(q) /\ j + 1 \in 1..Len(q) /\ k \in 1..Len(q) /\ k + 1 \in 1..Len(q)
        /\ j \in Nat /\ k \in Nat
    BY <1>1
  <2> QED BY <1>1, <1>2, <2>1 DEF Distinct
<1>4. ASSUME NEW e, NEW j \in 1..Len(r), r[j] = e
      PROVE  (\E k \in 1..Len(q) : q[k] = e) /\ e # q[i]
  <2>1. /\ j \in 1..Len(q) /\ j + 1 \in 1..Len(q) /\ j \in Nat
    BY <1>1
  <2> QED BY <1>1, <1>2, <1>4, <2>1 DEF Distinct
<1>5. ASSUME NEW e, NEW k \in 1..Len(q), q[k] = e, e # q[i]
      PROVE  \E j \in 1..Len(r) : r[j] = e
  <2>1. CASE k < i
    <3>1. k \in 1..Len(r)
      BY <1>1, <2>1
    <3> QED BY <1>2, <1>5, <2>1, <3>1
  <2>2. CASE ~(k < i)
    <3>1. k # i
      BY <1>5
    <3>2. k - 1 \in 1..Len(r) /\ ~(k - 1 < i) /\ (k - 1) + 1 = k
      BY <1>1, <2>2, <3>1
    <3> QED BY <1>2, <1>5, <3>2
  <2> QED BY <2>1, <2>2
<1> QED
  BY <1>3, <1>4, <1>5 DEF Has

\* A new front before a sequence without repetitions adds its element and repeats none.
LEMMA FrontedDistinct ==
    ASSUME NEW q, Len(q) \in Nat, NEW e, NEW r, Distinct(q), IsFronted(r, q, e), ~Has(q, e)
    PROVE  /\ Distinct(r)
           /\ \A x : Has(r, x) <=> Has(q, x) \/ x = e
<1>1. /\ Len(q) \in Nat /\ Len(r) = Len(q) + 1 /\ r[1] = e
      /\ \A j \in 1..Len(q) : q[j] # e
  BY DEF IsFronted, Has
<1>2. \A j \in 1..Len(q) : j + 1 \in 1..Len(r) /\ r[j + 1] = q[j]
  <2> SUFFICES ASSUME NEW j \in 1..Len(q) PROVE j + 1 \in 1..Len(r) /\ r[j + 1] = q[j]
    OBVIOUS
  <2>1. j + 1 \in 2..Len(r) /\ j + 1 \in 1..Len(r) /\ (j + 1) - 1 = j
    BY <1>1
  <2> QED BY <2>1 DEF IsFronted
<1>3. \A j \in 1..Len(r) : j = 1 \/ (j - 1 \in 1..Len(q) /\ r[j] = q[j - 1])
  <2> SUFFICES ASSUME NEW j \in 1..Len(r), j # 1
               PROVE  j - 1 \in 1..Len(q) /\ r[j] = q[j - 1]
    OBVIOUS
  <2>1. j \in 2..Len(r) /\ j - 1 \in 1..Len(q)
    BY <1>1
  <2> QED BY <2>1 DEF IsFronted
<1>4. Distinct(r)
  <2> SUFFICES ASSUME NEW j \in 1..Len(r), NEW k \in 1..Len(r), r[j] = r[k] PROVE j = k
    BY DEF Distinct
  <2>1. CASE j = 1 \/ k = 1
    BY <1>1, <1>3, <2>1
  <2>2. CASE j # 1 /\ k # 1
    <3>1. j - 1 = k - 1
      BY <1>3, <2>2 DEF Distinct
    <3> QED BY <1>1, <3>1
  <2> QED BY <2>1, <2>2
<1>5. ASSUME NEW x, NEW j \in 1..Len(r), r[j] = x
      PROVE  (\E k \in 1..Len(q) : q[k] = x) \/ x = e
  BY <1>1, <1>3, <1>5
<1>6. ASSUME NEW x, (\E j \in 1..Len(q) : q[j] = x) \/ x = e
      PROVE  \E j \in 1..Len(r) : r[j] = x
  <2>1. 1 \in 1..Len(r)
    BY <1>1
  <2> QED BY <1>1, <1>2, <1>6, <2>1
<1> QED
  BY <1>4, <1>5, <1>6 DEF Has

\* Removing an element of the list.
LEMMA RemoveRep ==
    ASSUME NEW l \in Lists, NEW q \in Seq(Elems), Represents(l, q), NEW i \in 1..Len(q),
           NEW r \in Seq(Elems), IsCut(r, q, i)
    PROVE  RemoveElem(l, q[i]) \in Lists /\ Represents(RemoveElem(l, q[i]), r)
<1> DEFINE e == q[i]
           n1 == [l.next EXCEPT ![l.prev[e]] = l.next[e]]
           p1 == [l.prev EXCEPT ![l.next[e]] = l.prev[e]]
           n2 == [n1 EXCEPT ![e] = Nil]
           p2 == [p1 EXCEPT ![e] = Nil]
           o2 == [l.owned EXCEPT ![e] = FALSE]
<1>1. /\ l.next \in Pointers /\ l.prev \in Pointers
      /\ l.owned \in [Elems -> BOOLEAN] /\ l.len \in Nat
      /\ l.len = Len(q) /\ Distinct(q) /\ Ring(l.next, l.prev, q)
      /\ \A x \in Elems : l.owned[x] <=> \E j \in 1..Len(q) : q[j] = x
      /\ \A x \in Elems : ~l.owned[x] => l.next[x] = Nil /\ l.prev[x] = Nil
  BY RepParts
<1>2. /\ Len(q) \in Nat /\ e \in Elems /\ e \in Nodes /\ Len(r) = Len(q) - 1
      /\ At(q, i) = e /\ \A j \in 0..(Len(q) + 1) : At(q, j) \in Nodes
  BY AtFacts DEF Nodes, IsCut
<1>3. Distinct(r) /\ \A x : Has(r, x) <=> Has(q, x) /\ x # e
  BY <1>1, <1>2, CutDistinct
<1>4. Ring(n1, p1, r)
  BY <1>1, UnlinkRing
<1>5. l.next[e] \in Nodes /\ l.prev[e] \in Nodes
  <2>1. /\ i \in 0..Len(q) /\ i - 1 \in 0..Len(q) /\ (i - 1) + 1 = i
        /\ i + 1 \in 0..(Len(q) + 1) /\ i - 1 \in 0..(Len(q) + 1)
    BY <1>2
  <2>2. l.next[At(q, i)] = At(q, i + 1) /\ l.prev[At(q, i)] = At(q, i - 1)
    BY <1>1, <2>1 DEF Ring
  <2> QED BY <1>2, <2>1, <2>2
<1>6. /\ n1 \in Pointers /\ p1 \in Pointers /\ n2 \in Pointers /\ p2 \in Pointers
      /\ o2 \in [Elems -> BOOLEAN]
  <2> HIDE DEF e
  <2> QED BY <1>1, <1>2, <1>5 DEF Pointers
<1>7. \A x \in Nodes : x # e => n2[x] = n1[x] /\ p2[x] = p1[x]
  <2> HIDE DEF n1, p1, e
  <2> QED BY <1>6 DEF Pointers
<1>8. n2[e] = Nil /\ p2[e] = Nil
  <2> HIDE DEF n1, p1, e
  <2> QED BY <1>2, <1>6 DEF Pointers
<1>9. \A j \in 0..(Len(r) + 1) : At(r, j) \in Nodes /\ At(r, j) # e
  <2>1. \A j \in 1..Len(r) : At(r, j) = r[j] /\ r[j] # e
    BY <1>3, AtFacts DEF Has
  <2>2. Root # e
    BY <1>2, CacheAssumption
  <2>3. \A j : At(r, j) = Root \/ j \in 1..Len(r)
    BY DEF At
  <2>4. \A j \in 0..(Len(r) + 1) : At(r, j) \in Nodes
    BY AtFacts
  <2> HIDE DEF e
  <2> QED BY <2>1, <2>2, <2>3, <2>4
<1>10. Ring(n2, p2, r)
  <2> HIDE DEF n1, p1, n2, p2, e
  <2> SUFFICES ASSUME NEW j \in 0..Len(r)
               PROVE  n2[At(r, j)] = At(r, j + 1) /\ p2[At(r, j + 1)] = At(r, j)
    BY DEF Ring
  <2>1. j \in 0..(Len(r) + 1) /\ j + 1 \in 0..(Len(r) + 1)
    BY <1>2
  <2>2. n1[At(r, j)] = At(r, j + 1) /\ p1[At(r, j + 1)] = At(r, j)
    BY <1>4 DEF Ring
  <2> QED BY <1>7, <1>9, <2>1, <2>2
<1>11. \A x \in Elems : o2[x] <=> \E j \in 1..Len(r) : r[j] = x
  <2>1. \A x \in Elems : x # e => o2[x] = l.owned[x]
    BY <1>1
  <2>2. ~o2[e]
    BY <1>1, <1>2
  <2> HIDE DEF o2, e
  <2> QED BY <1>1, <1>3, <2>1, <2>2 DEF Has
<1>12. \A x \in Elems : ~o2[x] => n2[x] = Nil /\ p2[x] = Nil
  <2> SUFFICES ASSUME NEW x \in Elems, ~o2[x], x # e PROVE n2[x] = Nil /\ p2[x] = Nil
    BY <1>8
  <2>1. ~l.owned[x]
    BY <1>1
  <2>2. l.next[x] = Nil /\ l.prev[x] = Nil /\ \A j \in 1..Len(q) : q[j] # x
    BY <1>1, <2>1
  <2>3. l.prev[e] # x /\ l.next[e] # x
    <3>1. /\ i \in 0..Len(q) /\ i - 1 \in 0..Len(q) /\ (i - 1) + 1 = i
      BY <1>2
    <3>2. l.next[At(q, i)] = At(q, i + 1) /\ l.prev[At(q, i)] = At(q, i - 1)
      BY <1>1, <3>1 DEF Ring
    <3>3. \A j : At(q, j) # x
      BY <2>2, CacheAssumption DEF At
    <3> QED BY <1>2, <3>2, <3>3
  <2>4. n1[x] = l.next[x] /\ p1[x] = l.prev[x]
    <3> HIDE DEF e
    <3> QED BY <1>1, <2>3 DEF Pointers, Nodes
  <2>5. x \in Nodes
    BY DEF Nodes
  <2> HIDE DEF n1, p1, n2, p2, e
  <2> QED BY <1>7, <2>2, <2>4, <2>5
<1>13. RemoveElem(l, e) = [next |-> n2, prev |-> p2, owned |-> o2, len |-> Len(r)]
  <2>1. l.owned[e]
    BY <1>1, <1>2
  <2>2. l = [next |-> l.next, prev |-> l.prev, owned |-> l.owned, len |-> l.len]
    BY DEF Lists
  <2>3. Len(r) = l.len - 1
    BY <1>1, <1>2
  <2> HIDE DEF e
  <2> QED BY <2>1, <2>2, <2>3 DEF RemoveElem, Release, Unlink
<1> DEFINE m == RemoveElem(l, e)
<1> HIDE DEF n1, p1, n2, p2, o2, m
<1>14. Owns(n2, p2, o2, r)
  BY <1>11, <1>12 DEF Owns
<1>15. Distinct(r)
  BY <1>3
<1>16. m \in Lists /\ Represents(m, r)
  BY <1>6, <1>10, <1>13, <1>14, <1>15, RepFromParts DEF m
<1> QED
  BY <1>16 DEF m

\* Pushing an element that the list does not own.
LEMMA PushRep ==
    ASSUME NEW l \in Lists, NEW q \in Seq(Elems), Represents(l, q), NEW e \in Elems,
           ~l.owned[e], NEW r \in Seq(Elems), IsFronted(r, q, e)
    PROVE  PushFront(l, e) \in Lists /\ Represents(PushFront(l, e), r)
<1> DEFINE n1 == [[l.next EXCEPT ![e] = l.next[Root]] EXCEPT ![Root] = e]
           p1 == [[l.prev EXCEPT ![e] = Root] EXCEPT ![l.next[Root]] = e]
           o1 == [l.owned EXCEPT ![e] = TRUE]
<1>1. /\ l.next \in Pointers /\ l.prev \in Pointers
      /\ l.owned \in [Elems -> BOOLEAN] /\ l.len \in Nat
      /\ l.len = Len(q) /\ Distinct(q) /\ Ring(l.next, l.prev, q)
      /\ \A x \in Elems : l.owned[x] <=> \E j \in 1..Len(q) : q[j] = x
      /\ \A x \in Elems : ~l.owned[x] => l.next[x] = Nil /\ l.prev[x] = Nil
  BY RepParts
<1>2. /\ Len(q) \in Nat /\ e \in Nodes /\ Root \in Nodes /\ Len(r) = Len(q) + 1
      /\ At(q, 0) = Root /\ \A j \in 0..(Len(q) + 1) : At(q, j) \in Nodes
  BY AtFacts DEF Nodes, IsFronted
<1>3. ~Has(q, e)
  BY <1>1 DEF Has
<1>4. Distinct(r) /\ \A x : Has(r, x) <=> Has(q, x) \/ x = e
  BY <1>1, <1>2, <1>3, FrontedDistinct
<1>6. Ring(n1, p1, r)
  BY <1>1, <1>3, LinkRing DEF Has
<1>7. l.next[Root] = At(q, 1) /\ l.next[Root] \in Nodes
  <2>1. 0 \in 0..Len(q) /\ 0 + 1 = 1 /\ 1 \in 0..(Len(q) + 1)
    BY <1>2
  <2>2. l.next[Root] = At(q, 1)
    BY <1>1, <1>2, <2>1 DEF Ring
  <2> QED BY <1>2, <2>1, <2>2
<1>8. n1 \in Pointers /\ p1 \in Pointers /\ o1 \in [Elems -> BOOLEAN]
  <2> QED BY <1>1, <1>2, <1>7 DEF Pointers
<1>9. \A x \in Elems : o1[x] <=> \E j \in 1..Len(r) : r[j] = x
  <2>1. \A x \in Elems : x # e => o1[x] = l.owned[x]
    BY <1>1
  <2>2. o1[e]
    BY <1>1
  <2> HIDE DEF o1
  <2> QED BY <1>1, <1>4, <2>1, <2>2 DEF Has
<1>10. \A x \in Elems : ~o1[x] => n1[x] = Nil /\ p1[x] = Nil
  <2> SUFFICES ASSUME NEW x \in Elems, ~o1[x] PROVE n1[x] = Nil /\ p1[x] = Nil
    OBVIOUS
  <2>1. x # e /\ ~l.owned[x]
    BY <1>1
  <2>2. l.next[x] = Nil /\ l.prev[x] = Nil /\ \A j \in 1..Len(q) : q[j] # x
    BY <1>1, <2>1
  <2>3. x # l.next[Root] /\ x # Root /\ x \in Nodes
    BY <1>7, <2>2, CacheAssumption DEF At, Nodes
  <2> QED BY <1>1, <2>1, <2>2, <2>3 DEF Pointers
<1>11. PushFront(l, e) = [next |-> n1, prev |-> p1, owned |-> o1, len |-> Len(r)]
  <2>1. l = [next |-> l.next, prev |-> l.prev, owned |-> l.owned, len |-> l.len]
    BY DEF Lists
  <2>2. Len(r) = l.len + 1
    BY <1>1, <1>2
  <2> DEFINE k == LinkFront(l, e)
  <2>3. k = [next |-> n1, prev |-> p1, owned |-> l.owned, len |-> l.len]
    <3>1. k = [l EXCEPT !.next = n1, !.prev = p1]
      BY DEF LinkFront
    <3> HIDE DEF n1, p1, k
    <3> QED BY <2>1, <3>1
  <2>4. PushFront(l, e) = [k EXCEPT !.owned = [k.owned EXCEPT ![e] = TRUE], !.len = k.len + 1]
    BY DEF PushFront, Own
  <2> HIDE DEF n1, p1, k
  <2>5. k.owned = l.owned /\ k.len = l.len
    BY <2>3
  <2>6. PushFront(l, e) = [k EXCEPT !.owned = o1, !.len = Len(r)]
    BY <2>2, <2>4, <2>5
  <2> HIDE DEF o1
  <2> QED BY <2>3, <2>6
<1> DEFINE m == PushFront(l, e)
<1> HIDE DEF n1, p1, o1, m
<1>12. m \in Lists /\ Represents(m, r)
  <2>1. Distinct(r)
    BY <1>4
  <2>2. Owns(n1, p1, o1, r)
    BY <1>9, <1>10 DEF Owns
  <2> QED BY <1>6, <1>8, <1>11, <2>1, <2>2, RepFromParts DEF m
<1> QED
  BY <1>12 DEF m

\* Moving an element of the list to its front: the sequence s is q with its place i
\* cut out, which leaves r, and put in front of r.
LEMMA MoveRep ==
    ASSUME NEW l \in Lists, NEW q \in Seq(Elems), Represents(l, q), NEW i \in 1..Len(q),
           NEW r \in Seq(Elems), IsCut(r, q, i), NEW s \in Seq(Elems), IsFronted(s, r, q[i])
    PROVE  MoveToFront(l, q[i]) \in Lists /\ Represents(MoveToFront(l, q[i]), s)
<1> DEFINE e == q[i]
           n1 == [l.next EXCEPT ![l.prev[e]] = l.next[e]]
           p1 == [l.prev EXCEPT ![l.next[e]] = l.prev[e]]
           n2 == [[n1 EXCEPT ![e] = n1[Root]] EXCEPT ![Root] = e]
           p2 == [[p1 EXCEPT ![e] = Root] EXCEPT ![n1[Root]] = e]
<1>1. /\ l.next \in Pointers /\ l.prev \in Pointers
      /\ l.owned \in [Elems -> BOOLEAN] /\ l.len \in Nat
      /\ l.len = Len(q) /\ Distinct(q) /\ Ring(l.next, l.prev, q)
      /\ \A x \in Elems : l.owned[x] <=> \E j \in 1..Len(q) : q[j] = x
      /\ \A x \in Elems : ~l.owned[x] => l.next[x] = Nil /\ l.prev[x] = Nil
  BY RepParts
<1>2. /\ Len(q) \in Nat /\ e \in Elems /\ e \in Nodes /\ Root \in Nodes
      /\ Len(r) = Len(q) - 1 /\ Len(r) \in Nat /\ Len(s) = Len(q) /\ At(q, i) = e
      /\ \A j \in 0..(Len(q) + 1) : At(q, j) \in Nodes
  BY AtFacts DEF Nodes, IsCut, IsFronted
<1>3. l.owned[e]
  BY <1>1, <1>2
<1>4. CASE l.next[Root] = e
  <2>1. i = 1
    <3>1. 0 \in 0..Len(q) /\ 0 + 1 = 1 /\ At(q, 0) = Root /\ 1 \in 1..Len(q)
      BY <1>2, AtFacts
    <3>2. At(q, 1) = q[i] /\ At(q, 1) = q[1]
      BY <1>1, <1>4, <3>1 DEF Ring, At
    <3> QED BY <1>1, <3>1, <3>2 DEF Distinct
  <2>2. \A j \in 1..Len(s) : s[j] = q[j]
    <3> SUFFICES ASSUME NEW j \in 1..Len(s) PROVE s[j] = q[j]
      OBVIOUS
    <3>1. CASE j = 1
      BY <2>1, <3>1 DEF IsFronted
    <3>2. CASE j # 1
      <4>1. j \in 2..Len(s) /\ j - 1 \in 1..Len(r) /\ ~(j - 1 < 1) /\ (j - 1) + 1 = j
        BY <1>2, <3>2
      <4>2. s[j] = r[j - 1]
        BY <4>1 DEF IsFronted
      <4>3. r[j - 1] = q[j]
        BY <2>1, <4>1 DEF IsCut
      <4> QED BY <4>2, <4>3
    <3> QED BY <3>1, <3>2
  <2>3. s = q
    BY <1>2, <2>2, SeqEqual
  <2> QED BY <1>4, <2>3 DEF MoveToFront
<1>5. CASE l.next[Root] # e
  <2>0. Distinct(q) /\ Len(q) \in Nat
    BY <1>1, <1>2
  <2>1. Distinct(r)
    BY <2>0, CutDistinct
  <2>2. \A x : Has(r, x) <=> Has(q, x) /\ x # e
    BY <2>0, CutDistinct
  <2>3. ~Has(r, e)
    BY <2>2
  <2>4. Distinct(s)
    BY <1>2, <2>1, <2>3, FrontedDistinct
  <2>5. \A x : Has(s, x) <=> Has(r, x) \/ x = e
    BY <1>2, <2>1, <2>3, FrontedDistinct
  <2>6. Ring(n1, p1, r)
    BY <1>1, UnlinkRing
  <2>7. l.next[e] \in Nodes /\ l.prev[e] \in Nodes
    <3>1. /\ i \in 0..Len(q) /\ i - 1 \in 0..Len(q) /\ (i - 1) + 1 = i
          /\ i + 1 \in 0..(Len(q) + 1) /\ i - 1 \in 0..(Len(q) + 1)
      BY <1>2
    <3>2. l.next[At(q, i)] = At(q, i + 1) /\ l.prev[At(q, i)] = At(q, i - 1)
      BY <1>1, <3>1 DEF Ring
    <3> QED BY <1>2, <3>1, <3>2
  <2>8. n1 \in Pointers /\ p1 \in Pointers
    <3> HIDE DEF e
    <3> QED BY <1>1, <1>2, <2>7 DEF Pointers
  <2>9. Ring(n2, p2, s)
    <3> HIDE DEF n1, p1
    <3> QED BY <1>2, <2>1, <2>3, <2>6, <2>8, LinkRing DEF Has
  <2>10. n1[Root] = At(r, 1) /\ n1[Root] \in Nodes
    <3>1. 0 \in 0..Len(r) /\ 0 + 1 = 1 /\ 1 \in 0..(Len(r) + 1) /\ At(r, 0) = Root
      BY <1>2, AtFacts
    <3>2. n1[Root] = At(r, 1)
      <4> HIDE DEF n1, p1
      <4> QED BY <2>6, <3>1 DEF Ring
    <3> QED BY <3>1, <3>2, AtFacts
  <2>11. n2 \in Pointers /\ p2 \in Pointers
    <3> HIDE DEF n1, p1, e
    <3> QED BY <1>2, <2>8, <2>10 DEF Pointers
  <2>12. \A x \in Elems : l.owned[x] <=> \E j \in 1..Len(s) : s[j] = x
    <3>1. \A x : Has(s, x) <=> Has(q, x)
      BY <1>2, <2>2, <2>5 DEF Has
    <3> QED BY <1>1, <3>1 DEF Has
  <2>13. \A x \in Elems : ~l.owned[x] => n2[x] = Nil /\ p2[x] = Nil
    <3> SUFFICES ASSUME NEW x \in Elems, ~l.owned[x] PROVE n2[x] = Nil /\ p2[x] = Nil
      OBVIOUS
    <3>1. l.next[x] = Nil /\ l.prev[x] = Nil /\ x # e /\ x # Root /\ x \in Nodes
      BY <1>1, <1>3, CacheAssumption DEF Nodes
    <3>2. \A j : At(q, j) # x
      BY <1>1, CacheAssumption DEF At
    <3>3. \A j : At(r, j) # x
      BY <1>1, <2>2, CacheAssumption DEF At, Has
    <3>4. l.prev[e] # x /\ l.next[e] # x
      <4>1. /\ i \in 0..Len(q) /\ i - 1 \in 0..Len(q) /\ (i - 1) + 1 = i
        BY <1>2
      <4>2. l.next[At(q, i)] = At(q, i + 1) /\ l.prev[At(q, i)] = At(q, i - 1)
        BY <1>1, <4>1 DEF Ring
      <4> QED BY <1>2, <3>2, <4>2
    <3>5. n1[x] = l.next[x] /\ p1[x] = l.prev[x]
      <4> HIDE DEF e
      <4> QED BY <1>1, <3>1, <3>4 DEF Pointers
    <3>6. n1[Root] # x
      BY <2>10, <3>3
    <3>7. n2[x] = n1[x] /\ p2[x] = p1[x]
      <4> HIDE DEF n1, p1, e
      <4> QED BY <2>8, <3>1, <3>6 DEF Pointers
    <3> QED BY <3>1, <3>5, <3>7
  <2>14. MoveToFront(l, e) = [next |-> n2, prev |-> p2, owned |-> l.owned, len |-> Len(s)]
    <3>1. l = [next |-> l.next, prev |-> l.prev, owned |-> l.owned, len |-> l.len]
      BY DEF Lists
    <3>2. Len(s) = l.len
      BY <1>1, <1>2
    <3>3. MoveToFront(l, e) = LinkFront(Unlink(l, e), e)
      BY <1>3, <1>5 DEF MoveToFront
    <3> HIDE DEF e
    <3> QED BY <3>1, <3>2, <3>3 DEF LinkFront, Unlink
  <2> DEFINE m == MoveToFront(l, e)
  <2>15. l.owned \in [Elems -> BOOLEAN]
    BY <1>1
  <2> HIDE DEF n1, p1, n2, p2, m
  <2>16. Owns(n2, p2, l.owned, s)
    BY <2>12, <2>13 DEF Owns
  <2>17. m \in Lists /\ Represents(m, s)
    BY <2>4, <2>9, <2>11, <2>14, <2>15, <2>16, RepFromParts DEF m
  <2> QED BY <2>17 DEF m
<1> QED
  BY <1>4, <1>5

\* The back of the list is the last of its elements, if it has one.
LEMMA BackRep ==
    ASSUME NEW l \in Lists, NEW q \in Seq(Elems), Represents(l, q)
    PROVE  Back(l) = IF Len(q) = 0 THEN Nil ELSE q[Len(q)]
<1>1. /\ l.len = Len(q) /\ Ring(l.next, l.prev, q)
  BY RepParts
<1>2. Len(q) \in Nat /\ Len(q) \in 0..Len(q) /\ At(q, Len(q) + 1) = Root
  BY AtFacts
<1>3. l.prev[Root] = At(q, Len(q))
  BY <1>1, <1>2 DEF Ring
<1>4. CASE Len(q) = 0
  BY <1>1, <1>4 DEF Back
<1>5. CASE Len(q) # 0
  <2>1. Len(q) \in 1..Len(q)
    BY <1>2, <1>5
  <2> QED BY <1>1, <1>3, <1>5, <2>1 DEF Back, At
<1> QED
  BY <1>4, <1>5

-----------------------------------------------------------------------------
(* The keys in order of last use                                           *)

EltsOf(us, its) == [i \in 1..Len(us) |-> its[us[i]]]

\* Removing a key of a sequence without repetitions cuts out its place.
LEMMA RemoveFirstCut ==
    ASSUME NEW S, NEW us \in Seq(S), Distinct(us), NEW i \in 1..Len(us)
    PROVE  RemoveFirst(us, us[i]) \in Seq(S) /\ IsCut(RemoveFirst(us, us[i]), us, i)
<1>1. Len(us) \in Nat
  BY LenProperties
<1> DEFINE I == {j \in 1..Len(us) : us[j] = us[i]}
<1>2. I = {i}
  BY DEF Distinct
<1>3. SelectInSeq(us, LAMBDA v : v = us[i]) = i
  <2>1. Min(I) = i
    <3> HIDE DEF I
    <3> QED BY <1>1, <1>2 DEF Min
  <2>2. I # {}
    BY <1>2
  <2> QED BY <2>1, <2>2 DEF SelectInSeq
<1>4. RemoveFirst(us, us[i]) = RemoveAt(us, i)
  BY <1>3 DEF RemoveFirst
<1> DEFINE a == SubSeq(us, 1, i - 1)
           b == SubSeq(us, i + 1, Len(us))
<1>5. \A j \in 1..Len(us) : us[j] \in S
  BY ElementOfSeq
<1>6. /\ a \in Seq(S) /\ Len(a) = i - 1
      /\ \A j \in 1..(i - 1) : a[j] = us[j]
  <2>1. /\ a \in Seq(S) /\ Len(a) = IF 1 <= i - 1 THEN (i - 1) - 1 + 1 ELSE 0
        /\ \A j \in 1..((i - 1) - 1 + 1) : a[j] = us[1 + j - 1]
    <3>1. 1 \in Int /\ i - 1 \in Int /\ \A j \in 1..(i - 1) : us[j] \in S
      BY <1>1, <1>5
    <3> HIDE DEF a
    <3> QED BY <3>1, SubSeqProperties DEF a
  <2>2. \A j \in 1..(i - 1) : j \in 1..((i - 1) - 1 + 1) /\ 1 + j - 1 = j
    BY <1>1
  <2> HIDE DEF a
  <2> QED BY <1>1, <2>1, <2>2
<1>7. /\ b \in Seq(S) /\ Len(b) = Len(us) - i
      /\ \A j \in 1..(Len(us) - i) : b[j] = us[i + j]
  <2>1. /\ b \in Seq(S) /\ Len(b) = IF i + 1 <= Len(us) THEN Len(us) - (i + 1) + 1 ELSE 0
        /\ \A j \in 1..(Len(us) - (i + 1) + 1) : b[j] = us[(i + 1) + j - 1]
    <3>1. i + 1 \in Int /\ Len(us) \in Int /\ \A j \in (i + 1)..Len(us) : us[j] \in S
      BY <1>1, <1>5
    <3> HIDE DEF b
    <3> QED BY <3>1, SubSeqProperties DEF b
  <2>2. \A j \in 1..(Len(us) - i) : j \in 1..(Len(us) - (i + 1) + 1) /\ (i + 1) + j - 1 = i + j
    BY <1>1
  <2> HIDE DEF b
  <2> QED BY <1>1, <2>1, <2>2
<1> HIDE DEF a, b
<1>8. /\ a \o b \in Seq(S) /\ Len(a \o b) = Len(us) - 1
      /\ \A j \in 1..(Len(us) - 1) : (a \o b)[j] = IF j < i THEN us[j] ELSE us[j + 1]
  <2>1. /\ a \o b \in Seq(S) /\ Len(a \o b) = Len(a) + Len(b)
        /\ \A j \in 1..(Len(a) + Len(b)) :
             (a \o b)[j] = IF j <= Len(a) THEN a[j] ELSE b[j - Len(a)]
    BY <1>6, <1>7, ConcatProperties
  <2>2. Len(a) + Len(b) = Len(us) - 1
    BY <1>1, <1>6, <1>7
  <2>3. ASSUME NEW j \in 1..(Len(us) - 1)
        PROVE  (a \o b)[j] = IF j < i THEN us[j] ELSE us[j + 1]
    <3>1. CASE j < i
      <4>1. j \in 1..(i - 1) /\ j <= Len(a)
        BY <1>1, <1>6, <3>1
      <4> QED BY <1>6, <2>1, <2>2, <3>1, <4>1
    <3>2. CASE ~(j < i)
      <4>1. /\ ~(j <= Len(a)) /\ j - Len(a) \in 1..(Len(us) - i)
            /\ i + (j - Len(a)) = j + 1
        BY <1>1, <1>6, <3>2
      <4>2. (a \o b)[j] = b[j - Len(a)]
        BY <2>1, <2>2, <4>1
      <4>3. b[j - Len(a)] = us[i + (j - Len(a))]
        BY <1>7, <4>1
      <4> QED BY <3>2, <4>1, <4>2, <4>3
    <3> QED BY <3>1, <3>2
  <2> QED BY <2>1, <2>2, <2>3
<1> QED
  BY <1>4, <1>8 DEF RemoveAt, IsCut, a, b

\* Removing a key that is not there changes nothing.
LEMMA RemoveFirstNone ==
    ASSUME NEW us, NEW k, ~Has(us, k)
    PROVE  RemoveFirst(us, k) = us
BY DEF RemoveFirst, Has

\* Front cuts out the last place.
LEMMA FrontCut ==
    ASSUME NEW S, NEW us \in Seq(S), us # << >>
    PROVE  Front(us) \in Seq(S) /\ IsCut(Front(us), us, Len(us)) /\ Len(us) \in 1..Len(us)
<1>1. Len(us) \in Nat /\ Len(us) # 0 /\ \A j \in 1..Len(us) : us[j] \in S
  BY LenProperties, EmptySeq, ElementOfSeq
<1> DEFINE a == SubSeq(us, 1, Len(us) - 1)
<1>2. /\ a \in Seq(S) /\ Len(a) = IF 1 <= Len(us) - 1 THEN (Len(us) - 1) - 1 + 1 ELSE 0
      /\ \A j \in 1..((Len(us) - 1) - 1 + 1) : a[j] = us[1 + j - 1]
  <2>1. 1 \in Int /\ Len(us) - 1 \in Int /\ \A j \in 1..(Len(us) - 1) : us[j] \in S
    BY <1>1
  <2> HIDE DEF a
  <2> QED BY <2>1, SubSeqProperties DEF a
<1> HIDE DEF a
<1>3. Len(a) = Len(us) - 1
  <2>1. Len(a) = IF 1 <= Len(us) - 1 THEN (Len(us) - 1) - 1 + 1 ELSE 0
    BY <1>2
  <2> DEFINE n == Len(us)
  <2>2. n \in Nat /\ n # 0
    BY <1>1
  <2>3. Len(a) = IF 1 <= n - 1 THEN (n - 1) - 1 + 1 ELSE 0
    BY <2>1
  <2>4. Len(a) = n - 1
    <3> HIDE DEF n
    <3>1. CASE 1 <= n - 1
      BY <2>2, <2>3, <3>1
    <3>2. CASE ~(1 <= n - 1)
      <4>1. n = 1
        BY <2>2, <3>2
      <4> QED BY <2>3, <3>2, <4>1
    <3> QED BY <3>1, <3>2
  <2> QED BY <2>4
<1>4. \A j \in 1..Len(a) : a[j] = IF j < Len(us) THEN us[j] ELSE us[j + 1]
  <2> SUFFICES ASSUME NEW j \in 1..Len(a)
               PROVE  a[j] = IF j < Len(us) THEN us[j] ELSE us[j + 1]
    OBVIOUS
  <2>1. j \in 1..((Len(us) - 1) - 1 + 1) /\ 1 + j - 1 = j /\ j < Len(us)
    BY <1>1, <1>3
  <2> QED BY <1>2, <2>1
<1>5. Len(us) \in 1..Len(us)
  BY <1>1
<1> QED
  BY <1>2, <1>3, <1>4, <1>5 DEF Front, IsCut, a

\* A key put in front.
LEMMA ConsFronted ==
    ASSUME NEW S, NEW us \in Seq(S), NEW k \in S
    PROVE  <<k>> \o us \in Seq(S) /\ IsFronted(<<k>> \o us, us, k)
<1>1. Len(us) \in Nat
  BY LenProperties
<1> DEFINE a == <<k>>
           r == a \o us
<1>2. a \in Seq(S) /\ Len(a) = 1 /\ a[1] = k
  OBVIOUS
<1> HIDE DEF a
<1>3. /\ r \in Seq(S) /\ Len(r) = Len(a) + Len(us)
      /\ \A j \in 1..(Len(a) + Len(us)) : r[j] = IF j <= Len(a) THEN a[j] ELSE us[j - Len(a)]
  BY <1>2, ConcatProperties
<1> HIDE DEF r
<1>4. Len(r) = Len(us) + 1 /\ r[1] = k
  BY <1>1, <1>2, <1>3
<1>5. ASSUME NEW j \in 2..Len(r) PROVE r[j] = us[j - 1]
  <2>1. j \in 1..(Len(a) + Len(us)) /\ ~(j <= Len(a)) /\ Len(a) = 1
    BY <1>1, <1>2, <1>4
  <2> QED BY <1>3, <2>1
<1>6. IsFronted(r, us, k)
  BY <1>4, <1>5 DEF IsFronted
<1> QED
  BY <1>3, <1>6 DEF r, a

\* What the map makes of the keys is a sequence of elements.
LEMMA EltsSeq ==
    ASSUME NEW us, Len(us) \in Nat, NEW its, \A i \in 1..Len(us) : its[us[i]] \in Elems
    PROVE  /\ EltsOf(us, its) \in Seq(Elems) /\ Len(EltsOf(us, its)) = Len(us)
           /\ \A i \in 1..Len(us) : EltsOf(us, its)[i] = its[us[i]]
<1>1. EltsOf(us, its) \in Seq(Elems)
  BY IsASeq DEF EltsOf
<1>2. Len(EltsOf(us, its)) = Len(us)
  BY <1>1, LenProperties DEF EltsOf
<1> QED
  BY <1>1, <1>2 DEF EltsOf

\* It is cut where the keys are.
LEMMA EltsCut ==
    ASSUME NEW us, Len(us) \in Nat, NEW i \in 1..Len(us), NEW vs, IsCut(vs, us, i),
           NEW its, \A j \in 1..Len(us) : its[us[j]] \in Elems,
           NEW jts, \A j \in 1..Len(vs) : jts[vs[j]] = its[vs[j]]
    PROVE  /\ EltsOf(vs, jts) \in Seq(Elems)
           /\ IsCut(EltsOf(vs, jts), EltsOf(us, its), i)
<1>1. Len(vs) = Len(us) - 1 /\ Len(vs) \in Nat
  BY DEF IsCut
<1>2. ASSUME NEW j \in 1..Len(vs)
      PROVE  jts[vs[j]] \in Elems /\ jts[vs[j]] = IF j < i THEN its[us[j]] ELSE its[us[j + 1]]
  <2>1. j \in 1..Len(us) /\ j + 1 \in 1..Len(us)
    BY <1>1
  <2>2. vs[j] = IF j < i THEN us[j] ELSE us[j + 1]
    BY DEF IsCut
  <2> QED BY <2>1, <2>2
<1>3. /\ EltsOf(us, its) \in Seq(Elems) /\ Len(EltsOf(us, its)) = Len(us)
      /\ \A j \in 1..Len(us) : EltsOf(us, its)[j] = its[us[j]]
  BY EltsSeq
<1>4. /\ EltsOf(vs, jts) \in Seq(Elems) /\ Len(EltsOf(vs, jts)) = Len(vs)
      /\ \A j \in 1..Len(vs) : EltsOf(vs, jts)[j] = jts[vs[j]]
  BY <1>1, <1>2, EltsSeq
<1>5. ASSUME NEW j \in 1..Len(vs)
      PROVE  EltsOf(vs, jts)[j] = IF j < i THEN EltsOf(us, its)[j] ELSE EltsOf(us, its)[j + 1]
  <2>1. j \in 1..Len(us) /\ j + 1 \in 1..Len(us)
    BY <1>1
  <2> QED BY <1>2, <1>3, <1>4, <2>1
<1> QED
  BY <1>1, <1>3, <1>4, <1>5 DEF IsCut

\* It has a new front where the keys have one.
LEMMA EltsFronted ==
    ASSUME NEW us, Len(us) \in Nat, NEW k, NEW vs, IsFronted(vs, us, k),
           NEW its, \A j \in 1..Len(us) : its[us[j]] \in Elems,
           NEW jts, \A j \in 1..Len(us) : jts[us[j]] = its[us[j]], jts[k] \in Elems
    PROVE  /\ EltsOf(vs, jts) \in Seq(Elems)
           /\ IsFronted(EltsOf(vs, jts), EltsOf(us, its), jts[k])
<1>1. Len(vs) = Len(us) + 1 /\ Len(vs) \in Nat /\ vs[1] = k /\ 1 \in 1..Len(vs)
  BY DEF IsFronted
<1>2. \A j \in 2..Len(vs) : j - 1 \in 1..Len(us) /\ j \in 1..Len(vs) /\ vs[j] = us[j - 1]
  BY <1>1 DEF IsFronted
<1>3. \A j \in 1..Len(vs) : j = 1 \/ j \in 2..Len(vs)
  BY <1>1
<1>4. \A j \in 1..Len(vs) : jts[vs[j]] \in Elems
  BY <1>1, <1>2, <1>3
<1>5. /\ EltsOf(us, its) \in Seq(Elems) /\ Len(EltsOf(us, its)) = Len(us)
      /\ \A j \in 1..Len(us) : EltsOf(us, its)[j] = its[us[j]]
  BY EltsSeq
<1>6. /\ EltsOf(vs, jts) \in Seq(Elems) /\ Len(EltsOf(vs, jts)) = Len(vs)
      /\ \A j \in 1..Len(vs) : EltsOf(vs, jts)[j] = jts[vs[j]]
  BY <1>1, <1>4, EltsSeq
<1> QED
  BY <1>1, <1>2, <1>5, <1>6 DEF IsFronted

-----------------------------------------------------------------------------
(* The map, the list and the items together                                *)

\* The keys us in order of last use are those of the map its, each once; the list l
\* represents their elements, and each element holds the item of its key.
IsCache(us, its, l, it) ==
    /\ us \in Seq(Keys) /\ Distinct(us)
    /\ its \in [Keys -> Elems \union {Nil}] /\ l \in Lists
    /\ \A k \in Keys : its[k] # Nil <=> Has(us, k)
    /\ Represents(l, EltsOf(us, its))
    /\ \A k \in Keys : its[k] # Nil => it[its[k]] \in Item /\ it[its[k]].key = k

\* What follows for the keys in use, their elements and the marks of the list.
LEMMA CacheParts ==
    ASSUME NEW us, NEW its, NEW l, NEW it, IsCache(us, its, l, it)
    PROVE  /\ us \in Seq(Keys) /\ Len(us) \in Nat /\ Distinct(us) /\ l \in Lists
           /\ \A i \in 1..Len(us) : us[i] \in Keys /\ its[us[i]] \in Elems /\ Has(us, us[i])
           /\ EltsOf(us, its) \in Seq(Elems) /\ Len(EltsOf(us, its)) = Len(us)
           /\ \A i \in 1..Len(us) : EltsOf(us, its)[i] = its[us[i]]
           /\ Represents(l, EltsOf(us, its))
           /\ \A e \in Elems : l.owned[e] <=> \E k \in Keys : its[k] = e
<1>1. /\ us \in Seq(Keys) /\ Distinct(us) /\ its \in [Keys -> Elems \union {Nil}] /\ l \in Lists
      /\ \A k \in Keys : its[k] # Nil <=> Has(us, k)
      /\ Represents(l, EltsOf(us, its))
  BY DEF IsCache
<1>2. Len(us) \in Nat /\ \A i \in 1..Len(us) : us[i] \in Keys
  BY <1>1, LenProperties, ElementOfSeq
<1>3. \A i \in 1..Len(us) : Has(us, us[i])
  BY DEF Has
<1>4. \A i \in 1..Len(us) : its[us[i]] \in Elems
  BY <1>1, <1>2, <1>3
<1>5. /\ EltsOf(us, its) \in Seq(Elems) /\ Len(EltsOf(us, its)) = Len(us)
      /\ \A i \in 1..Len(us) : EltsOf(us, its)[i] = its[us[i]]
  BY <1>2, <1>4, EltsSeq
<1>6. ASSUME NEW e \in Elems PROVE l.owned[e] <=> \E k \in Keys : its[k] = e
  <2>1. l.owned[e] <=> \E i \in 1..Len(us) : its[us[i]] = e
    BY <1>1, <1>5, RepParts
  <2>2. ASSUME NEW k \in Keys, its[k] = e PROVE \E i \in 1..Len(us) : its[us[i]] = e
    <3>1. Has(us, k)
      BY <1>1, <2>2, CacheAssumption
    <3> QED BY <2>2, <3>1 DEF Has
  <2> QED BY <1>2, <2>1, <2>2
<1> QED
  BY <1>1, <1>2, <1>3, <1>4, <1>5, <1>6

\* A key leaves the cache: its place i is cut out of us.
LEMMA RemoveCache ==
    ASSUME NEW us, NEW its, NEW l, NEW it, IsCache(us, its, l, it), NEW i \in 1..Len(us),
           NEW vs \in Seq(Keys), IsCut(vs, us, i)
    PROVE  IsCache(vs, [its EXCEPT ![us[i]] = Nil], RemoveElem(l, its[us[i]]), it)
<1> DEFINE jts == [its EXCEPT ![us[i]] = Nil]
           q == EltsOf(us, its)
           r == EltsOf(vs, jts)
<1>1. /\ us \in Seq(Keys) /\ Len(us) \in Nat /\ Distinct(us) /\ l \in Lists
      /\ \A j \in 1..Len(us) : us[j] \in Keys /\ its[us[j]] \in Elems /\ Has(us, us[j])
      /\ q \in Seq(Elems) /\ Len(q) = Len(us) /\ q[i] = its[us[i]]
      /\ Represents(l, q)
  BY CacheParts
<1>2. /\ its \in [Keys -> Elems \union {Nil}]
      /\ \A k \in Keys : its[k] # Nil <=> Has(us, k)
      /\ \A k \in Keys : its[k] # Nil => it[its[k]] \in Item /\ it[its[k]].key = k
  BY DEF IsCache
<1>3. Distinct(vs) /\ \A k : Has(vs, k) <=> Has(us, k) /\ k # us[i]
  BY <1>1, CutDistinct
<1>4. /\ jts \in [Keys -> Elems \union {Nil}] /\ jts[us[i]] = Nil
      /\ \A k \in Keys : k # us[i] => jts[k] = its[k]
  BY <1>1, <1>2
<1> HIDE DEF jts
<1>5. \A j \in 1..Len(vs) : vs[j] \in Keys /\ Has(vs, vs[j])
  BY ElementOfSeq DEF Has
<1>6. \A j \in 1..Len(vs) : jts[vs[j]] = its[vs[j]]
  BY <1>3, <1>4, <1>5
<1>7. r \in Seq(Elems) /\ IsCut(r, q, i)
  BY <1>1, <1>6, EltsCut
<1> HIDE DEF q, r
<1>8. RemoveElem(l, q[i]) \in Lists /\ Represents(RemoveElem(l, q[i]), r)
  BY <1>1, <1>7, RemoveRep
<1>9. \A k \in Keys : jts[k] # Nil <=> Has(vs, k)
  BY <1>1, <1>2, <1>3, <1>4
<1>10. \A k \in Keys : jts[k] # Nil => it[jts[k]] \in Item /\ it[jts[k]].key = k
  BY <1>1, <1>2, <1>4
<1>11. IsCache(vs, jts, RemoveElem(l, its[us[i]]), it)
  BY <1>1, <1>3, <1>4, <1>8, <1>9, <1>10 DEF IsCache, r
<1> QED
  BY <1>11 DEF jts

\* A cached key is used again.
LEMMA MoveCache ==
    ASSUME NEW us, NEW its, NEW l, NEW it, IsCache(us, its, l, it), NEW i \in 1..Len(us)
    PROVE  IsCache(<<us[i]>> \o RemoveFirst(us, us[i]), its, MoveToFront(l, its[us[i]]), it)
<1> DEFINE vs == RemoveFirst(us, us[i])
           ws == <<us[i]>> \o vs
           q == EltsOf(us, its)
           r == EltsOf(vs, its)
           s == EltsOf(ws, its)
<1>1. /\ us \in Seq(Keys) /\ Len(us) \in Nat /\ Distinct(us) /\ l \in Lists
      /\ \A j \in 1..Len(us) : us[j] \in Keys /\ its[us[j]] \in Elems /\ Has(us, us[j])
      /\ q \in Seq(Elems) /\ Len(q) = Len(us) /\ q[i] = its[us[i]]
      /\ Represents(l, q)
  BY CacheParts
<1>2. /\ its \in [Keys -> Elems \union {Nil}]
      /\ \A k \in Keys : its[k] # Nil <=> Has(us, k)
      /\ \A k \in Keys : its[k] # Nil => it[its[k]] \in Item /\ it[its[k]].key = k
  BY DEF IsCache
<1>3. vs \in Seq(Keys) /\ IsCut(vs, us, i)
  BY <1>1, RemoveFirstCut
<1> HIDE DEF vs
<1>4. Distinct(vs) /\ \A k : Has(vs, k) <=> Has(us, k) /\ k # us[i]
  BY <1>1, <1>3, CutDistinct
<1>5. ws \in Seq(Keys) /\ IsFronted(ws, vs, us[i])
  BY <1>1, <1>3, ConsFronted
<1> HIDE DEF ws
<1>6. Len(vs) \in Nat /\ ~Has(vs, us[i])
  BY <1>3, <1>4, LenProperties
<1>7. Distinct(ws) /\ \A k : Has(ws, k) <=> Has(vs, k) \/ k = us[i]
  BY <1>4, <1>5, <1>6, FrontedDistinct
<1>8. r \in Seq(Elems) /\ IsCut(r, q, i)
  BY <1>1, <1>3, EltsCut
<1>9. \A j \in 1..Len(vs) : its[vs[j]] \in Elems
  <2> SUFFICES ASSUME NEW j \in 1..Len(vs) PROVE its[vs[j]] \in Elems
    OBVIOUS
  <2>1. vs[j] \in Keys /\ Has(vs, vs[j])
    BY <1>3, ElementOfSeq DEF Has
  <2>2. its[vs[j]] # Nil
    BY <1>2, <1>4, <2>1
  <2> QED BY <1>2, <2>1, <2>2
<1>10. s \in Seq(Elems) /\ IsFronted(s, r, its[us[i]])
  BY <1>1, <1>5, <1>6, <1>9, EltsFronted
<1> HIDE DEF q, r, s
<1>11. MoveToFront(l, q[i]) \in Lists /\ Represents(MoveToFront(l, q[i]), s)
  BY <1>1, <1>8, <1>10, MoveRep
<1>12. \A k \in Keys : its[k] # Nil <=> Has(ws, k)
  BY <1>1, <1>2, <1>4, <1>7
<1>13. IsCache(ws, its, MoveToFront(l, its[us[i]]), it)
  BY <1>1, <1>2, <1>5, <1>7, <1>11, <1>12 DEF IsCache, s
<1> QED
  BY <1>13 DEF ws, vs

\* A new key with an element that the list does not own.
LEMMA PushCache ==
    ASSUME NEW us, NEW its, NEW l, NEW it \in [Elems -> Item \union {Nil}],
           IsCache(us, its, l, it), NEW k \in Keys, its[k] = Nil, NEW e \in Elems,
           ~l.owned[e], NEW new \in Item, new.key = k
    PROVE  IsCache(<<k>> \o us, [its EXCEPT ![k] = e], PushFront(l, e), [it EXCEPT ![e] = new])
<1> DEFINE jts == [its EXCEPT ![k] = e]
           jt == [it EXCEPT ![e] = new]
           vs == <<k>> \o us
           q == EltsOf(us, its)
           r == EltsOf(vs, jts)
<1>1. /\ us \in Seq(Keys) /\ Len(us) \in Nat /\ Distinct(us) /\ l \in Lists
      /\ \A j \in 1..Len(us) : us[j] \in Keys /\ its[us[j]] \in Elems /\ Has(us, us[j])
      /\ q \in Seq(Elems) /\ Len(q) = Len(us)
      /\ Represents(l, q)
      /\ \A x \in Elems : l.owned[x] <=> \E j \in Keys : its[j] = x
  BY CacheParts
<1>2. /\ its \in [Keys -> Elems \union {Nil}]
      /\ \A j \in Keys : its[j] # Nil <=> Has(us, j)
      /\ \A j \in Keys : its[j] # Nil => it[its[j]] \in Item /\ it[its[j]].key = j
  BY DEF IsCache
<1>3. ~Has(us, k) /\ \A j \in Keys : its[j] # e
  BY <1>1, <1>2
<1>4. vs \in Seq(Keys) /\ IsFronted(vs, us, k)
  BY <1>1, ConsFronted
<1> HIDE DEF vs
<1>5. Distinct(vs) /\ \A j : Has(vs, j) <=> Has(us, j) \/ j = k
  BY <1>1, <1>3, <1>4, FrontedDistinct
<1>6. /\ jts \in [Keys -> Elems \union {Nil}] /\ jts[k] = e
      /\ \A j \in Keys : j # k => jts[j] = its[j]
  BY <1>2
<1>7. jt[e] = new /\ \A x \in Elems : x # e => jt[x] = it[x]
  OBVIOUS
<1> HIDE DEF jts, jt
<1>8. \A j \in 1..Len(us) : jts[us[j]] = its[us[j]]
  BY <1>1, <1>3, <1>6
<1>9. r \in Seq(Elems) /\ IsFronted(r, q, e)
  BY <1>1, <1>4, <1>6, <1>8, EltsFronted
<1> HIDE DEF q, r
<1>10. PushFront(l, e) \in Lists /\ Represents(PushFront(l, e), r)
  BY <1>1, <1>9, PushRep
<1>11. e # Nil
  BY CacheAssumption
<1>12. \A j \in Keys : jts[j] # Nil <=> Has(vs, j)
  BY <1>2, <1>5, <1>6, <1>11
<1>13. ASSUME NEW j \in Keys, jts[j] # Nil
       PROVE  jt[jts[j]] \in Item /\ jt[jts[j]].key = j
  <2>1. CASE j = k
    BY <1>6, <1>7, <2>1
  <2>2. CASE j # k
    <3>1. jts[j] = its[j] /\ its[j] \in Elems /\ its[j] # e
      BY <1>2, <1>3, <1>6, <1>13, <2>2
    <3> QED BY <1>2, <1>7, <1>13, <3>1
  <2> QED BY <2>1, <2>2
<1>14. IsCache(vs, jts, PushFront(l, e), jt)
  BY <1>4, <1>5, <1>6, <1>10, <1>12, <1>13 DEF IsCache, r
<1> QED
  BY <1>14 DEF vs, jts, jt

\* Items may change in everything but their key.
LEMMA ItemsCache ==
    ASSUME NEW us, NEW its, NEW l, NEW it, NEW jt, IsCache(us, its, l, it),
           \A e \in Elems : it[e] \in Item => jt[e] \in Item /\ jt[e].key = it[e].key
    PROVE  IsCache(us, its, l, jt)
<1>1. ASSUME NEW k \in Keys, its[k] # Nil
      PROVE  jt[its[k]] \in Item /\ jt[its[k]].key = k
  <2>1. its[k] \in Elems /\ it[its[k]] \in Item /\ it[its[k]].key = k
    BY <1>1 DEF IsCache
  <2> QED BY <2>1
<1> QED
  BY <1>1 DEF IsCache

-----------------------------------------------------------------------------
(* Memory                                                                  *)

\* Everything in a set of nodes is reachable from it, and nothing else is if no
\* pointer leaves it.
LEMMA ReachableFacts ==
    ASSUME NEW l, NEW S \in SUBSET Nodes
    PROVE  /\ S \subseteq Reachable(l, S)
           /\ (\A x \in S : l.next[x] \in S \union {Nil} /\ l.prev[x] \in S \union {Nil})
                => Reachable(l, S) \subseteq S
<1>1. S \subseteq Reachable(l, S)
  BY DEF Reachable, Nodes
<1>2. ASSUME \A x \in S : l.next[x] \in S \union {Nil} /\ l.prev[x] \in S \union {Nil}
      PROVE  Reachable(l, S) \subseteq S
  <2> DEFINE closed == {T \in SUBSET (Elems \union {Root}) :
                          S \subseteq T /\ \A x \in T : {l.next[x], l.prev[x]} \subseteq T \union {Nil}}
  <2>1. S \in closed
    BY <1>2 DEF Nodes
  <2>2. Reachable(l, S) = {x \in Elems \union {Root} : \A T \in closed : x \in T}
    BY DEF Reachable
  <2> HIDE DEF closed
  <2> QED BY <2>1, <2>2
<1> QED
  BY <1>1, <1>2

-----------------------------------------------------------------------------
(* The invariant                                                           *)

TypeInv ==
    /\ items \in [Keys -> Elems \union {Nil}]
    /\ order \in Lists
    /\ item \in [Elems -> Item \union {Nil}]
    /\ pc \in [Clients -> Points]
    /\ key \in [Clients -> Keys \union {Nil}]
    /\ elem \in [Clients -> Elems \union {Nil}]
    /\ tag \in [Clients -> BOOLEAN]
    /\ sweep \in SUBSET Keys
    /\ panicked = FALSE

\* The map, the list and the items belong together and hold no more than fits;
\* Cleanup only has keys of the map to visit.
CacheInv ==
    /\ IsCache(used, items, order, item)
    /\ Len(used) <= MaxEntries
    /\ \A k \in sweep : items[k] # Nil

\* A Get between its two phases holds an element with the item of its key, though
\* perhaps no longer the element that the key has; nobody else holds one.
ClientOK(p, k, e, it) ==
    /\ p # "idle" => k \in Keys
    /\ p \in {"inspect", "drop", "touch"} => e \in Elems /\ it[e] \in Item /\ it[e].key = k
    /\ p \in {"idle", "missed", "store"} => e = Nil

ClientsInv == \A c \in Clients : ClientOK(pc[c], key[c], elem[c], item)

Inv == TypeInv /\ CacheInv /\ ClientsInv

\* The elements of the map are those of the keys in use.
LEMMA MapElements ==
    ASSUME Inv
    PROVE  /\ Len(used) \in Nat /\ Cached = {k \in Keys : Has(used, k)}
           /\ {items[k] : k \in Cached} \subseteq Elems
           /\ \A x \in {items[k] : k \in Cached} : \E i \in 1..Len(used) : items[used[i]] = x
           /\ \A i \in 1..Len(used) : used[i] \in Cached /\ items[used[i]] \in Elems
<1>1. /\ Len(used) \in Nat
      /\ \A i \in 1..Len(used) : used[i] \in Keys /\ items[used[i]] \in Elems /\ Has(used, used[i])
      /\ \A k \in Keys : items[k] # Nil <=> Has(used, k)
      /\ items \in [Keys -> Elems \union {Nil}]
  BY CacheParts DEF Inv, CacheInv, TypeInv, IsCache
<1>2. Cached = {k \in Keys : Has(used, k)}
  BY <1>1 DEF Cached
<1>3. ASSUME NEW k \in Cached
      PROVE  items[k] \in Elems /\ \E i \in 1..Len(used) : items[used[i]] = items[k]
  <2>1. k \in Keys /\ items[k] \in Elems /\ Has(used, k)
    BY <1>1 DEF Cached
  <2> QED BY <2>1 DEF Has
<1>4. \A i \in 1..Len(used) : used[i] \in Cached
  BY <1>1, <1>2
<1> QED
  BY <1>1, <1>2, <1>3, <1>4

\* A new element is in nobody's hands: not in the map, not in the list, not held by
\* a Get.
LEMMA FreshFacts ==
    ASSUME Inv, NEW e \in Fresh
    PROVE  /\ e \in Elems /\ ~order.owned[e]
           /\ \A k \in Keys : items[k] # e
           /\ \A c \in Clients : elem[c] # e
<1> DEFINE S == {Root} \union {items[k] : k \in Cached} \union Held
<1>1. S \in SUBSET Nodes
  <2>1. Held \subseteq Elems
    BY DEF Held, Inv, TypeInv
  <2> QED BY <2>1, MapElements DEF Nodes
<1>2. e \in Elems /\ e \notin Reachable(order, S)
  BY DEF Fresh
<1>3. S \subseteq Reachable(order, S)
  <2> HIDE DEF S
  <2> QED BY <1>1, ReachableFacts
<1>4. e \notin S
  BY <1>2, <1>3
<1>5. \A k \in Keys : items[k] # e
  BY <1>2, <1>4, CacheAssumption DEF Cached
<1>6. \A c \in Clients : elem[c] # e
  BY <1>2, <1>4, CacheAssumption DEF Held
<1>7. ~order.owned[e]
  BY <1>2, <1>5, CacheParts DEF Inv, CacheInv
<1> QED
  BY <1>2, <1>5, <1>6, <1>7

\* What pointers reach is what the map and the Gets hold.
LEMMA OnlyHeldReachable ==
    ASSUME Inv
    PROVE  Elems \ ({items[k] : k \in Cached} \union Held) \subseteq Fresh
<1> DEFINE M == {items[k] : k \in Cached}
           S == {Root} \union M \union Held
           q == EltsOf(used, items)
<1>1. Held \subseteq Elems /\ M \subseteq Elems
  <2>1. Held \subseteq Elems
    BY DEF Held, Inv, TypeInv
  <2> QED BY <2>1, MapElements
<1>2. /\ q \in Seq(Elems) /\ Len(q) = Len(used) /\ order \in Lists /\ Represents(order, q)
      /\ \A i \in 1..Len(used) : q[i] = items[used[i]]
      /\ \A e \in Elems : order.owned[e] <=> \E k \in Keys : items[k] = e
  BY CacheParts DEF Inv, CacheInv
<1>3. /\ Ring(order.next, order.prev, q)
      /\ \A e \in Elems : order.owned[e] <=> \E i \in 1..Len(q) : q[i] = e
      /\ \A e \in Elems : ~order.owned[e] => order.next[e] = Nil /\ order.prev[e] = Nil
  BY <1>2, RepParts
<1>4. Len(q) \in Nat /\ At(q, 0) = Root /\ At(q, Len(q) + 1) = Root
  BY <1>2, AtFacts
<1>5. \A j : At(q, j) \in S
  <2>1. \A i \in 1..Len(q) : q[i] \in M
    BY <1>2, MapElements
  <2> HIDE DEF M, q
  <2> QED BY <2>1 DEF At
<1> HIDE DEF q
<1>6. ASSUME NEW j \in 0..(Len(q) + 1)
      PROVE  order.next[At(q, j)] \in S /\ order.prev[At(q, j)] \in S
  <2> HIDE DEF S
  <2>1. order.next[At(q, j)] \in S
    <3>1. CASE j \in 0..Len(q)
      BY <1>3, <1>5, <3>1 DEF Ring
    <3>2. CASE j = Len(q) + 1
      <4>1. 0 \in 0..Len(q) /\ At(q, j) = At(q, 0)
        BY <1>4, <3>2
      <4> QED BY <1>3, <1>5, <4>1 DEF Ring
    <3> QED BY <1>4, <3>1, <3>2
  <2>2. order.prev[At(q, j)] \in S
    <3>1. CASE j - 1 \in 0..Len(q)
      <4>1. (j - 1) + 1 = j
        BY <1>4
      <4>2. order.prev[At(q, (j - 1) + 1)] = At(q, j - 1)
        BY <1>3, <3>1 DEF Ring
      <4> QED BY <1>5, <4>1, <4>2
    <3>2. CASE j = 0
      <4>1. Len(q) \in 0..Len(q) /\ At(q, j) = At(q, Len(q) + 1)
        BY <1>4, <3>2
      <4> QED BY <1>3, <1>5, <4>1 DEF Ring
    <3> QED BY <1>4, <3>1, <3>2
  <2> QED BY <2>1, <2>2
<1>7. ASSUME NEW x \in S
      PROVE  order.next[x] \in S \union {Nil} /\ order.prev[x] \in S \union {Nil}
  <2>1. CASE x = Root
    <3>1. 0 \in 0..(Len(q) + 1)
      BY <1>4
    <3> QED BY <1>4, <1>6, <2>1, <3>1
  <2>2. CASE x \in Elems /\ order.owned[x]
    <3>1. PICK i \in 1..Len(q) : q[i] = x
      BY <1>3, <2>2
    <3>2. i \in 0..(Len(q) + 1) /\ At(q, i) = x
      BY <1>4, <3>1 DEF At
    <3> HIDE DEF S
    <3> QED BY <1>6, <3>2
  <2>3. CASE x \in Elems /\ ~order.owned[x]
    BY <1>3, <2>3
  <2> QED BY <1>1, <2>1, <2>2, <2>3
<1>8. Reachable(order, S) \subseteq S
  <2>1. S \in SUBSET Nodes
    BY <1>1 DEF Nodes
  <2> HIDE DEF S
  <2> QED BY <1>7, <2>1, ReachableFacts
<1>9. Fresh = Elems \ Reachable(order, S)
  BY DEF Fresh
<1> QED
  BY <1>8, <1>9, CacheAssumption

\* The keys in use bound the elements of the map and the map itself.
LEMMA MapBound ==
    ASSUME Inv
    PROVE  /\ IsFiniteSet(Cached) /\ Cardinality(Cached) <= MaxEntries
           /\ IsFiniteSet({items[k] : k \in Cached})
           /\ Cardinality({items[k] : k \in Cached}) <= MaxEntries
<1> DEFINE M == {items[k] : k \in Cached}
           n == Len(used)
           f == [i \in 1..n |-> used[i]]
           g == [i \in 1..n |-> items[used[i]]]
<1>1. /\ n \in Nat /\ n <= MaxEntries /\ MaxEntries \in Nat
      /\ Cached = {k \in Keys : Has(used, k)}
      /\ \A x \in M : \E i \in 1..n : items[used[i]] = x
      /\ \A i \in 1..n : used[i] \in Cached
  BY MapElements, CacheAssumption DEF Inv, CacheInv
<1>2. IsFiniteSet(1..n) /\ Cardinality(1..n) = n
  <2>1. 1 \in Int /\ n \in Int
    BY <1>1
  <2>2. IsFiniteSet(1..n) /\ Cardinality(1..n) = IF 1 > n THEN 0 ELSE n - 1 + 1
    <3> HIDE DEF n
    <3> QED BY <2>1, FS_Interval
  <2> HIDE DEF n
  <2> QED BY <1>1, <2>2
<1>3. f \in Surjection(1..n, Cached)
  <2>1. f \in [1..n -> Cached]
    BY <1>1
  <2>2. \A k \in Cached : \E i \in 1..n : f[i] = k
    BY <1>1 DEF Has
  <2> HIDE DEF f, n
  <2> QED BY <2>1, <2>2 DEF Surjection
<1>4. g \in Surjection(1..n, M)
  <2>1. g \in [1..n -> M]
    BY <1>1
  <2>2. \A x \in M : \E i \in 1..n : g[i] = x
    BY <1>1
  <2> HIDE DEF g, n, M
  <2> QED BY <2>1, <2>2 DEF Surjection
<1> HIDE DEF f, g, n, M
<1>5. IsFiniteSet(Cached) /\ Cardinality(Cached) <= n
  BY <1>2, <1>3, FS_Surjection
<1>6. IsFiniteSet(M) /\ Cardinality(M) <= n
  BY <1>2, <1>4, FS_Surjection
<1>7. Cardinality(Cached) \in Nat /\ Cardinality(M) \in Nat
  BY <1>5, <1>6, FS_CardinalityType
<1> QED
  BY <1>1, <1>5, <1>6, <1>7 DEF M

\* Memory is enough: a Put about to store finds an element that nothing reaches.
LEMMA FreshExists ==
    ASSUME Inv, NEW c \in Clients, pc[c] = "store"
    PROVE  Fresh # {}
<1> DEFINE M == {items[k] : k \in Cached}
           D == {d \in Clients : elem[d] # Nil}
           g == [d \in D |-> elem[d]]
<1>1. elem[c] = Nil
  BY DEF Inv, ClientsInv, ClientOK
<1>2. /\ IsFiniteSet(Clients \ {c})
      /\ Cardinality(Clients \ {c}) = Cardinality(Clients) - 1
  BY FS_RemoveElement, CacheAssumption
<1>3. D \in SUBSET (Clients \ {c})
  BY <1>1
<1>4. g \in Surjection(D, Held)
  <2>1. g \in [D -> Held]
    BY DEF Held
  <2>2. \A x \in Held : \E d \in D : g[d] = x
    BY DEF Held
  <2> HIDE DEF g, D
  <2> QED BY <2>1, <2>2 DEF Surjection
<1> HIDE DEF g, D
<1>5. IsFiniteSet(D) /\ Cardinality(D) <= Cardinality(Clients \ {c})
  BY <1>2, <1>3, FS_Subset
<1>6. IsFiniteSet(Held) /\ Cardinality(Held) <= Cardinality(D)
  BY <1>4, <1>5, FS_Surjection
<1>7. IsFiniteSet(M) /\ Cardinality(M) <= MaxEntries
  BY MapBound
<1> HIDE DEF M
<1>8. /\ IsFiniteSet(M \cup Held) /\ IsFiniteSet(M \cap Held)
      /\ Cardinality(M \cup Held) = Cardinality(M) + Cardinality(Held) - Cardinality(M \cap Held)
  BY <1>6, <1>7, FS_Union, FS_Intersection
<1>9. /\ Cardinality(M) \in Nat /\ Cardinality(Held) \in Nat /\ Cardinality(D) \in Nat
      /\ Cardinality(M \cap Held) \in Nat /\ Cardinality(M \cup Held) \in Nat
      /\ Cardinality(Clients) \in Nat /\ Cardinality(Elems) \in Nat
  BY <1>5, <1>6, <1>7, <1>8, FS_CardinalityType, CacheAssumption
<1>10. Cardinality(M \cup Held) < Cardinality(Elems)
  BY <1>2, <1>5, <1>6, <1>7, <1>8, <1>9, CacheAssumption
<1>11. ~(Elems \subseteq M \cup Held)
  <2> SUFFICES ASSUME Elems \in SUBSET (M \cup Held) PROVE FALSE
    OBVIOUS
  <2>1. Cardinality(Elems) <= Cardinality(M \cup Held)
    BY <1>8, FS_Subset
  <2> QED BY <1>9, <1>10, <2>1
<1> QED
  BY <1>11, OnlyHeldReachable DEF M

-----------------------------------------------------------------------------
(* The steps                                                               *)

\* The empty cache has the invariant.
LEMMA InitInv == Init => Inv
<1> SUFFICES ASSUME Init PROVE Inv
  OBVIOUS
<1>1. NewList \in Lists
  BY DEF NewList, Lists
<1>2. TypeInv
  BY <1>1 DEF Init, TypeInv, Points
<1>3. used \in Seq(Keys) /\ Len(used) = 0
  BY EmptySeq DEF Init
<1>4. Distinct(used) /\ \A k : ~Has(used, k)
  BY <1>3 DEF Distinct, Has
<1>5. EltsOf(used, items) \in Seq(Elems) /\ Len(EltsOf(used, items)) = 0
  BY <1>3, EltsSeq
<1>6. Represents(order, EltsOf(used, items))
  <2> DEFINE q == EltsOf(used, items)
  <2> HIDE DEF q
  <2>1. Len(q) = 0 /\ \A i : At(q, i) = Root
    BY <1>5 DEF q, At
  <2>2. /\ order.len = 0 /\ order.next[Root] = Root /\ order.prev[Root] = Root
        /\ \A e \in Elems : ~order.owned[e] /\ order.next[e] = Nil /\ order.prev[e] = Nil
    BY CacheAssumption DEF Init, NewList
  <2>3. Represents(order, q)
    BY <2>1, <2>2 DEF Represents
  <2> QED BY <2>3 DEF q
<1>7. IsCache(used, items, order, item)
  BY <1>2, <1>3, <1>4, <1>6 DEF Init, IsCache, TypeInv
<1>8. CacheInv
  BY <1>3, <1>7, CacheAssumption DEF CacheInv, Init
<1>9. ClientsInv
  BY DEF Init, ClientsInv, ClientOK
<1> QED
  BY <1>2, <1>8, <1>9 DEF Inv

\* A client that does not move is untouched by a change of items that keeps the key
\* of the one it holds.
LEMMA OtherClient ==
    ASSUME NEW p, NEW k, NEW e, NEW it, NEW jt, ClientOK(p, k, e, it),
           e \in Elems /\ it[e] \in Item => jt[e] \in Item /\ jt[e].key = it[e].key
    PROVE  ClientOK(p, k, e, jt)
BY DEF ClientOK

\* The clients but c stay where they are.
LEMMA ClientStep ==
    ASSUME Inv, NEW c \in Clients,
           \A d \in Clients \ {c} : pc'[d] = pc[d] /\ key'[d] = key[d] /\ elem'[d] = elem[d],
           \A d \in Clients \ {c} : elem[d] \in Elems /\ item[elem[d]] \in Item =>
             item'[elem[d]] \in Item /\ item'[elem[d]].key = item[elem[d]].key,
           ClientOK(pc'[c], key'[c], elem'[c], item')
    PROVE  ClientsInv'
<1> SUFFICES ASSUME NEW d \in Clients PROVE ClientOK(pc'[d], key'[d], elem'[d], item')
  BY DEF ClientsInv
<1>1. CASE d = c
  BY <1>1
<1>2. CASE d # c
  <2>1. ClientOK(pc[d], key[d], elem[d], item)
    BY DEF Inv, ClientsInv
  <2>2. ClientOK(pc[d], key[d], elem[d], item')
    BY <1>2, <2>1, OtherClient
  <2> QED BY <1>2, <2>2
<1> QED
  BY <1>1, <1>2

\* A request that is over.
LEMMA DoneFacts ==
    ASSUME Inv, NEW c \in Clients, Done(c)
    PROVE  /\ pc' \in [Clients -> Points] /\ key' \in [Clients -> Keys \union {Nil}]
           /\ elem' \in [Clients -> Elems \union {Nil}] /\ tag' \in [Clients -> BOOLEAN]
           /\ \A d \in Clients \ {c} : pc'[d] = pc[d] /\ key'[d] = key[d] /\ elem'[d] = elem[d]
           /\ ClientOK(pc'[c], key'[c], elem'[c], item')
<1>1. /\ pc' \in [Clients -> Points] /\ key' \in [Clients -> Keys \union {Nil}]
      /\ elem' \in [Clients -> Elems \union {Nil}] /\ tag' \in [Clients -> BOOLEAN]
  BY DEF Inv, TypeInv, Done, Go, Points
<1>2. \A d \in Clients \ {c} : pc'[d] = pc[d] /\ key'[d] = key[d] /\ elem'[d] = elem[d]
  BY DEF Inv, TypeInv, Done, Go
<1>3. pc'[c] = "idle" /\ elem'[c] = Nil
  BY DEF Inv, TypeInv, Done, Go
<1> QED
  BY <1>1, <1>2, <1>3 DEF ClientOK

\* A lookup hands out the element of its key, with the item of that key.
LEMMA GetLookupInv ==
    ASSUME Inv, NEW c \in Clients, NEW k \in Keys, GetLookup(c, k) PROVE Inv'
<1>1. TypeInv'
  BY DEF GetLookup, Inv, TypeInv, Go, Points
<1>2. CacheInv'
  BY DEF GetLookup, Inv, CacheInv
<1>3. /\ \A d \in Clients \ {c} : pc'[d] = pc[d] /\ key'[d] = key[d] /\ elem'[d] = elem[d]
      /\ pc'[c] = (IF items[k] = Nil THEN "missed" ELSE "inspect")
      /\ key'[c] = k /\ elem'[c] = items[k] /\ item' = item
  BY DEF GetLookup, Inv, TypeInv, Go
<1>4. ClientOK(pc'[c], key'[c], elem'[c], item')
  <2>1. items[k] # Nil => items[k] \in Elems /\ item[items[k]] \in Item /\ item[items[k]].key = k
    BY DEF Inv, CacheInv, IsCache
  <2> QED BY <1>3, <2>1 DEF ClientOK
<1>5. ClientsInv'
  BY <1>3, <1>4, ClientStep
<1> QED
  BY <1>1, <1>2, <1>5 DEF Inv

\* Reading the entry with no lock held changes nothing.
LEMMA GetInspectInv ==
    ASSUME Inv, NEW c \in Clients, GetInspect(c) PROVE Inv'
<1>1. TypeInv'
  BY DEF GetInspect, Inv, TypeInv, Go, Points
<1>2. CacheInv'
  BY DEF GetInspect, Inv, CacheInv
<1>3. /\ \A d \in Clients \ {c} : pc'[d] = pc[d] /\ key'[d] = key[d] /\ elem'[d] = elem[d]
      /\ pc[c] = "inspect" /\ pc'[c] \in {"drop", "touch"}
      /\ key'[c] = key[c] /\ elem'[c] = elem[c] /\ item' = item
  BY DEF GetInspect, Inv, TypeInv, Go
<1>4. ClientOK(pc'[c], key'[c], elem'[c], item')
  <2>1. ClientOK(pc[c], key[c], elem[c], item)
    BY DEF Inv, ClientsInv
  <2> QED BY <1>3, <2>1 DEF ClientOK
<1>5. ClientsInv'
  BY <1>3, <1>4, ClientStep
<1> QED
  BY <1>1, <1>2, <1>5 DEF Inv

\* remove: a key leaves the map and its element the list; nothing happens for a key
\* that is not there.
LEMMA RemoveKey ==
    ASSUME Inv, NEW k \in Keys,
           order' = IF items[k] = Nil THEN order ELSE RemoveElem(order, items[k]),
           items' = [items EXCEPT ![k] = Nil], used' = RemoveFirst(used, k), item' = item
    PROVE  /\ IsCache(used, items, order, item)' /\ Len(used') <= MaxEntries
           /\ order' \in Lists /\ items' \in [Keys -> Elems \union {Nil}]
           /\ \A j \in Keys : j # k => items'[j] = items[j]
<1>1. IsCache(used, items, order, item) /\ Len(used) <= MaxEntries
  BY DEF Inv, CacheInv
<1>2. /\ used \in Seq(Keys) /\ Distinct(used) /\ items \in [Keys -> Elems \union {Nil}]
      /\ \A j \in Keys : items[j] # Nil <=> Has(used, j)
  BY <1>1 DEF IsCache
<1>3. Len(used) \in Nat
  BY <1>2, LenProperties
<1>4. CASE items[k] = Nil
  <2>1. used' = used
    BY <1>2, <1>4, RemoveFirstNone
  <2>2. items' = items
    BY <1>2, <1>4
  <2> QED BY <1>1, <1>2, <1>4, <2>1, <2>2 DEF IsCache
<1>5. CASE items[k] # Nil
  <2>1. PICK i \in 1..Len(used) : used[i] = k
    BY <1>2, <1>5 DEF Has
  <2>2. used' \in Seq(Keys) /\ IsCut(used', used, i)
    BY <1>2, <2>1, RemoveFirstCut
  <2>3. IsCache(used', items', order', item)
    BY <1>1, <1>5, <2>1, <2>2, RemoveCache
  <2>4. Len(used') = Len(used) - 1
    BY <2>2 DEF IsCut
  <2>5. Len(used') <= MaxEntries
    BY <1>1, <1>3, <2>4, CacheAssumption
  <2>6. \A j \in Keys : j # k => items'[j] = items[j]
    BY <1>2
  <2> QED BY <2>3, <2>5, <2>6 DEF IsCache
<1> QED
  BY <1>4, <1>5

\* A Get that found its entry stale removes whatever its key has by now.
LEMMA GetDropInv ==
    ASSUME Inv, NEW c \in Clients, GetDrop(c) PROVE Inv'
<1>1. ClientOK(pc[c], key[c], elem[c], item) /\ pc[c] = "drop"
  BY DEF Inv, ClientsInv, GetDrop
<1>2. key[c] \in Keys
  BY <1>1 DEF ClientOK
<1>3. /\ IsCache(used, items, order, item)' /\ Len(used') <= MaxEntries
      /\ order' \in Lists /\ items' \in [Keys -> Elems \union {Nil}]
  BY <1>2, RemoveKey DEF GetDrop
<1>4. TypeInv'
  BY <1>3 DEF GetDrop, Inv, TypeInv, Go, Points
<1>5. CacheInv'
  BY <1>3 DEF GetDrop, Free, CacheInv
<1>6. /\ \A d \in Clients \ {c} : pc'[d] = pc[d] /\ key'[d] = key[d] /\ elem'[d] = elem[d]
      /\ pc'[c] = "missed" /\ key'[c] = key[c] /\ elem'[c] = Nil /\ item' = item
  BY DEF GetDrop, Inv, TypeInv, Go
<1>7. ClientOK(pc'[c], key'[c], elem'[c], item')
  BY <1>2, <1>6 DEF ClientOK
<1>8. ClientsInv'
  BY <1>6, <1>7, ClientStep
<1> QED
  BY <1>4, <1>5, <1>8 DEF Inv

\* The element that a Get holds is the one its key has by now, or not in the list.
LEMMA HeldElement ==
    ASSUME Inv, NEW c \in Clients, pc[c] = "touch"
    PROVE  /\ key[c] \in Keys /\ elem[c] \in Elems
           /\ order.owned[elem[c]] => items[key[c]] = elem[c]
<1>1. ClientOK(pc[c], key[c], elem[c], item)
  BY DEF Inv, ClientsInv
<1>2. /\ key[c] \in Keys /\ elem[c] \in Elems
      /\ item[elem[c]].key = key[c]
  BY <1>1 DEF ClientOK
<1>3. IsCache(used, items, order, item)
  BY DEF Inv, CacheInv
<1>4. ASSUME order.owned[elem[c]] PROVE items[key[c]] = elem[c]
  <2>1. PICK k \in Keys : items[k] = elem[c]
    BY <1>2, <1>3, <1>4, CacheParts
  <2>2. item[items[k]].key = k
    BY <1>2, <1>3, <2>1, CacheAssumption DEF IsCache
  <2> QED BY <1>2, <2>1, <2>2
<1> QED
  BY <1>2, <1>4

\* A cached key is used again.
LEMMA MoveKey ==
    ASSUME Inv, NEW k \in Keys, items[k] # Nil
    PROVE  /\ IsCache(<<k>> \o RemoveFirst(used, k), items, MoveToFront(order, items[k]), item)
           /\ Len(<<k>> \o RemoveFirst(used, k)) <= MaxEntries
<1>1. IsCache(used, items, order, item) /\ Len(used) <= MaxEntries
  BY DEF Inv, CacheInv
<1>2. /\ used \in Seq(Keys) /\ Distinct(used)
      /\ \A j \in Keys : items[j] # Nil <=> Has(used, j)
  BY <1>1 DEF IsCache
<1>3. Len(used) \in Nat
  BY <1>2, LenProperties
<1>4. PICK i \in 1..Len(used) : used[i] = k
  BY <1>2 DEF Has
<1>5. IsCache(<<k>> \o RemoveFirst(used, k), items, MoveToFront(order, items[k]), item)
  BY <1>1, <1>4, MoveCache
<1> DEFINE vs == RemoveFirst(used, k)
<1>6. vs \in Seq(Keys) /\ IsCut(vs, used, i)
  BY <1>2, <1>4, RemoveFirstCut
<1> HIDE DEF vs
<1>7. Len(vs) = Len(used) - 1
  BY <1>6 DEF IsCut
<1>8. IsFronted(<<k>> \o vs, vs, k)
  BY <1>6, ConsFronted
<1>9. Len(<<k>> \o vs) = Len(vs) + 1
  BY <1>8 DEF IsFronted
<1>10. Len(<<k>> \o vs) <= MaxEntries
  BY <1>1, <1>3, <1>7, <1>9
<1> QED
  BY <1>5, <1>10 DEF vs

\* A hit refreshes its element, or nothing when the element has left the list meanwhile.
LEMMA GetTouchInv ==
    ASSUME Inv, NEW c \in Clients, GetTouch(c) PROVE Inv'
<1>1. /\ key[c] \in Keys /\ elem[c] \in Elems
      /\ order.owned[elem[c]] => items[key[c]] = elem[c]
  BY HeldElement DEF GetTouch
<1>2. IsCache(used', items, order', item) /\ Len(used') <= MaxEntries
  <2>1. CASE items[key[c]] = elem[c]
    <3>1. items[key[c]] # Nil
      BY <1>1, <2>1, CacheAssumption
    <3>2. /\ order' = MoveToFront(order, items[key[c]])
          /\ used' = <<key[c]>> \o RemoveFirst(used, key[c])
      BY <2>1 DEF GetTouch
    <3> QED BY <1>1, <3>1, <3>2, MoveKey
  <2>2. CASE items[key[c]] # elem[c]
    <3>1. order' = order /\ used' = used
      BY <1>1, <2>2 DEF GetTouch, MoveToFront
    <3> QED BY <3>1 DEF Inv, CacheInv
  <2> QED BY <2>1, <2>2
<1>3. /\ items' = items /\ item' = item /\ sweep' = sweep /\ panicked' = panicked /\ sweep = {}
      /\ Done(c)
  BY DEF GetTouch, Free
<1>4. /\ pc' \in [Clients -> Points] /\ key' \in [Clients -> Keys \union {Nil}]
      /\ elem' \in [Clients -> Elems \union {Nil}] /\ tag' \in [Clients -> BOOLEAN]
      /\ \A d \in Clients \ {c} : pc'[d] = pc[d] /\ key'[d] = key[d] /\ elem'[d] = elem[d]
      /\ ClientOK(pc'[c], key'[c], elem'[c], item')
  BY <1>3, DoneFacts
<1>5. order' \in Lists
  BY <1>2 DEF IsCache
<1>6. TypeInv'
  BY <1>3, <1>4, <1>5 DEF Inv, TypeInv
<1>7. CacheInv'
  BY <1>2, <1>3 DEF CacheInv
<1>8. ClientsInv'
  BY <1>3, <1>4, ClientStep
<1> QED
  BY <1>6, <1>7, <1>8 DEF Inv

\* A request that gives up leaves the cache alone.
LEMMA GiveUpInv ==
    ASSUME Inv, NEW c \in Clients, GiveUp(c) PROVE Inv'
<1>1. UNCHANGED <<items, order, item, sweep, panicked, used>> /\ Done(c)
  BY DEF GiveUp
<1>2. /\ pc' \in [Clients -> Points] /\ key' \in [Clients -> Keys \union {Nil}]
      /\ elem' \in [Clients -> Elems \union {Nil}] /\ tag' \in [Clients -> BOOLEAN]
      /\ \A d \in Clients \ {c} : pc'[d] = pc[d] /\ key'[d] = key[d] /\ elem'[d] = elem[d]
      /\ ClientOK(pc'[c], key'[c], elem'[c], item')
  BY <1>1, DoneFacts
<1>3. TypeInv'
  BY <1>1, <1>2 DEF Inv, TypeInv
<1>4. CacheInv'
  BY <1>1 DEF Inv, CacheInv
<1>5. ClientsInv'
  BY <1>1, <1>2, ClientStep
<1> QED
  BY <1>3, <1>4, <1>5 DEF Inv

\* Reading the version changes nothing but the request.
LEMMA PutTagInv ==
    ASSUME Inv, NEW c \in Clients, PutTag(c) PROVE Inv'
<1>1. TypeInv'
  BY DEF PutTag, Inv, TypeInv, Go, Points
<1>2. CacheInv'
  BY DEF PutTag, Inv, CacheInv
<1>3. /\ \A d \in Clients \ {c} : pc'[d] = pc[d] /\ key'[d] = key[d] /\ elem'[d] = elem[d]
      /\ pc[c] = "missed" /\ pc'[c] = "store"
      /\ key'[c] = key[c] /\ elem'[c] = elem[c] /\ item' = item
  BY DEF PutTag, Inv, TypeInv, Go
<1>4. ClientOK(pc'[c], key'[c], elem'[c], item')
  <2>1. ClientOK(pc[c], key[c], elem[c], item)
    BY DEF Inv, ClientsInv
  <2> QED BY <1>3, <2>1 DEF ClientOK
<1>5. ClientsInv'
  BY <1>3, <1>4, ClientStep
<1> QED
  BY <1>1, <1>2, <1>5 DEF Inv

\* A Put over an entry refreshes the element and keeps its key.
LEMMA PutOverwriteInv ==
    ASSUME Inv, NEW c \in Clients, PutOverwrite(c) PROVE Inv'
<1> DEFINE k == key[c]
           e == items[k]
<1>1. k \in Keys /\ e # Nil
  BY DEF PutOverwrite, Inv, ClientsInv, ClientOK
<1>2. /\ IsCache(used', items, order', item) /\ Len(used') <= MaxEntries
  <2>1. /\ order' = MoveToFront(order, items[k])
        /\ used' = <<k>> \o RemoveFirst(used, k)
    BY DEF PutOverwrite
  <2> QED BY <1>1, <2>1, MoveKey
<1>3. e \in Elems /\ item[e] \in Item /\ item[e].key = k
  BY <1>1 DEF Inv, CacheInv, IsCache
<1>4. /\ item' = [item EXCEPT ![e] = Dated(item[e], tag[c])]
      /\ items' = items /\ sweep' = sweep /\ panicked' = panicked /\ sweep = {} /\ Done(c)
  BY DEF PutOverwrite, Free
<1> HIDE DEF e, k
<1>5. Dated(item[e], tag[c]) \in Item /\ Dated(item[e], tag[c]).key = item[e].key
  BY <1>1, <1>3 DEF Dated, Item, Inv, TypeInv
<1>6. item' \in [Elems -> Item \union {Nil}]
  BY <1>3, <1>4, <1>5 DEF Inv, TypeInv
<1>7. \A x \in Elems : item[x] \in Item => item'[x] \in Item /\ item'[x].key = item[x].key
  BY <1>3, <1>4, <1>5 DEF Inv, TypeInv
<1>8. IsCache(used', items, order', item')
  BY <1>2, <1>7, ItemsCache
<1>9. /\ pc' \in [Clients -> Points] /\ key' \in [Clients -> Keys \union {Nil}]
      /\ elem' \in [Clients -> Elems \union {Nil}] /\ tag' \in [Clients -> BOOLEAN]
      /\ \A d \in Clients \ {c} : pc'[d] = pc[d] /\ key'[d] = key[d] /\ elem'[d] = elem[d]
      /\ ClientOK(pc'[c], key'[c], elem'[c], item')
  BY <1>4, DoneFacts
<1>10. order' \in Lists
  BY <1>8 DEF IsCache
<1>11. TypeInv'
  BY <1>4, <1>6, <1>9, <1>10 DEF Inv, TypeInv
<1>12. CacheInv'
  BY <1>2, <1>4, <1>8 DEF CacheInv
<1>13. ClientsInv'
  BY <1>7, <1>9, ClientStep
<1> QED
  BY <1>11, <1>12, <1>13 DEF Inv

\* evict leaves room for one more key: it deletes the entry at the back of the list
\* from the list and from the map, and never meets the sentinel.
LEMMA EvictCache ==
    ASSUME Inv
    PROVE  LET vs == IF Full /\ used # <<>> THEN Front(used) ELSE used IN
           /\ IsCache(vs, EvictedItems, EvictedOrder, item)
           /\ Len(vs) \in Nat /\ Len(vs) < MaxEntries
           /\ ~EvictPanics
           /\ \A k \in Keys : items[k] = Nil => EvictedItems[k] = Nil
           /\ \A e \in Elems : EvictedOrder.owned[e] => order.owned[e]
<1> DEFINE q == EltsOf(used, items)
           n == Len(used)
<1>1. IsCache(used, items, order, item) /\ n <= MaxEntries /\ MaxEntries \in Nat \ {0}
  BY CacheAssumption DEF Inv, CacheInv
<1>2. /\ used \in Seq(Keys) /\ n \in Nat /\ order \in Lists
      /\ \A i \in 1..n : used[i] \in Keys /\ items[used[i]] \in Elems
      /\ q \in Seq(Elems) /\ Len(q) = n
      /\ \A i \in 1..n : q[i] = items[used[i]]
      /\ Represents(order, q)
  BY <1>1, CacheParts
<1>3. order.len = n /\ Back(order) = IF n = 0 THEN Nil ELSE q[n]
  <2> HIDE DEF q, n
  <2> QED BY <1>2, RepParts, BackRep
<1>4. /\ items \in [Keys -> Elems \union {Nil}]
      /\ \A k \in Keys : items[k] # Nil => item[items[k]].key = k
  BY <1>1 DEF IsCache
<1>5. CASE ~Full
  <2>1. n < MaxEntries
    BY <1>1, <1>2, <1>3, <1>5 DEF Full
  <2> QED BY <1>1, <1>2, <1>5, <2>1 DEF EvictedItems, EvictedOrder, Evicts, EvictPanics
<1>6. CASE Full
  <2>1. n = MaxEntries /\ n \in 1..n
    BY <1>1, <1>2, <1>3, <1>6 DEF Full
  <2>2. /\ Back(order) = items[used[n]] /\ items[used[n]] \in Elems /\ used[n] \in Keys
    BY <1>1, <1>2, <1>3, <2>1
  <2>3. Back(order) # Nil /\ Back(order) # Root
    BY <2>2, CacheAssumption
  <2>4. item[Back(order)].key = used[n]
    BY <1>4, <2>2, <2>3
  <2>5. used # <<>>
    BY <1>2, <2>1, EmptySeq
  <2>6. Front(used) \in Seq(Keys) /\ IsCut(Front(used), used, n)
    BY <1>2, <2>5, FrontCut
  <2>7. /\ EvictedItems = [items EXCEPT ![used[n]] = Nil]
        /\ EvictedOrder = RemoveElem(order, items[used[n]])
    BY <1>6, <2>2, <2>3, <2>4 DEF EvictedItems, EvictedOrder, Evicts
  <2>8. IsCache(Front(used), EvictedItems, EvictedOrder, item)
    BY <1>1, <2>1, <2>6, <2>7, RemoveCache
  <2>9. Len(Front(used)) = n - 1
    BY <2>6 DEF IsCut
  <2>10. ~EvictPanics
    BY <2>3 DEF EvictPanics
  <2>11. \A k \in Keys : items[k] = Nil => EvictedItems[k] = Nil
    BY <1>4, <2>7
  <2>12. \A k \in Keys : EvictedItems[k] = items[k] \/ EvictedItems[k] = Nil
    BY <1>4, <2>7
  <2>13. ASSUME NEW e \in Elems, EvictedOrder.owned[e] PROVE order.owned[e]
    <3>1. PICK k \in Keys : EvictedItems[k] = e
      BY <2>8, <2>13, CacheParts
    <3>2. items[k] = e
      BY <2>12, <3>1, CacheAssumption
    <3> QED BY <1>1, <3>2, CacheParts
  <2>14. Len(Front(used)) \in Nat /\ Len(Front(used)) < MaxEntries
    BY <1>1, <1>2, <2>1, <2>9
  <2> HIDE DEF n, q
  <2> QED BY <1>6, <2>5, <2>8, <2>10, <2>11, <2>13, <2>14
<1> QED
  BY <1>5, <1>6

\* A Put of a new key evicts when the cache is full and takes an element nobody holds.
LEMMA PutInsertInv ==
    ASSUME Inv, NEW c \in Clients, PutInsert(c) PROVE Inv'
<1> DEFINE k == key[c]
           e == CHOOSE x \in Fresh : TRUE
           vs == IF Full /\ used # <<>> THEN Front(used) ELSE used
           new == [key |-> k, current |-> tag[c]]
<1>1. pc[c] = "store" /\ k \in Keys /\ items[k] = Nil /\ sweep = {} /\ sweep' = sweep
  BY DEF PutInsert, Free, Inv, ClientsInv, ClientOK
<1>2. e \in Fresh
  BY <1>1, FreshExists
<1>3. /\ e \in Elems /\ ~order.owned[e]
      /\ \A d \in Clients : elem[d] # e
  <2> HIDE DEF e
  <2> QED BY <1>2, FreshFacts
<1>4. /\ IsCache(vs, EvictedItems, EvictedOrder, item)
      /\ Len(vs) \in Nat /\ Len(vs) < MaxEntries /\ ~EvictPanics
      /\ EvictedItems[k] = Nil /\ ~EvictedOrder.owned[e]
  <2> HIDE DEF e, k
  <2> QED BY <1>1, <1>3, EvictCache
<1>5. /\ order' = PushFront(EvictedOrder, e)
      /\ items' = [EvictedItems EXCEPT ![k] = e]
      /\ item' = [item EXCEPT ![e] = new]
      /\ used' = <<k>> \o vs
      /\ panicked' = EvictPanics
      /\ Done(c)
  BY <1>4 DEF PutInsert
<1> HIDE DEF e, k, vs
<1>6. new \in Item /\ new.key = k
  BY <1>1 DEF Item, Inv, TypeInv
<1> HIDE DEF new
<1>7. item \in [Elems -> Item \union {Nil}]
  BY DEF Inv, TypeInv
<1>8. IsCache(used', items', order', item')
  BY <1>1, <1>3, <1>4, <1>5, <1>6, <1>7, PushCache
<1>9. Len(used') <= MaxEntries
  <2>1. vs \in Seq(Keys)
    BY <1>4 DEF IsCache
  <2>2. IsFronted(used', vs, k)
    BY <1>1, <1>5, <2>1, ConsFronted
  <2>3. Len(used') = Len(vs) + 1
    BY <2>2 DEF IsFronted
  <2> QED BY <1>4, <2>3, CacheAssumption
<1>10. panicked' = FALSE
  BY <1>4, <1>5 DEF EvictPanics
<1>11. /\ pc' \in [Clients -> Points] /\ key' \in [Clients -> Keys \union {Nil}]
       /\ elem' \in [Clients -> Elems \union {Nil}] /\ tag' \in [Clients -> BOOLEAN]
       /\ \A d \in Clients \ {c} : pc'[d] = pc[d] /\ key'[d] = key[d] /\ elem'[d] = elem[d]
       /\ ClientOK(pc'[c], key'[c], elem'[c], item')
  BY <1>5, DoneFacts
<1>12. /\ item' \in [Elems -> Item \union {Nil}]
       /\ \A x \in Elems : x # e => item'[x] = item[x]
  BY <1>3, <1>5, <1>6, <1>7
<1>13. items' \in [Keys -> Elems \union {Nil}] /\ order' \in Lists
  BY <1>8 DEF IsCache
<1>14. TypeInv'
  BY <1>1, <1>10, <1>11, <1>12, <1>13 DEF Inv, TypeInv
<1>15. CacheInv'
  BY <1>1, <1>8, <1>9 DEF CacheInv
<1>16. ClientsInv'
  BY <1>3, <1>11, <1>12, ClientStep
<1> QED
  BY <1>14, <1>15, <1>16 DEF Inv

\* Steps that only change entries, keeping their keys.
LEMMA DatedInv ==
    ASSUME Inv, UNCHANGED <<items, order, pc, key, elem, sweep, panicked, used>>,
           tag' \in [Clients -> BOOLEAN], item' \in [Elems -> Item \union {Nil}],
           \A x \in Elems : item[x] \in Item => item'[x] \in Item /\ item'[x].key = item[x].key
    PROVE  Inv'
<1>1. TypeInv'
  BY DEF Inv, TypeInv
<1>2. IsCache(used, items, order, item')
  BY ItemsCache DEF Inv, CacheInv
<1>3. CacheInv'
  BY <1>2 DEF Inv, CacheInv
<1>4. ClientsInv'
  <2> SUFFICES ASSUME NEW d \in Clients PROVE ClientOK(pc[d], key[d], elem[d], item')
    BY DEF ClientsInv
  <2>1. ClientOK(pc[d], key[d], elem[d], item)
    BY DEF Inv, ClientsInv
  <2> QED BY <2>1, OtherClient
<1> QED
  BY <1>1, <1>3, <1>4 DEF Inv

\* A new version keeps every key.
LEMMA SetVersionInv == ASSUME Inv, SetVersion PROVE Inv'
<1>1. /\ item' = [e \in Elems |-> IF item[e] = Nil THEN Nil ELSE Dated(item[e], FALSE)]
      /\ tag' = [c \in Clients |-> FALSE]
      /\ UNCHANGED <<items, order, pc, key, elem, sweep, panicked, used>>
  BY DEF SetVersion
<1>2. item \in [Elems -> Item \union {Nil}]
  BY DEF Inv, TypeInv
<1>3. \A i \in Item : Dated(i, FALSE) \in Item /\ Dated(i, FALSE).key = i.key
  BY DEF Dated, Item
<1>4. item' \in [Elems -> Item \union {Nil}]
  BY <1>1, <1>2, <1>3
<1>5. \A x \in Elems : item[x] \in Item => item'[x] \in Item /\ item'[x].key = item[x].key
  BY <1>1, <1>3
<1> QED
  BY <1>1, <1>4, <1>5, DatedInv

\* An entry that expires keeps its key.
LEMMA ExpireInv == ASSUME Inv, NEW e \in Elems, Expire(e) PROVE Inv'
<1>1. /\ item' = [item EXCEPT ![e] = Dated(item[e], FALSE)] /\ item[e] # Nil
      /\ UNCHANGED <<items, order, pc, key, elem, tag, sweep, panicked, used>>
  BY DEF Expire
<1>2. item \in [Elems -> Item \union {Nil}] /\ tag' \in [Clients -> BOOLEAN]
  BY <1>1 DEF Inv, TypeInv
<1>3. \A i \in Item : Dated(i, FALSE) \in Item /\ Dated(i, FALSE).key = i.key
  BY DEF Dated, Item
<1>4. item' \in [Elems -> Item \union {Nil}]
  BY <1>1, <1>2, <1>3
<1>5. \A x \in Elems : item[x] \in Item => item'[x] \in Item /\ item'[x].key = item[x].key
  BY <1>1, <1>2, <1>3
<1> QED
  BY <1>1, <1>2, <1>4, <1>5, DatedInv

\* Cleanup starts with the keys of the map.
LEMMA CleanupInv == ASSUME Inv, Cleanup PROVE Inv'
<1>1. TypeInv'
  BY DEF Cleanup, Inv, TypeInv, Cached
<1>2. CacheInv'
  BY DEF Cleanup, Inv, CacheInv, Cached
<1>3. ClientsInv'
  BY DEF Cleanup, Inv, ClientsInv
<1> QED
  BY <1>1, <1>2, <1>3 DEF Inv

\* A visit of Cleanup removes at most the key it visits, which nobody else has removed.
LEMMA CleanupVisitInv == ASSUME Inv, NEW k \in Keys, CleanupVisit(k) PROVE Inv'
<1>1. /\ UNCHANGED <<item, pc, key, elem, tag, panicked>> /\ sweep' = sweep \ {k}
      /\ k \in sweep /\ items[k] # Nil /\ sweep \in SUBSET Keys
      /\ \A j \in sweep : items[j] # Nil
  BY DEF CleanupVisit, Inv, TypeInv, CacheInv
<1>2. /\ IsCache(used, items, order, item)' /\ Len(used') <= MaxEntries
      /\ order' \in Lists /\ items' \in [Keys -> Elems \union {Nil}]
      /\ \A j \in Keys : j # k => items'[j] = items[j]
  <2>1. CASE Stale(items[k])
    <3>1. /\ order' = RemoveElem(order, items[k])
          /\ items' = [items EXCEPT ![k] = Nil] /\ used' = RemoveFirst(used, k)
      BY <2>1 DEF CleanupVisit
    <3> QED BY <1>1, <3>1, RemoveKey
  <2>2. CASE ~Stale(items[k])
    <3>1. UNCHANGED <<order, items, used>>
      BY <2>2 DEF CleanupVisit
    <3> QED BY <1>1, <3>1 DEF Inv, TypeInv, CacheInv
  <2> QED BY <2>1, <2>2
<1>3. TypeInv'
  BY <1>1, <1>2 DEF Inv, TypeInv
<1>4. \A j \in sweep' : items'[j] # Nil
  BY <1>1, <1>2
<1>5. CacheInv'
  BY <1>2, <1>4 DEF CacheInv
<1>6. ClientsInv'
  BY <1>1 DEF Inv, ClientsInv
<1> QED
  BY <1>3, <1>5, <1>6 DEF Inv

\* With no Get between its phases, Clear leaves an empty list.
LEMMA ClearInv == ASSUME Inv, Clear, ClearOverlaps = FALSE PROVE Inv'
<1> DEFINE l == InitList(order)
<1>1. /\ items' = [k \in Keys |-> Nil] /\ order' = Collect(l, Held) /\ used' = <<>>
      /\ UNCHANGED <<item, pc, key, elem, tag, sweep, panicked>> /\ sweep = {}
      /\ \A c \in Clients : elem[c] = Nil
  BY DEF Clear, Free
<1>2. Held = {}
  BY <1>1 DEF Held
<1>3. /\ order \in Lists
      /\ l.next \in Pointers /\ l.prev \in Pointers /\ l.owned \in [Elems -> BOOLEAN]
      /\ l.next[Root] = Root /\ l.prev[Root] = Root /\ l.len = 0
      /\ l = [next |-> l.next, prev |-> l.prev, owned |-> l.owned, len |-> 0]
  <2>1. order \in Lists
    BY DEF Inv, TypeInv
  <2>2. Elems \union {Root, Nil} = Nodes \union {Nil} /\ Elems \union {Root} = Nodes /\ Root \in Nodes
    BY DEF Nodes
  <2>3. order.next \in Pointers /\ order.prev \in Pointers /\ order.owned \in [Elems -> BOOLEAN]
    BY <2>1, <2>2 DEF Lists, Pointers
  <2>4. l = [next |-> [order.next EXCEPT ![Root] = Root],
             prev |-> [order.prev EXCEPT ![Root] = Root], owned |-> order.owned, len |-> 0]
    <3> DEFINE n1 == [order.next EXCEPT ![Root] = Root]
               p1 == [order.prev EXCEPT ![Root] = Root]
    <3>1. l = [order EXCEPT !.next = n1, !.prev = p1, !.len = 0]
      BY DEF InitList
    <3>2. order = [next |-> order.next, prev |-> order.prev,
                   owned |-> order.owned, len |-> order.len]
      BY <2>1 DEF Lists
    <3> HIDE DEF n1, p1, l
    <3>3. l = [next |-> n1, prev |-> p1, owned |-> order.owned, len |-> 0]
      BY <3>1, <3>2
    <3> QED BY <3>3 DEF n1, p1
  <2> HIDE DEF l
  <2> QED BY <2>1, <2>2, <2>3, <2>4 DEF Pointers
<1> HIDE DEF l
<1>4. Reachable(l, {Root} \union Held) = {Root}
  <2>1. {Root} \in SUBSET Nodes
    BY DEF Nodes
  <2>2. \A x \in {Root} : l.next[x] \in {Root} \union {Nil} /\ l.prev[x] \in {Root} \union {Nil}
    BY <1>3
  <2>3. {Root} \subseteq Reachable(l, {Root}) /\ Reachable(l, {Root}) \subseteq {Root}
    BY <2>1, <2>2, ReachableFacts
  <2>4. {Root} \union Held = {Root}
    BY <1>2
  <2> QED BY <2>3, <2>4
<1> DEFINE n == [x \in Nodes |-> IF x = Root THEN Root ELSE Nil]
           o == [e \in Elems |-> FALSE]
<1>5. order' = [next |-> n, prev |-> n, owned |-> o, len |-> 0]
  <2> DEFINE n1 == [x \in Elems \union {Root} |-> IF x \in {Root} THEN l.next[x] ELSE Nil]
             p1 == [x \in Elems \union {Root} |-> IF x \in {Root} THEN l.prev[x] ELSE Nil]
             o1 == [e \in Elems |-> e \in {Root} /\ l.owned[e]]
  <2>1. order' = [l EXCEPT !.next = n1, !.prev = p1, !.owned = o1]
    BY <1>1, <1>4 DEF Collect
  <2>2. n1 = n /\ p1 = n
    BY <1>3 DEF Nodes
  <2>3. o1 = o
    BY CacheAssumption
  <2> HIDE DEF n1, p1, o1, n, o
  <2> QED BY <1>3, <2>1, <2>2, <2>3
<1>6. /\ n \in Pointers /\ o \in [Elems -> BOOLEAN] /\ n[Root] = Root
      /\ \A e \in Elems : n[e] = Nil /\ o[e] = FALSE
  BY CacheAssumption DEF Nodes, Pointers
<1>7. /\ used' \in Seq(Keys) /\ Len(used') = 0 /\ Distinct(used')
      /\ \A k : ~Has(used', k)
  <2>1. used' \in Seq(Keys) /\ Len(used') = 0
    BY <1>1, EmptySeq
  <2> QED BY <2>1 DEF Distinct, Has
<1> DEFINE q == EltsOf(used', items')
<1>8. q \in Seq(Elems) /\ Len(q) = 0
  BY <1>7, EltsSeq
<1> HIDE DEF n, o, q
<1>9. Distinct(q) /\ Ring(n, n, q) /\ \A i : At(q, i) = Root
  BY <1>6, <1>8 DEF Distinct, Ring, At
<1>10. order' \in Lists /\ Represents(order', q)
  <2>1. \A e \in Elems : o[e] <=> \E i \in 1..Len(q) : q[i] = e
    <3>1. \A i \in 1..Len(q) : FALSE
      BY <1>8
    <3> QED BY <1>6, <3>1
  <2>2. order' = [next |-> n, prev |-> n, owned |-> o, len |-> Len(q)]
    BY <1>5, <1>8
  <2>3. Owns(n, n, o, q)
    BY <1>6, <2>1 DEF Owns
  <2> QED BY <1>6, <1>8, <1>9, <2>2, <2>3, RepFromParts
<1>11. IsCache(used', items', order', item')
  <2>1. items' \in [Keys -> Elems \union {Nil}] /\ \A k \in Keys : items'[k] = Nil
    BY <1>1
  <2> QED BY <1>7, <1>10, <2>1 DEF IsCache, q
<1>12. TypeInv'
  BY <1>1, <1>10 DEF Inv, TypeInv
<1>13. CacheInv'
  BY <1>1, <1>7, <1>11, CacheAssumption DEF CacheInv
<1>14. ClientsInv'
  BY <1>1 DEF Inv, ClientsInv
<1> QED
  BY <1>12, <1>13, <1>14 DEF Inv

\* Every step keeps the invariant, if Clear waits for the Gets between their phases.
LEMMA StepInv == ASSUME ClearOverlaps = FALSE, Inv, [Next]_vars PROVE Inv'
<1>1. CASE Next
  BY <1>1, GetLookupInv, GetInspectInv, GetDropInv, GetTouchInv, GiveUpInv, PutTagInv,
     PutOverwriteInv, PutInsertInv, SetVersionInv, CleanupInv, CleanupVisitInv, ClearInv,
     ExpireInv DEF Next
<1>2. CASE UNCHANGED vars
  BY <1>2 DEF vars, Inv, TypeInv, CacheInv, ClientsInv
<1> QED
  BY <1>1, <1>2

-----------------------------------------------------------------------------
(* The theorems                                                            *)

\* The invariant is strong enough for every property.
LEMMA InvImplies ==
    ASSUME Inv
    PROVE  TypeOK /\ ListIsRecencyOrder /\ CapacityBound /\ EvictFindsAnItem
<1>1. IsCache(used, items, order, item) /\ Len(used) <= MaxEntries
  BY DEF Inv, CacheInv
<1>2. /\ Len(used) \in Nat /\ used \in Seq(Keys)
      /\ \A i \in 1..Len(used) : used[i] \in Keys /\ items[used[i]] \in Elems
      /\ Represents(order, EltsOf(used, items))
      /\ EltsOf(used, items) \in Seq(Elems) /\ Len(EltsOf(used, items)) = Len(used)
  BY <1>1, CacheParts
<1>3. TypeOK
  <2>1. order.len <= Cardinality(Elems)
    <3>1. order.len = Len(used)
      BY <1>2 DEF Represents
    <3>2. Cardinality(Clients) \in Nat /\ Cardinality(Elems) \in Nat
      BY CacheAssumption, FS_CardinalityType
    <3> QED BY <1>1, <1>2, <3>1, <3>2, CacheAssumption
  <2>2. \A c \in Clients : pc[c] = "store" => Fresh # {}
    BY FreshExists
  <2>3. sweep \subseteq Cached
    BY DEF Inv, TypeInv, CacheInv, Cached
  <2> QED BY <2>1, <2>2, <2>3 DEF TypeOK, Inv, TypeInv
<1>4. ListIsRecencyOrder
  <2>1. \A i \in 1..Len(used) : item[items[used[i]]].key = used[i]
    BY <1>1, <1>2, CacheAssumption DEF IsCache
  <2>2. ToSet(used) = Cached
    <3>1. DOMAIN used = 1..Len(used)
      BY <1>2, LenProperties
    <3>2. Cached = {k \in Keys : Has(used, k)}
      BY MapElements
    <3> QED BY <1>2, <3>1, <3>2 DEF ToSet, Has
  <2> QED BY <1>2, <2>1, <2>2 DEF ListIsRecencyOrder, EltsOf
<1>5. CapacityBound
  BY MapBound DEF CapacityBound
<1>6. EvictFindsAnItem
  BY DEF Inv, TypeInv, EvictFindsAnItem
<1> QED
  BY <1>3, <1>4, <1>5, <1>6

\* As long as no Clear falls between the phases of a Get, every variable keeps its
\* type, Cleanup only visits keys of the map, and a Put always finds a new element.
THEOREM CacheTypeCorrect == ASSUME ClearOverlaps = FALSE PROVE Spec => []TypeOK
<1>1. Inv /\ [Next]_vars => Inv'
  BY StepInv
<1>2. Inv => TypeOK
  BY InvImplies
<1> QED
  BY <1>1, <1>2, InitInv, PTL DEF Spec

\* As long as no Clear falls between the phases of a Get, the ring of pointers is the
\* cached keys in order of last use, whatever the Gets and Puts do to it between the
\* two phases of a Get.
THEOREM RecencyCorrect == ASSUME ClearOverlaps = FALSE PROVE Spec => []ListIsRecencyOrder
<1>1. Inv /\ [Next]_vars => Inv'
  BY StepInv
<1>2. Inv => ListIsRecencyOrder
  BY InvImplies
<1> QED
  BY <1>1, <1>2, InitInv, PTL DEF Spec

\* As long as no Clear falls between the phases of a Get, the cache never has more
\* than max_entries entries.
THEOREM CapacityCorrect == ASSUME ClearOverlaps = FALSE PROVE Spec => []CapacityBound
<1>1. Inv /\ [Next]_vars => Inv'
  BY StepInv
<1>2. Inv => CapacityBound
  BY InvImplies
<1> QED
  BY <1>1, <1>2, InitInv, PTL DEF Spec

\* As long as no Clear falls between the phases of a Get, the type assertion in evict
\* never fails; the run result_cache_clear shows that it does when one may.
THEOREM EvictCorrect == ASSUME ClearOverlaps = FALSE PROVE Spec => []EvictFindsAnItem
<1>1. Inv /\ [Next]_vars => Inv'
  BY StepInv
<1>2. Inv => EvictFindsAnItem
  BY InvImplies
<1> QED
  BY <1>1, <1>2, InitInv, PTL DEF Spec

-----------------------------------------------------------------------------
(* Which entries come and go                                               *)

\* A key appears only by a Put that stores an entry of it.  It goes only
\*  - when a Get of that key has found its entry stale, the one that Get inspected:
\*    a Put may have stored a fresh one meanwhile, which goes with the key,
\*  - when Cleanup comes by and its entry is stale,
\*  - when a Put of a new key finds the cache full and no entry has been unused
\*    for longer, or
\*  - when Clear empties the cache.
Explained ==
    /\ \A k \in Cached' \ Cached : \E c \in Clients : pc[c] = "store" /\ key[c] = k
    /\ \A k \in Cached \ Cached' :
          \/ \E c \in Clients : pc[c] = "drop" /\ key[c] = k
          \/ k \in sweep /\ Stale(items[k])
          \/ /\ \E c \in Clients : pc[c] = "store" /\ key[c] \in Cached' \ Cached
             /\ Cardinality(Cached) = MaxEntries /\ k = used[Len(used)]
          \/ Cached' = {} /\ \A c \in Clients : elem[c] = Nil

\* There are as many cached keys as keys in order of last use.
LEMMA CachedCount ==
    ASSUME Inv
    PROVE  Cardinality(Cached) = Len(used)
<1> DEFINE n == Len(used)
           f == [i \in 1..n |-> used[i]]
<1>1. n \in Nat /\ Cached = {k \in Keys : Has(used, k)} /\ \A i \in 1..n : used[i] \in Cached
  BY MapElements
<1>2. Distinct(used)
  BY DEF Inv, CacheInv, IsCache
<1>3. f \in [1..n -> Cached] /\ \A k \in Cached : \E i \in 1..n : f[i] = k
  BY <1>1 DEF Has
<1>4. \A i, j \in 1..n : f[i] = f[j] => i = j
  BY <1>2 DEF Distinct
<1> HIDE DEF f, n
<1>5. f \in Surjection(1..n, Cached) /\ f \in Injection(1..n, Cached)
  <2>1. f \in Surjection(1..n, Cached)
    BY <1>3 DEF Surjection
  <2>2. IsInjective(f)
    BY <1>3, <1>4 DEF IsInjective
  <2> QED BY <1>3, <2>1, <2>2 DEF Injection
<1>6. IsFiniteSet(1..n) /\ Cardinality(1..n) = n
  <2>1. IsFiniteSet(1..n) /\ Cardinality(1..n) = IF 1 > n THEN 0 ELSE n - 1 + 1
    BY <1>1, FS_Interval
  <2> QED BY <1>1, <2>1
<1> QED
  BY <1>5, <1>6, FS_Surjection DEF n

\* What a Put of a new key takes out of the map is the key that has not been used
\* for longest, and only when the cache is full.
LEMMA PutInsertExplained ==
    ASSUME Inv, NEW c \in Clients, PutInsert(c) PROVE Explained
<1> DEFINE e == CHOOSE x \in Fresh : TRUE
           n == Len(used)
<1>1. pc[c] = "store" /\ key[c] \in Keys /\ items[key[c]] = Nil
  BY DEF PutInsert, Inv, ClientsInv, ClientOK
<1>2. e \in Elems /\ e # Nil
  <2>1. e \in Fresh
    BY <1>1, FreshExists
  <2> HIDE DEF e
  <2> QED BY <2>1, FreshFacts, CacheAssumption
<1>3. items' = [EvictedItems EXCEPT ![key[c]] = e]
  BY EvictCache DEF PutInsert
<1>4. items \in [Keys -> Elems \union {Nil}]
  BY DEF Inv, TypeInv
<1>5. EvictedItems \in [Keys -> Elems \union {Nil}]
  BY EvictCache DEF IsCache
<1>6. \A k \in Keys : items[k] = Nil => EvictedItems[k] = Nil
  BY EvictCache
<1> HIDE DEF e
<1>7. items' \in [Keys -> Elems \union {Nil}] /\ items'[key[c]] = e
      /\ \A k \in Keys : k # key[c] => items'[k] = EvictedItems[k]
  BY <1>1, <1>2, <1>3, <1>5
<1>8. Cached' = {k \in Keys : items'[k] # Nil}
  BY DEF Cached
<1>9. key[c] \in Cached' \ Cached
  BY <1>1, <1>2, <1>7, <1>8 DEF Cached
<1>10. ASSUME NEW k \in Cached' \ Cached PROVE k = key[c]
  BY <1>6, <1>7, <1>8 DEF Cached
<1>11. ASSUME NEW k \in Cached \ Cached' PROVE Cardinality(Cached) = MaxEntries /\ k = used[Len(used)]
  <2>1. k \in Keys /\ items[k] # Nil /\ items'[k] = Nil
    BY <1>8 DEF Cached
  <2>2. k # key[c] /\ EvictedItems[k] = Nil
    BY <1>1, <1>7, <2>1
  <2>3. Evicts /\ EvictedItems = [items EXCEPT ![item[Back(order)].key] = Nil]
    BY <2>1, <2>2 DEF EvictedItems
  <2>4. k = item[Back(order)].key
    BY <1>4, <2>1, <2>2, <2>3
  <2>5. /\ n \in Nat /\ n <= MaxEntries /\ order.len = n
        /\ Back(order) = IF n = 0 THEN Nil ELSE items[used[n]]
        /\ \A i \in 1..n : used[i] \in Keys /\ items[used[i]] \in Elems
    <3> DEFINE q == EltsOf(used, items)
    <3>1. IsCache(used, items, order, item) /\ n <= MaxEntries
      BY DEF Inv, CacheInv
    <3>2. /\ n \in Nat /\ order \in Lists /\ q \in Seq(Elems) /\ Len(q) = n
          /\ \A i \in 1..n : used[i] \in Keys /\ items[used[i]] \in Elems /\ q[i] = items[used[i]]
          /\ Represents(order, q)
      BY <3>1, CacheParts
    <3> HIDE DEF q, n
    <3>3. order.len = n /\ Back(order) = IF n = 0 THEN Nil ELSE q[n]
      BY <3>2, RepParts, BackRep
    <3>4. n # 0 => n \in 1..n
      BY <3>2
    <3> QED BY <3>1, <3>2, <3>3, <3>4
  <2>6. n = MaxEntries /\ n \in 1..n
    BY <2>3, <2>5, CacheAssumption DEF Evicts, Full
  <2>7. Back(order) = items[used[n]] /\ used[n] \in Keys /\ items[used[n]] # Nil
    BY <2>5, <2>6, CacheAssumption
  <2>8. item[items[used[n]]].key = used[n]
    BY <2>7 DEF Inv, CacheInv, IsCache
  <2> QED BY <2>4, <2>6, <2>7, <2>8, CachedCount
<1> QED
  BY <1>1, <1>9, <1>10, <1>11 DEF Explained

\* Every other step leaves the map alone, deletes one key, or empties it.
LEMMA StepExplained ==
    ASSUME ClearOverlaps = FALSE, Inv, [Next]_vars PROVE [Explained]_vars
<1>1. items \in [Keys -> Elems \union {Nil}]
  BY DEF Inv, TypeInv
<1>2. Cached' = {k \in Keys : items'[k] # Nil}
  BY DEF Cached
<1>3. ASSUME items' = items PROVE Explained
  BY <1>2, <1>3 DEF Explained, Cached
<1>4. ASSUME NEW k \in Keys, items' = [items EXCEPT ![k] = Nil],
             (\E c \in Clients : pc[c] = "drop" /\ key[c] = k) \/ (k \in sweep /\ Stale(items[k]))
      PROVE  Explained
  <2>1. \A x \in Keys : items'[x] = IF x = k THEN Nil ELSE items[x]
    BY <1>1, <1>4
  <2>2. Cached' \subseteq Cached /\ \A x \in Cached \ Cached' : x = k
    BY <1>2, <2>1 DEF Cached
  <2> QED BY <1>4, <2>2 DEF Explained
<1>5. ASSUME NEW c \in Clients, GetDrop(c) PROVE Explained
  <2>1. pc[c] = "drop" /\ key[c] \in Keys /\ items' = [items EXCEPT ![key[c]] = Nil]
    BY <1>5 DEF GetDrop, Inv, ClientsInv, ClientOK
  <2> QED BY <1>4, <2>1
<1>6. ASSUME NEW k \in Keys, CleanupVisit(k) PROVE Explained
  <2>1. CASE Stale(items[k])
    <3>1. k \in sweep /\ items' = [items EXCEPT ![k] = Nil]
      BY <1>6, <2>1 DEF CleanupVisit
    <3> QED BY <1>4, <2>1, <3>1
  <2>2. CASE ~Stale(items[k])
    BY <1>3, <1>6, <2>2 DEF CleanupVisit
  <2> QED BY <2>1, <2>2
<1>7. ASSUME Clear PROVE Explained
  <2>1. (\A c \in Clients : elem[c] = Nil) /\ items' = [k \in Keys |-> Nil]
    BY <1>7 DEF Clear
  <2>2. Cached' = {}
    BY <1>2, <2>1
  <2> QED BY <2>1, <2>2 DEF Explained
<1>8. ASSUME NEW c \in Clients, GetInspect(c) \/ GetTouch(c) \/ GiveUp(c) \/ PutTag(c) \/ PutOverwrite(c)
      PROVE  Explained
  BY <1>3, <1>8 DEF GetInspect, GetTouch, GiveUp, PutTag, PutOverwrite
<1>9. ASSUME NEW c \in Clients, NEW k \in Keys, GetLookup(c, k) PROVE Explained
  BY <1>3, <1>9 DEF GetLookup
<1>10. ASSUME SetVersion \/ Cleanup PROVE Explained
  BY <1>3, <1>10 DEF SetVersion, Cleanup
<1>11. ASSUME NEW e \in Elems, Expire(e) PROVE Explained
  BY <1>3, <1>11 DEF Expire
<1>12. CASE Next
  BY <1>5, <1>6, <1>7, <1>8, <1>9, <1>10, <1>11, <1>12, PutInsertExplained DEF Next
<1> QED
  BY <1>12

\* As long as no Clear falls between the phases of a Get, no key is lost to a Get or
\* a Put of another key but the one that has been unused for longest, and that one
\* only from a full cache: what evict takes off the list and what it deletes from the
\* map are the same key.  (A Get of the same key may take a fresh entry away: it
\* deletes what it finds under the key, and not the stale entry it inspected.)
THEOREM NoEntryLost == ASSUME ClearOverlaps = FALSE PROVE Spec => [][Explained]_vars
<1>1. Inv /\ [Next]_vars => Inv'
  BY StepInv
<1>2. Inv /\ [Next]_vars => [Explained]_vars
  BY StepExplained
<1> QED
  BY <1>1, <1>2, InitInv, PTL DEF Spec
=============================================================================
