--------------------------- MODULE ContainerList ----------------------------
(***************************************************************************)
(* container/list of the Go library, as cache.go uses it: a ring of        *)
(* elements through a sentinel, with a length kept apart.  An element      *)
(* remembers the list it is in; Init empties the ring and the length and   *)
(* does not visit the elements, which still remember the list and their    *)
(* old neighbours.                                                         *)
(*                                                                         *)
(* A list is a record of the pointer fields of all elements.               *)
(***************************************************************************)
EXTENDS Integers, Sequences

CONSTANTS
    Elems,  \* the elements
    Root,   \* the sentinel
    Nil     \* the null pointer

NewList ==
    [next |-> [x \in Elems \union {Root} |-> IF x = Root THEN Root ELSE Nil],
     prev |-> [x \in Elems \union {Root} |-> IF x = Root THEN Root ELSE Nil],
     owned |-> [e \in Elems |-> FALSE],
     len |-> 0]

InitList(l) ==
    [l EXCEPT !.next = [l.next EXCEPT ![Root] = Root],
              !.prev = [l.prev EXCEPT ![Root] = Root], !.len = 0]

\* Link e behind the sentinel.
LinkFront(l, e) ==
    LET first == l.next[Root]
    IN  [l EXCEPT !.next = [[l.next EXCEPT ![e] = first] EXCEPT ![Root] = e],
                  !.prev = [[l.prev EXCEPT ![e] = Root] EXCEPT ![first] = e]]

\* Make the neighbours of e point at each other.
Unlink(l, e) ==
    [l EXCEPT !.next = [l.next EXCEPT ![l.prev[e]] = l.next[e]],
              !.prev = [l.prev EXCEPT ![l.next[e]] = l.prev[e]]]

\* Let go of the element e.
Release(l, e) ==
    [l EXCEPT !.next = [l.next EXCEPT ![e] = Nil], !.prev = [l.prev EXCEPT ![e] = Nil],
              !.owned = [l.owned EXCEPT ![e] = FALSE], !.len = l.len - 1]

\* The new element e belongs to the list.
Own(l, e) == [l EXCEPT !.owned = [l.owned EXCEPT ![e] = TRUE], !.len = l.len + 1]

PushFront(l, e) == Own(LinkFront(l, e), e)

MoveToFront(l, e) ==
    IF ~l.owned[e] \/ l.next[Root] = e THEN l ELSE LinkFront(Unlink(l, e), e)

RemoveElem(l, e) == IF ~l.owned[e] THEN l ELSE Release(Unlink(l, e), e)

\* The sentinel itself when the ring is empty and the length is not.
Back(l) == IF l.len = 0 THEN Nil ELSE l.prev[Root]

\* What pointers reach from the set S: the least set with S that they do not leave.
Reachable(l, S) ==
    LET Nodes == Elems \union {Root}
        closed == {T \in SUBSET Nodes :
                     S \subseteq T /\ \A x \in T : {l.next[x], l.prev[x]} \subseteq T \union {Nil}}
    IN  {x \in Nodes : \A T \in closed : x \in T}

\* The garbage collector frees every element that nothing reaches from the
\* sentinel and the set S.
Collect(l, S) ==
    LET kept == Reachable(l, {Root} \union S) IN
    [l EXCEPT !.next = [x \in Elems \union {Root} |-> IF x \in kept THEN l.next[x] ELSE Nil],
              !.prev = [x \in Elems \union {Root} |-> IF x \in kept THEN l.prev[x] ELSE Nil],
              !.owned = [e \in Elems |-> e \in kept /\ l.owned[e]]]

-----------------------------------------------------------------------------
(* What a list stands for                                                  *)

Lists == [next : [Elems \union {Root} -> Elems \union {Root, Nil}],
          prev : [Elems \union {Root} -> Elems \union {Root, Nil}],
          owned : [Elems -> BOOLEAN], len : Nat]

\* Place i in the ring of the sequence q; the sentinel is before and behind it.
At(q, i) == IF i \in 1..Len(q) THEN q[i] ELSE Root

\* The list l holds the elements of the sequence q in this order, forwards and
\* backwards, with nothing else linked in, and counts them.
Represents(l, q) ==
    /\ l.len = Len(q)
    /\ \A i \in 1..Len(q) : q[i] \in Elems
    /\ \A i, j \in 1..Len(q) : q[i] = q[j] => i = j
    /\ \A i \in 0..Len(q) : l.next[At(q, i)] = At(q, i + 1) /\ l.prev[At(q, i + 1)] = At(q, i)
    /\ \A e \in Elems : l.owned[e] <=> \E i \in 1..Len(q) : q[i] = e
    /\ \A e \in Elems : ~l.owned[e] => l.next[e] = Nil /\ l.prev[e] = Nil
=============================================================================
