----------------------------- MODULE Semaphore ------------------------------
(* What a limiter promises: at most Permits users hold a permit, and only  *)
(* a holder gives one back.                                                *)
EXTENDS Integers, FiniteSets

CONSTANTS Users, Permits

VARIABLE holders

Init == holders = {}

Acquire(u) ==
    /\ u \notin holders
    /\ Cardinality(holders) < Permits
    /\ holders' = holders \union {u}

Release(u) ==
    /\ u \in holders
    /\ holders' = holders \ {u}

Next == \E u \in Users : Acquire(u) \/ Release(u)

Spec == Init /\ [][Next]_holders
=============================================================================
