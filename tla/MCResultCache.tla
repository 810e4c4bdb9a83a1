--------------------------- MODULE MCResultCache ----------------------------
(***************************************************************************)
(* Instances of ResultCache.  No operation tells one key or one client     *)
(* from another, so permutations of both are symmetries.                   *)
(***************************************************************************)
EXTENDS ResultCache

\* The state without what removed elements held, once no Get holds them either:
\* nothing reads it again.
View ==
    <<items, order, [e \in Elems |-> IF order.owned[e] \/ e \in Held
                                       THEN item[e] ELSE Nil],
      pc, key, elem, tag, sweep, panicked, used>>

Symmetry == Permutations(Keys) \union Permutations(Clients)
=============================================================================
