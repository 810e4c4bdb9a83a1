----------------------------- MODULE MCStartup ------------------------------
(* Configurations for Startup: two collections that share a path, one of   *)
(* which may change its context or have a blank one, and a third one.      *)
EXTENDS Startup

Col3(n, p, c) == [name |-> n, path |-> p, context |-> c]

MCCollections ==
    { <<Col3("a", "p", "x"), Col3("b", "q", "x")>>,
      <<Col3("b", "q", "y"), Col3("a", "p", "x"), Col3("c", "p", "y")>>,
      <<Col3("a", "p", "y"), Col3("c", "p", " ")>>,
      <<Col3("c", "q", "")>>, <<>> }

MCConfigs ==
    { [cols |-> s, lowResource |-> l[1], cpuDeep |-> l[2], cpuVSearch |-> l[3],
       smartRouting |-> FALSE] :
      s \in MCCollections,
      l \in {<<FALSE, FALSE, FALSE>>, <<TRUE, TRUE, FALSE>>} }
    \union
    { [cols |-> <<Col3("b", "q", "x")>>, lowResource |-> TRUE, cpuDeep |-> d, cpuVSearch |-> v,
       smartRouting |-> FALSE] : d \in BOOLEAN, v \in BOOLEAN }
=============================================================================
