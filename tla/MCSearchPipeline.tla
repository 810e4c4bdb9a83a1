-------------------------- MODULE MCSearchPipeline --------------------------
(***************************************************************************)
(* Instances of SearchPipeline: one collection in each tier and one behind *)
(* the confirmation, as in qmdsr.yaml, and a name that is not configured.  *)
(***************************************************************************)
EXTENDS SearchPipeline

CONSTANTS r1, r2, q, long, memory, digital, personal, unknown

Ask(requested, collections) ==
    [query |-> q, requested |-> requested, collections |-> collections,
     fallback |-> FALSE, confirm |-> FALSE, filesAll |-> FALSE, topK |-> 0]

\* Requests that meet in the same cache keys: one client asks for much, among it
\* several names and a query beyond the deep budget, the other for plain search.
MixedShapes ==
    [r \in Requests |->
       IF r = r1
       THEN {Ask("auto", <<>>), Ask("deep", <<memory, personal>>),
             [Ask("deep", <<unknown>>) EXCEPT !.query = long]}
       ELSE {[Ask("core", <<>>) EXCEPT !.fallback = TRUE]}]

\* Two requests for the collection that wants a confirmation, one without it.
ConfirmShapes ==
    [r \in Requests |-> {[Ask("core", <<personal>>) EXCEPT !.confirm = (r = r1)]}]
=============================================================================
