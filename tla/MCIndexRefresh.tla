--------------------------- MODULE MCIndexRefresh ---------------------------
(* IndexRefresh with the loop and an RPC for the reindex, and an RPC for   *)
(* the embeddings.                                                         *)
EXTENDS IndexRefresh

CONSTANTS refreshLoop, refreshCall, embedCall

TaskOf ==
    [r \in Runners |-> IF r = embedCall THEN "embed_refresh" ELSE "index_refresh"]
=============================================================================
