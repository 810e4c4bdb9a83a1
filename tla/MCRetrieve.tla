----------------------------- MODULE MCRetrieve -----------------------------
(* Outputs for Retrieve: collection b has two hits in one file, a hit that *)
(* is excluded and long snippets; a has the best document of b with a      *)
(* lower score and under another file, a third hit in b's file, and hits   *)
(* without id or without any name.                                         *)
EXTENDS Retrieve, SequencesExt

H(d, f, t, s, n, m, e) == [doc |-> d, file |-> f, title |-> t, score |-> s,
                           len |-> n, markup |-> m, stop |-> e]

HitsA == {H("1", "h", "", 5, 3, 0, 0), H("5", "f", "", 7, 5, 2, 0),
          H("", "i", "", 6, 2, 0, 0), H("", "", "", 4, 9, 0, 0),
          H("6", "j", "", 1, 3, 0, 0)}
HitsB == {H("1", "f", "", 9, 4, 0, 0), H("2", "f", "", 6, 12, 1, 3),
          H("3", "g", "", 6, 12, 1, 6), H("4", "x", "", 8, 2, 0, 0)}

MCOrder == <<"a", "b">>

MCOutputs == [c \in {"a", "b"} |->
                IF c = "a" THEN {s \in SetToAllKPermutations(HitsA) : Len(s) <= 2}
                ELSE SetToAllKPermutations(HitsB)]

MCExcluded == [c \in {"a", "b"} |-> IF c = "b" THEN {"x"} ELSE {}]

R(k, c, n, d, b) == [kind |-> k, named |-> c, topK |-> n, maxDocs |-> d, maxBytes |-> b]
MCRequests ==
    {R(k, c, n, 0, 0) : k \in {"search", "files"}, c \in {{}, {"b"}, {"a", "b"}}, n \in {0, 2}}
    \union {R("files_all", c, 0, 0, 0) : c \in {{}, {"a", "b"}}}
    \union {R("files_all", {"b"}, n, 0, 0) : n \in {1, 3}}
    \union {R("get", {}, 0, 0, 0), R("get", {"a"}, 0, 3, 6)}
=============================================================================
