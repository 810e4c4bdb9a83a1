------------------------------ MODULE Retrieve ------------------------------
(***************************************************************************)
(* The hits of a request, from the output of qmd to the response: parsing, *)
(* exclude patterns, min_score, duplicates, order, limits on hits and on   *)
(* characters, the union over the named collections, and SearchAndGet,     *)
(* which reads the best documents concurrently under a byte budget.        *)
(*                                                                         *)
(* A hit is its document id, file, title, score and the length of its      *)
(* snippet.  qmd is external and answers with any of Outputs.  Modes, the  *)
(* result cache and the fallback to tier 2 are SearchPipeline's, and a     *)
(* request runs alone here: requests share nothing at this stage.          *)
(***************************************************************************)
EXTENDS Integers, Sequences, FiniteSets, Functions

CONSTANTS
    Requests,           \* the requests a client may send
    Order,              \* the collections, sorted by name; all are of tier 1
    Outputs,            \* Outputs[c]: the hit lists of qmd for collection c
    Forms,              \* how qmd may print a list
    Excluded,           \* Excluded[c]: the files that match exclude
    Sizes,              \* document sizes
    TopK, CoarseK, MinScore, MaxChars, FilesAllMaxHits,     \* search settings
    MaxSnippet,         \* maxSnippetCharsPerResult
    SentenceWindow,     \* CleanSnippet looks this far back for a sentence end
    GetDocs, GetBytes,  \* SearchAndGet's defaults
    None                \* no outcome yet

Collections == Range(Order)

\* markup: the characters CleanSnippet strips; stop: the last sentence end.
NoName == ""
BaseOfNothing == "."        \* filepath.Base("")
Hit == [doc : STRING, file : STRING, title : STRING, score : Nat,
        len : Nat, markup : Nat, stop : Nat]
Request == [kind : {"search", "files", "files_all", "get"}, named : SUBSET Collections,
            topK : Nat, maxDocs : Nat, maxBytes : Nat]

ASSUME RetrieveAssumption ==
    /\ Requests \subseteq Request
    /\ Order \in Seq(STRING) /\ BaseOfNothing \in STRING
    /\ \A c \in Collections : \A s \in Outputs[c] :
           s \in Seq(Hit) /\ \A k \in DOMAIN s : s[k].markup <= s[k].len
    /\ Forms \subseteq {"blank", "none", "json", "warned", "bracketed", "csv", "garbage"}
    /\ TopK \in Nat \ {0} /\ CoarseK \in Nat \ {0} /\ MinScore \in Nat
    /\ MaxChars \in Nat /\ FilesAllMaxHits \in Nat
    /\ MaxSnippet \in Nat /\ MaxSnippet > 4 /\ SentenceWindow \in Nat
    /\ GetDocs \in Nat \ {0} /\ GetBytes \in Nat \ {0} /\ Sizes \subseteq Nat
    /\ None \notin Int

VARIABLES
    pc, req,
    waiting,        \* the collections that have not answered
    found,          \* the hits that pass the filters, in the order they came
    combined,       \* the hits of the response
    answered,       \* successCount: a search has succeeded
    capped,         \* filesAllCapped
    cut,            \* history: enforceMaxChars has removed something
    targets,        \* SearchAndGet: what to read,
    outcomes,       \*   each read's outcome: a size, or -1 for an error,
    done,           \*   and history: the order in which the reads ended
    next, remaining,                    \* the loop over the outcomes
    docs, truncated, other, degraded    \* of SearchAndGet's response

reading == <<targets, outcomes, done, next, remaining>>
response == <<docs, truncated, other, degraded>>
vars == <<pc, req, waiting, found, combined, answered, capped, cut, reading, response>>

FilesOnly == req.kind # "search"
FilesAll == req.kind = "files_all"
All == req.named = {}

\* A request without collections searches those of tier 1.
Scope == IF All THEN Collections ELSE req.named

Init ==
    /\ req \in Requests
    /\ pc = "search" /\ waiting = Scope
    /\ found = <<>> /\ combined = <<>>
    /\ answered = FALSE /\ capped = FALSE /\ cut = FALSE
    /\ targets = <<>> /\ outcomes = <<>> /\ done = <<>> /\ next = 1 /\ remaining = 0
    /\ docs = <<>> /\ truncated = <<>> /\ other = <<>> /\ degraded = FALSE

-----------------------------------------------------------------------------
(* Positions and sums, written without recursion                           *)

\* The hits of s at the positions in K, in the order of s.
Nth(K, i) == CHOOSE k \in K : Cardinality({l \in K : l <= k}) = i
Pick(s, K) == [i \in 1 .. Cardinality(K) |-> s[Nth(K, i)]]

\* The sum of f over K: f[k] units for each k.
Units(f, K) == UNION {{k} \X (1 .. f[k]) : k \in K}
Total(f, K) == Cardinality(Units(f, K))

Least(a, b) == IF a <= b THEN a ELSE b

-----------------------------------------------------------------------------
(* From the output of qmd to hits                                          *)

\* A row of --files output has no snippet, and a title made from the file.
AsRow(h) == [h EXCEPT !.title = IF h.file = NoName THEN BaseOfNothing ELSE h.file,
                      !.len = 0, !.markup = 0, !.stop = 0]

\* Each way of reading the output is tried in turn.  A warning with a bracket
\* in it hides the list that follows.
Parses(form, hits) == \/ form \in {"blank", "none", "json", "warned"}
                      \/ form = "csv" /\ hits # <<>>

parseSearchOutput(form, hits) ==
    CASE form \in {"blank", "none"} -> <<>>
      [] form \in {"json", "warned"} -> hits
      [] form = "csv" -> [k \in DOMAIN hits |-> AsRow(hits[k])]

\* What appendSearchArgs asks of qmd: all files, or the coarse_k best.
Asked(hits) == FilesAll \/ Len(hits) <= CoarseK

filterExclude(s, c) == Pick(s, {k \in DOMAIN s : s[k].file \notin Excluded[c]})

filterMinScore(s) == Pick(s, {k \in DOMAIN s : s[k].score >= MinScore})

\* A long snippet is cut after the last sentence that ends in the window.
CleanSnippet(h) ==
    LET n == h.len - h.markup
        end == MaxSnippet - 3
        from == IF end > SentenceWindow THEN end - SentenceWindow ELSE 0
    IN  [h EXCEPT !.markup = 0,
                  !.len = IF n <= MaxSnippet THEN n
                          ELSE (IF h.stop \in from + 1 .. end THEN h.stop ELSE end) + 3]

cleanResultSnippets(s) == [k \in DOMAIN s |-> CleanSnippet(s[k])]

-----------------------------------------------------------------------------
(* DedupSortLimit                                                          *)

\* What makes two hits the same.
Key(h) == IF h.doc # NoName THEN <<h.doc>>
          ELSE IF h.file # NoName THEN <<h.file>> ELSE <<h.title, h.len, h.score>>

Dedup(s) == Pick(s, {k \in DOMAIN s : \A l \in 1 .. k - 1 : Key(s[l]) # Key(s[k])})

\* sort.Slice is not stable: a choice of tie orders the hits of the same score.
Ties(s) ==
    LET Tied(k) == {l \in DOMAIN s : s[l].score = s[k].score}
    IN  {tie \in [DOMAIN s -> UNION {1 .. Cardinality(Tied(k)) : k \in DOMAIN s}] :
            \A k \in DOMAIN s : \A l \in Tied(k) : tie[k] = tie[l] => k = l}
Ahead(s, tie, k) ==
    {l \in DOMAIN s : \/ s[l].score > s[k].score
                      \/ s[l].score = s[k].score /\ tie[l] <= tie[k]}
SortedBy(s, tie) ==
    [i \in DOMAIN s |-> s[CHOOSE k \in DOMAIN s : Cardinality(Ahead(s, tie, k)) = i]]
Sorted(s) == {SortedBy(s, tie) : tie \in Ties(s)}

MaxPerFile == 2
OfFile(s, f) == {k \in DOMAIN s : s[k].file = f}

\* The first n hits that have fewer than two of their file before them.
Diverse(s, n) ==
    LET d == Pick(s, {k \in DOMAIN s :
                        \/ s[k].file = NoName
                        \/ Cardinality({l \in OfFile(s, s[k].file) : l < k}) < MaxPerFile})
    IN  SubSeq(d, 1, Least(n, Len(d)))

MutDedupSortLimit(s, n) ==      \* the limit comes before the order
    Sorted(IF n > 0 THEN Diverse(Dedup(s), n) ELSE Dedup(s))

DedupSortLimit(s, n) ==
    {IF n > 0 THEN Diverse(t, n) ELSE t : t \in Sorted(Dedup(s))}

-----------------------------------------------------------------------------
(* finalizeResults                                                         *)

Chars(s) == Total([k \in DOMAIN s |-> s[k].len], DOMAIN s)

enforceFilesAllMaxHits(s) ==
    IF FilesAllMaxHits > 0 THEN SubSeq(s, 1, Least(Len(s), FilesAllMaxHits)) ELSE s

MutEnforceMaxChars(s) ==    \* the hit that does not fit is kept whole
    LET Over(k) == Chars(SubSeq(s, 1, k)) > MaxChars
    IN  IF MaxChars = 0 \/ ~Over(Len(s)) THEN s
        ELSE SubSeq(s, 1, CHOOSE k \in DOMAIN s : Over(k) /\ ~Over(k - 1))

MutNegative(s) ==   \* what is left is computed after the hit is counted
    LET Over(k) == Chars(SubSeq(s, 1, k)) > MaxChars
        first == CHOOSE k \in DOMAIN s : Over(k) /\ ~Over(k - 1)
    IN  IF MaxChars = 0 \/ ~Over(Len(s)) THEN s
        ELSE [SubSeq(s, 1, first) EXCEPT ![first].len = MaxChars - Chars(SubSeq(s, 1, first))]

\* The first hit that does not fit is shortened, or dropped when nothing is
\* left, and no hit follows it.
enforceMaxChars(s) ==
    LET Over(k) == Chars(SubSeq(s, 1, k)) > MaxChars
        first == CHOOSE k \in DOMAIN s : Over(k) /\ ~Over(k - 1)
        fits == SubSeq(s, 1, first - 1)
        remain == MaxChars - Chars(fits)
    IN  IF MaxChars = 0 \/ ~Over(Len(s)) THEN s
        ELSE IF remain = 0 THEN fits
        ELSE Append(fits, [s[first] EXCEPT !.len = remain])

\* Search takes an unset limit for top_k, also when all files are asked for.
SearchN == IF req.topK > 0 THEN req.topK ELSE TopK

\* A list, and (history) whether enforceMaxChars has removed something.
finalizeResults(s) ==
    IF FilesOnly
    THEN {<<IF FilesAll THEN enforceFilesAllMaxHits(t) ELSE t, FALSE>> :
            t \in DedupSortLimit(s, SearchN)}
    ELSE {<<enforceMaxChars(t), enforceMaxChars(t) # t>> :
            t \in DedupSortLimit(cleanResultSnippets(s), SearchN)}

-----------------------------------------------------------------------------
(* The searches                                                            *)

\* Named collections are searched one after the other, in order.
Turn(c) ==
    /\ pc = "search" /\ c \in waiting
    /\ All \/ \A k, l \in DOMAIN Order : (Order[k] \in waiting /\ Order[l] = c) => l <= k

Answers(c) == {fh \in Forms \X Outputs[c] : Asked(fh[2])}

\* The result of a named collection is final before it joins the others.
SearchNamed(c) ==
    /\ ~All /\ Turn(c)
    /\ \E a \in Answers(c) :
         /\ Parses(a[1], a[2])
         /\ LET s == filterMinScore(filterExclude(parseSearchOutput(a[1], a[2]), c))
            IN  /\ \E f \in finalizeResults(s) : combined' = combined \o f[1] /\ cut' = (cut \/ f[2])
                /\ found' = found \o s
    /\ answered' = TRUE
    /\ waiting' = waiting \ {c}
    /\ UNCHANGED <<pc, req, capped, reading, response>>

\* The searches of a tier append their hits as they end.
SearchTier(c) ==
    /\ All /\ Turn(c)
    /\ \E a \in Answers(c) :
         /\ Parses(a[1], a[2])
         /\ found' = found \o filterExclude(parseSearchOutput(a[1], a[2]), c)
    /\ waiting' = waiting \ {c}
    /\ UNCHANGED <<pc, req, combined, answered, capped, cut, reading, response>>

\* qmd fails, or prints what cannot be read; the others go on.
SearchFails(c) ==
    /\ Turn(c)
    /\ waiting' = waiting \ {c}
    /\ UNCHANGED <<pc, req, found, combined, answered, capped, cut, reading, response>>

\* searchPrimaryWithTierFallback, and the end of the orchestrator's search.
FinishTier ==
    /\ pc = "search" /\ All /\ waiting = {} /\ ~answered
    /\ LET s == filterMinScore(found)
       IN  /\ \E f \in finalizeResults(s) : combined' = f[1] /\ cut' = f[2]
           /\ found' = s
    /\ answered' = TRUE
    /\ UNCHANGED <<pc, req, waiting, capped, reading, response>>

-----------------------------------------------------------------------------
(* executeSearchCore, after the searches                                   *)

CoreN == IF req.topK > 0 THEN req.topK ELSE IF FilesAll THEN 0 ELSE TopK

Aggregate ==
    /\ pc = "search" /\ waiting = {} /\ answered
    /\ \E t \in DedupSortLimit(combined, CoreN) :
         LET over == FilesAll /\ FilesAllMaxHits > 0 /\ Len(t) > FilesAllMaxHits
         IN  /\ combined' = IF over THEN SubSeq(t, 1, FilesAllMaxHits) ELSE t
             /\ capped' = over /\ degraded' = over
    /\ pc' = IF req.kind = "get" THEN "select" ELSE "done"
    /\ UNCHANGED <<req, waiting, found, answered, cut, reading, docs, truncated, other>>

AllFailed ==
    /\ pc = "search" /\ waiting = {} /\ ~All /\ ~answered
    /\ pc' = "failed"
    /\ UNCHANGED <<req, waiting, found, combined, answered, capped, cut, reading, response>>

-----------------------------------------------------------------------------
(* executeSearchAndGetCore                                                 *)

preferredHitURI(h) == IF h.file # NoName THEN h.file ELSE h.title

MaxGetDocs == IF req.maxDocs > 0 THEN req.maxDocs ELSE GetDocs
MaxGetBytes == IF req.maxBytes > 0 THEN req.maxBytes ELSE GetBytes

Select ==
    /\ pc = "select"
    /\ LET uris == [k \in 1 .. Least(MaxGetDocs, Len(combined)) |-> preferredHitURI(combined[k])]
       IN  targets' = Pick(uris, {k \in DOMAIN uris : uris[k] # NoName})
    /\ outcomes' = [k \in DOMAIN targets' |-> None]
    /\ remaining' = MaxGetBytes
    /\ pc' = "get"
    /\ UNCHANGED <<req, waiting, found, combined, answered, capped, cut, done, next, response>>

\* The reads run concurrently and end in any order.
Get(k) ==
    /\ pc = "get" /\ k \in DOMAIN targets /\ outcomes[k] = None
    /\ \E size \in Sizes \union {-1} : outcomes' = [outcomes EXCEPT ![k] = size]
    /\ done' = Append(done, k)
    /\ UNCHANGED <<pc, req, waiting, found, combined, answered, capped, cut, targets,
                   next, remaining, response>>

AllRead == pc = "get" /\ \A k \in DOMAIN targets : outcomes[k] # None

\* One turn of the loop over the outcomes: a document that does not fit into
\* what is left is named, not shown.
Take(k) ==
    /\ AllRead /\ next <= Len(targets)
    /\ \/ outcomes[k] = -1 /\ UNCHANGED <<docs, truncated, remaining>>
       \/ /\ outcomes[k] # -1 /\ remaining >= 0 /\ outcomes[k] > remaining
          /\ truncated' = Append(truncated, k)
          /\ UNCHANGED <<docs, remaining>>
       \/ /\ outcomes[k] # -1 /\ (remaining < 0 \/ outcomes[k] <= remaining)
          /\ docs' = Append(docs, k) /\ remaining' = remaining - outcomes[k]
          /\ UNCHANGED truncated
    /\ next' = next + 1
    /\ UNCHANGED <<pc, req, waiting, found, combined, answered, capped, cut, targets, outcomes,
                   done, other, degraded>>

MutFill == Take(done[next])     \* in the order in which the reads have ended

\* The outcomes are taken by position.
Fill == Take(next)

\* The text lists the hits that are not shown as documents, when there are
\* fewer documents than hits.
Assemble ==
    /\ AllRead /\ next > Len(targets)
    /\ LET shown == {targets[k] : k \in Range(docs)}
       IN  other' = IF Len(combined) > Len(docs)
                    THEN Pick(combined, {k \in DOMAIN combined :
                                           preferredHitURI(combined[k]) \notin shown})
                    ELSE <<>>
    /\ degraded' = (degraded \/ truncated # <<>>)
    /\ pc' = "done"
    /\ UNCHANGED <<req, waiting, found, combined, answered, capped, cut, reading, docs, truncated>>

-----------------------------------------------------------------------------

Next ==
    \/ \E c \in Collections : SearchNamed(c) \/ SearchTier(c) \/ SearchFails(c)
    \/ FinishTier \/ Aggregate \/ AllFailed
    \/ Select \/ Fill \/ Assemble
    \/ \E k \in 1 .. Len(targets) : Get(k)

Spec == Init /\ [][Next]_vars

-----------------------------------------------------------------------------
(* Properties                                                              *)

\* Type invariant; each target is read once and shown or named at most once,
\* whatever the order of the reads.  (Targets are positions: two hits of one file
\* are two targets, so that document is read, and may be shown, twice.)
TypeOK ==
    /\ pc \in {"search", "select", "get", "done", "failed"}
    /\ req \in Requests /\ waiting \subseteq Scope
    /\ found \in Seq(Hit) /\ combined \in Seq(Hit) /\ other \in Seq(Hit)
    /\ {answered, capped, cut, degraded} \subseteq BOOLEAN
    /\ targets \in Seq(STRING)
    /\ outcomes \in [DOMAIN targets -> Sizes \union {-1, None}]
    /\ next \in 1 .. Len(targets) + 1 /\ remaining \in Nat
    /\ \A q \in {done, docs, truncated} : q \in Seq(DOMAIN targets) /\ IsInjective(q)

\* One search answers the request.
One == All \/ Cardinality(req.named) = 1

\* The number of hits that the settings give: top_k or the request's own number,
\* and for all files files_all_max_hits, with the request's own number if any.
Limit == IF ~FilesAll THEN SearchN
         ELSE IF req.topK > 0 THEN Least(req.topK, FilesAllMaxHits)
         ELSE FilesAllMaxHits

\* A request for all files without a number of its own is cut at top_k, too: Search
\* takes top_k for the number that is not there.  It makes no difference when
\* files_all_max_hits is the smaller one.
TopKOutOfPlay == FilesAll => FilesAllMaxHits > 0 /\ (req.topK > 0 \/ FilesAllMaxHits <= TopK)

\* out holds the n best hits of s, at most two of a file: it is in order and
\* without duplicates, and a hit of s is missing only for a duplicate before
\* it, for two hits of its file that are no worse, or for n that are no worse.
BestOf(s, out, n) ==
    /\ \A k, l \in DOMAIN out : k < l =>
          out[k].score >= out[l].score /\ Key(out[k]) # Key(out[l])
    /\ \A k \in DOMAIN out : \E h \in Range(s) : h = out[k]
    /\ Len(out) <= n
    /\ \A h \in Range(out) : h.file # NoName => Cardinality(OfFile(out, h.file)) <= MaxPerFile
    /\ \A k \in DOMAIN s :
          \/ s[k] \in Range(out)
          \/ \E l \in 1 .. k - 1 : Key(s[l]) = Key(s[k])
          \/ /\ s[k].file # NoName
             /\ \E i, j \in OfFile(out, s[k].file) :
                   i # j /\ out[i].score >= s[k].score /\ out[j].score >= s[k].score
          \/ Len(out) = n /\ \A h \in Range(out) : h.score >= s[k].score

\* The response holds the Limit best of everything that was found, as if all of
\* it had been in one list, although each named collection is cut to its own
\* best hits before they are joined and cut again.  Excluded are a list that
\* enforceMaxChars has shortened (the next property has it); several named
\* collections with two hits that are the same, or with all files, whose lists
\* are limited before they meet; and all files when top_k cuts them, which
\* FilesAllOnlyCapped is about.
ListsAreBest ==
    (pc \in {"select", "get", "done"} /\ ~cut /\ TopKOutOfPlay) =>
        LET s == IF FilesOnly THEN found ELSE cleanResultSnippets(found)
            distinct == \A k, l \in DOMAIN s : Key(s[k]) = Key(s[l]) => k = l
        IN  One \/ (distinct /\ ~FilesAll) => BestOf(s, combined, Limit)

\* No snippet is longer than its limit; a request that one search answers gets at
\* most max_chars of snippets, and loses hits or parts of them to that limit only
\* when it has used all of it.  (A shortened hit without id and file may become the
\* same as another one.)  Several named collections have max_chars each:
\* MaxCharsIsTotal does not hold for them.
SnippetsWithinLimit ==
    (pc = "done" /\ req.kind = "search" /\ MaxChars > 0) =>
        /\ \A h \in Range(combined) : h.len <= MaxSnippet
        /\ One => Chars(combined) <= MaxChars
        /\ (cut /\ One /\ \A h \in Range(found) : h.doc # NoName \/ h.file # NoName)
           => Chars(combined) = MaxChars

\* README: max_chars is the limit on the total of the snippets.  The code keeps it
\* for each named collection, not for the response: it does not hold.
MaxCharsIsTotal ==
    (pc = "done" /\ req.kind = "search" /\ MaxChars > 0) => Chars(combined) <= MaxChars

\* README and the comment in execSearch: all files are capped by files_all_max_hits,
\* and by nothing else.  The code cuts them at top_k as well: it does not hold when
\* files_all_max_hits is the larger one, as in the default settings.
FilesAllOnlyCapped ==
    (pc = "done" /\ FilesAll /\ One /\ req.topK = 0 /\ FilesAllMaxHits > 0) =>
        Len(combined) = Least(FilesAllMaxHits, Cardinality({Key(h) : h \in Range(found)}))

\* SearchAndGet shows the documents of the first hits in the order of the
\* hits, whatever the order in which the reads end: each one that was read
\* and fits beside those before it, and no other.  Every hit is shown as a
\* document or listed, and a document that is left out is reported.
DocsAreGreedy ==
    (pc = "done" /\ req.kind = "get") =>
        /\ \A k, l \in DOMAIN docs : k < l => docs[k] < docs[l]
        /\ \A k \in DOMAIN targets :
              /\ k \in Range(docs) <=>
                    /\ outcomes[k] # -1
                    /\ Total(outcomes, {d \in Range(docs) : d < k}) + outcomes[k] <= MaxGetBytes
              /\ outcomes[k] # -1 => k \in Range(docs) \union Range(truncated)
        /\ \A h \in Range(combined) :
              \/ \E k \in Range(docs) : targets[k] = preferredHitURI(h)
              \/ h \in Range(other)
        /\ truncated # <<>> => degraded
=============================================================================
