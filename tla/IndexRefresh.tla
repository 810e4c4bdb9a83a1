---------------------------- MODULE IndexRefresh ----------------------------
(***************************************************************************)
(* The scheduler beside the searches whose results it invalidates.  The    *)
(* loop of a task and the admin RPCs call runTask, which skips a task that *)
(* is running and retries one that fails; a reindex runs qmd update and    *)
(* then gives the result cache a new version.  A search reads the index    *)
(* through qmd and stores what it read, tagged with the version of the     *)
(* moment it is stored.                                                    *)
(*                                                                         *)
(* The documents and the index are counters of changes.  One cache key is  *)
(* enough, as keys do not meet here.  As in ResultCache, the age and the   *)
(* version of an entry come down to whether it is current.  A version is   *)
(* the time of the reindex in whole seconds.  A runner that finds its task *)
(* running does nothing, which is a stuttering step.  Left out: lastEmbed  *)
(* and lastFull, which nothing reads.                                      *)
(***************************************************************************)
EXTENDS Integers

CONSTANTS
    Loops,          \* the scheduler's loops
    Admins,         \* goroutines of the admin RPCs
    Task,           \* Task[r]: the task that a loop or caller runs
    Searches,       \* concurrent searches
    VersionAware,   \* cache.version_aware
    MaxRetries,     \* how often a failed task is retried, 3 in the code
    MaxDocs,        \* bound on the changes of the documents
    None            \* no entry

Runners == Loops \union Admins
Tasks == {"index_refresh", "embed_refresh", "embed_full_refresh"}

ASSUME RefreshAssumption ==
    /\ Loops \intersect Admins = {}
    /\ Task \in [Runners -> Tasks]
    /\ VersionAware \in BOOLEAN /\ MaxRetries \in Nat /\ MaxDocs \in Nat
    /\ None \notin [index : Nat, current : BOOLEAN]

VARIABLES
    docs,       \* the state of the documents
    indexed,    \* the state of the documents that the index shows
    running,    \* the tasks marked running
    tpc, attempt,
    fresh,      \* the version was set within the current second
    entry,      \* the cache entry
    spc,        \* where a search stands,
    indexSeen,  \*   and the index it has seen
    tag         \* tag[s]: whether the version that Put has read is still c.version

taskVars == <<indexed, running, tpc, attempt, fresh>>
searchVars == <<spc, indexSeen>>
refreshVars == <<docs, taskVars, entry, searchVars, tag>>

InitRefresh ==
    /\ docs = 0 /\ indexed = 0
    /\ running = {}
    /\ tpc = [r \in Runners |-> "idle"]
    /\ attempt = [r \in Runners |-> 0]
    /\ fresh = FALSE
    /\ entry = None
    /\ spc = [s \in Searches |-> "idle"]
    /\ indexSeen = [s \in Searches |-> 0]
    /\ tag = [s \in Searches |-> FALSE]

-----------------------------------------------------------------------------
(* runTask and retry                                                       *)

MutRunTask(r) ==    \* the mark is not looked at
    /\ tpc[r] = "idle"
    /\ running' = running \union {Task[r]}
    /\ tpc' = [tpc EXCEPT ![r] = "run"]
    /\ UNCHANGED <<docs, indexed, attempt, fresh, entry, searchVars, tag>>

\* A tick of the loop, or an RPC.
RunTask(r) ==
    /\ tpc[r] = "idle"
    /\ Task[r] \notin running
    /\ running' = running \union {Task[r]}
    /\ tpc' = [tpc EXCEPT ![r] = "run"]
    /\ UNCHANGED <<docs, indexed, attempt, fresh, entry, searchVars, tag>>

\* qmd update brings the index up to date, some time before it exits.
Update(r) ==
    /\ tpc[r] = "run" /\ Task[r] = "index_refresh"
    /\ indexed' = docs
    /\ tpc' = [tpc EXCEPT ![r] = "updated"]
    /\ UNCHANGED <<docs, running, attempt, fresh, entry, searchVars, tag>>

MutFailForever(r) ==    \* the attempts are not counted
    /\ tpc[r] \in {"run", "updated"}
    /\ tpc' = [tpc EXCEPT ![r] = "sleep"]
    /\ UNCHANGED <<docs, indexed, running, attempt, fresh, entry, searchVars, tag>>

MutFailLate(r) ==       \* one retry too many
    /\ tpc[r] \in {"run", "updated"}
    /\ tpc' = [tpc EXCEPT ![r] = IF attempt[r] <= MaxRetries THEN "sleep" ELSE "finish"]
    /\ attempt' = [attempt EXCEPT ![r] = IF @ <= MaxRetries THEN @ + 1 ELSE @]
    /\ UNCHANGED <<docs, indexed, running, fresh, entry, searchVars, tag>>

MutFailMarked(r) ==     \* the last failure leaves the mark
    /\ tpc[r] \in {"run", "updated"}
    /\ tpc' = [tpc EXCEPT ![r] = IF attempt[r] < MaxRetries THEN "sleep" ELSE "idle"]
    /\ attempt' = [attempt EXCEPT ![r] = IF @ < MaxRetries THEN @ + 1 ELSE @]
    /\ UNCHANGED <<docs, indexed, running, fresh, entry, searchVars, tag>>

\* The command fails or is cancelled, before or after it has changed the index.
Fail(r) ==
    /\ tpc[r] \in {"run", "updated"}
    /\ tpc' = [tpc EXCEPT ![r] = IF attempt[r] < MaxRetries THEN "sleep" ELSE "finish"]
    /\ attempt' = [attempt EXCEPT ![r] = IF @ < MaxRetries THEN @ + 1 ELSE @]
    /\ UNCHANGED <<docs, indexed, running, fresh, entry, searchVars, tag>>

\* time.Sleep; the context is not consulted.
Retry(r) ==
    /\ tpc[r] = "sleep"
    /\ tpc' = [tpc EXCEPT ![r] = "run"]
    /\ UNCHANGED <<docs, indexed, running, attempt, fresh, entry, searchVars, tag>>

\* The command succeeds.  A reindex sets the version: a new one unless one was set
\* in the same second.
Succeed(r) ==
    /\ tpc[r] = IF Task[r] = "index_refresh" THEN "updated" ELSE "run"
    /\ tpc' = [tpc EXCEPT ![r] = "finish"]
    /\ IF Task[r] # "index_refresh"
       THEN UNCHANGED <<fresh, entry, tag>>
       ELSE /\ fresh' = TRUE
            /\ IF fresh \/ ~VersionAware THEN UNCHANGED <<entry, tag>>
               ELSE /\ entry' = IF entry = None THEN None ELSE [entry EXCEPT !.current = FALSE]
                    /\ tag' = [s \in Searches |-> FALSE]
    /\ UNCHANGED <<docs, indexed, running, attempt, searchVars>>

\* The deferred function of runTask.
Finish(r) ==
    /\ tpc[r] = "finish"
    /\ running' = running \ {Task[r]}
    /\ tpc' = [tpc EXCEPT ![r] = "idle"]
    /\ attempt' = [attempt EXCEPT ![r] = 0]
    /\ UNCHANGED <<docs, indexed, fresh, entry, searchVars, tag>>

-----------------------------------------------------------------------------
(* The other users of the cache                                            *)

Hits == entry # None /\ entry.current

\* Get, and the search that a miss starts; what it finds stale it removes.
Lookup(s) ==
    /\ spc[s] = "idle" /\ ~Hits
    /\ entry' = None
    /\ spc' = [spc EXCEPT ![s] = "search"]
    /\ UNCHANGED <<docs, taskVars, indexSeen, tag>>

\* qmd reads the index for the search.
ReadIndex(s) ==
    /\ spc[s] = "search"
    /\ indexSeen' = [indexSeen EXCEPT ![s] = indexed]
    /\ spc' = [spc EXCEPT ![s] = "found"]
    /\ UNCHANGED <<docs, taskVars, entry, tag>>

SearchFails(s) ==
    /\ spc[s] \in {"search", "found"}
    /\ spc' = [spc EXCEPT ![s] = "idle"]
    /\ indexSeen' = [indexSeen EXCEPT ![s] = 0]
    /\ UNCHANGED <<docs, taskVars, entry, tag>>

\* Put reads the version.
PutTag(s) ==
    /\ spc[s] = "found"
    /\ tag' = [tag EXCEPT ![s] = TRUE]
    /\ spc' = [spc EXCEPT ![s] = "store"]
    /\ UNCHANGED <<docs, taskVars, entry, indexSeen>>

Put(s) ==
    /\ spc[s] = "store"
    /\ entry' = [index |-> indexSeen[s], current |-> tag[s]]
    /\ spc' = [spc EXCEPT ![s] = "idle"]
    /\ indexSeen' = [indexSeen EXCEPT ![s] = 0]
    /\ tag' = [tag EXCEPT ![s] = FALSE]
    /\ UNCHANGED <<docs, taskVars>>

\* The entry outlives the TTL.
Expire ==
    /\ Hits
    /\ entry' = [entry EXCEPT !.current = FALSE]
    /\ UNCHANGED <<docs, taskVars, searchVars, tag>>

\* taskCacheCleanup removes it if it is not current; CacheClear and an eviction in
\* any case.
Remove ==
    /\ entry # None
    /\ entry' = None
    /\ UNCHANGED <<docs, taskVars, searchVars, tag>>

-----------------------------------------------------------------------------
(* The world                                                               *)

ChangeDocs ==
    /\ docs < MaxDocs
    /\ docs' = docs + 1
    /\ UNCHANGED <<taskVars, entry, searchVars, tag>>

NextSecond ==
    /\ fresh
    /\ fresh' = FALSE
    /\ UNCHANGED <<docs, indexed, running, tpc, attempt, entry, searchVars, tag>>

TaskStep(r) == Fail(r) \/ Retry(r) \/ Succeed(r) \/ Finish(r)
SearchStep(s) == ReadIndex(s) \/ SearchFails(s) \/ PutTag(s) \/ Put(s)

NextRefresh ==
    \/ \E r \in Runners : RunTask(r) \/ Update(r) \/ TaskStep(r)
    \/ \E s \in Searches : Lookup(s) \/ SearchStep(s)
    \/ Expire \/ Remove
    \/ ChangeDocs \/ NextSecond

\* The tickers tick, commands end (they have timeouts), and qmd update does not fail
\* for ever; searches end, and the TTL is finite.  No RPC has to come.
FairRefresh ==
    /\ \A r \in Runners : WF_refreshVars(TaskStep(r)) /\ SF_refreshVars(Update(r))
    /\ \A r \in Loops : WF_refreshVars(RunTask(r))
    /\ \A s \in Searches : WF_refreshVars(SearchStep(s))
    /\ WF_refreshVars(Expire)

SpecRefresh == InitRefresh /\ [][NextRefresh]_refreshVars /\ FairRefresh

-----------------------------------------------------------------------------
(* Properties                                                              *)

\* Type invariant; a task is tried at most once and retried at most MaxRetries times.
RefreshTypeOK ==
    /\ docs \in 0..MaxDocs /\ indexed \in 0..docs
    /\ running \subseteq Tasks
    /\ tpc \in [Runners -> {"idle", "run", "updated", "sleep", "finish"}]
    /\ attempt \in [Runners -> 0..MaxRetries]
    /\ fresh \in BOOLEAN
    /\ entry = None \/ entry \in [index : 0..MaxDocs, current : BOOLEAN]
    /\ spc \in [Searches -> {"idle", "search", "found", "store"}]
    /\ indexSeen \in [Searches -> 0..MaxDocs]
    /\ tag \in [Searches -> BOOLEAN]

\* A task runs at most once at a time, the loop and the RPCs together, while it waits
\* for a retry too, and the mark says whether it runs (runTask).
TasksExclusive ==
    /\ running = {Task[r] : r \in {x \in Runners : tpc[x] # "idle"}}
    /\ \A r1, r2 \in Runners :
         r1 # r2 /\ Task[r1] = Task[r2] => tpc[r1] = "idle" \/ tpc[r2] = "idle"

\* A task that was started ends, after its retries, however often its command fails
\* (runTask, retry).
EveryTaskEnds == \A r \in Runners : tpc[r] # "idle" ~> tpc[r] = "idle"

\* A change of the documents reaches the clients: there is a time from which no
\* search is answered from an entry without it.  The refresh loop indexes it though
\* RPCs may take the task's mark from the loop and commands may fail, and the TTL
\* clears what the version does not (taskReindex, Put, Get).
EveryChangeServed ==
    \A d \in 1..MaxDocs : (docs >= d) ~> [](Hits => entry.index >= d)
=============================================================================
