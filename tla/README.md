# A formal model of qmdsr

qmdsr is a gRPC server in front of the `qmd` command line search tool. It protects a
small host from its own clients: it routes a search to a mode, degrades or sheds it when
the CPU is busy, limits how many `qmd` processes run, caches results and failures,
refreshes the index in the background, registers its collections with qmd, and keeps
qmd's MCP daemon alive. This directory holds TLA+ models of those parts,
the TLC configurations that check them, and proofs checked by TLAPS.

Paths below are relative to the repository. `PROJECT.json` has the line of source behind
each definition (`map`), the runs, the mutants, the findings and the list of hazards.

## 1. Inventory

| Component | State | Operations | Interacts with |
|---|---|---|---|
| CPU monitor `internal/resourceguard/cpu_monitor.go` | four counters, two flags, the last `/proc/stat` reading | `Start`, `loop` (tick), readers of the flags | read by orchestrator and core at any time |
| Admission `orchestrator.go:656-707`, `executor/cli.go:155-178, 394-461, 604-624` | two buffered channels, a process per call | `execSearch`, acquire/release of token and slot, `run`, kill | CPU flag; contexts of requests; qmd |
| Result cache `cache/cache.go` | map, `container/list`, version | `Get` (two phases), `Put`, `SetVersion`, `Clear`, `Cleanup` | orchestrator, scheduler, admin RPC |
| Search pipeline `api/core.go`, `orchestrator.go` | a request's mode, results, response | checks, gates, modes, tiers, deep beside broad, escalation, aggregation | both caches, CPU flags, admission |
| Deep negative cache `orchestrator.go:884-1019` | expiry of keys, failures of scopes | look-up, mark, cooldown, cleanup | pipeline, scheduler |
| Scheduler `scheduler/scheduler.go` | marks of running tasks | loops, `runTask`, `retry`, reindex, embed, cleanup | qmd, result cache, admin RPCs |
| MCP guardian `guardian/guardian.go` | health, CLI mode, count of failures | `Start`, check, restart in goroutines of their own, `Stop` | qmd daemon, admin RPC, heartbeat |
| Heartbeat `heartbeat/` | last level of each component | rounds of checks, `GetHealth` | guardian, executor, Health RPC |
| Start-up `main.go`, `config/config.go`, `executor/cli.go:55-121`, `orchestrator.go:137-211` | capabilities; collections and contexts known to qmd | load, probe, list, add, remove and add context, start the loops | qmd, scheduler |
| Result post-processing `internal/searchutil`, `internal/textutil`, `orchestrator.go:804-880` | none | drop duplicates, sort, limit, cut snippets | pipeline |
| Mode router `router/router.go` | none | `DetectMode` | pipeline |
| Executor's commands and parsers `executor/` | capabilities | argument lists, parsing | qmd |
| Config, server, formatting, main, generated protobuf | - | wiring | - |

What is hard here:

- *Concurrency.* Requests are goroutines that share two caches, two channels and the
  monitor's flags. The flags are read several times in one request and may flip between
  any two reads. `Get` and `Put` of the cache work in phases with the lock given up in
  between. Deep and broad searches run side by side. Restarts of the daemon run in
  goroutines that overlap each other and the checks; the documents of `SearchAndGet` are
  read concurrently under one budget.
- *Failure.* Each qmd call may fail, time out, be cancelled or leave a process that
  survives its kill; each path must give back what it took, and the response must say
  what was lost. The daemon crashes and hangs. A start may die between removing a context
  and adding it again.
- *Ordering and time.* Marks of the negative cache read the clock before the mutex;
  search results reach the cache after a reindex has overtaken them; sustain windows and
  cooldowns count samples and failures over time.

What makes each part correct: the flags are a hysteresis of the samples; limiters count
their holders and every call returns; map and list agree and stay within bounds; a
response keeps to what the request may see and tells what it lacks; failed queries are
skipped for as long as promised and not for ever; tasks run once at a time, end, and at
last show every change; the daemon is brought up if it can run and given up if it cannot,
and clients are told; a start leaves qmd as configured, whatever starts before it did; the
hits of a response are the best that were found.

## 2. Modules

| Module | Models | Extends or uses |
|---|---|---|
| `CPUMonitor` | the sampling loop | |
| `Semaphore` | what a limiter promises (abstract) | |
| `SearchAdmission` | token, slot, process, releases of one call; many calls | refines `Semaphore` twice |
| `ContainerList` | Go's `container/list`, pointer by pointer (external) | |
| `ResultCache` | the LRU cache and its phases | `ContainerList` |
| `SearchPipeline` | a request from handler to response, many requests | abstracts both caches |
| `DeepNegativeCache` | exact keys, scope cooldown, cleanup, clocks | |
| `IndexRefresh` | scheduler, admin RPCs, index, cache version and searches together | abstracts the cache |
| `Guardian` | the guardian, its restarts, the RPC and the daemon | |
| `SystemHealth` | heartbeat, checks and the Health RPC | composed with `Guardian` |
| `Startup` | configuration, probing, `EnsureCollections`, loops; many starts | |
| `Retrieve` | hit lists from qmd's output to the response, `SearchAndGet` | |
| `MC...` | instances for TLC | |
| `CPUMonitorProofs`, `SearchAdmissionProofs`, `ResultCacheProofs`, `SearchPipelineProofs`, `DeepNegativeProofs`, `StartupProofs`, `RetrieveProofs` | theorems | the module of that name |
| `BackgroundProofs` | theorems | what runs in the background: `SystemHealth`, and so `Guardian`, and `IndexRefresh` |

### CPUMonitor
`Tick` is one case of the `select` in `loop`: it takes the deltas of the two jiffy
counters modulo `Jiffies` (2^64 in the code, so that an idle counter that outruns the
total wraps) and records the usage as a fraction, compared with the thresholds without
division. `OverloadSwitch` and `CriticalSwitch` are the two `switch` statements: they are
separate actions because each flag is set in a critical section of its own and a request
may look in between. The defaults of `NewCPUMonitor`, the raising of the critical
threshold and the rounding of `requiredSamples` are operators. `samples` is a history
variable against which the flags are stated.

### SearchAdmission and Semaphore
A call goes through the program points `check`, `queue` (blocked on the token channel),
`slot`, `start`, `run`, `reap` (the two seconds after the kill), `freeSlot`, `freeToken`.
A channel is the number of values in it; a `select` with several ready cases is a choice;
the release is the code's non-blocking receive. `token[s]` is the channel that
`acquireOverloadSearchToken` returns, so that the release depends on it and not on the
flag. The context may end at any point by the client, and at `slot` and `run` by the
executor's timeouts. `abandoned` counts deep processes whose call has returned.

### ResultCache and ContainerList
`Get` is `GetLookup` (read lock), `GetInspect` (no lock), then `GetDrop` or `GetTouch`
(lock). `Put` is `PutTag` (reads the version before it locks) then `PutOverwrite` or
`PutInsert` with the eviction. `Cleanup` holds the lock while it visits the keys of the map
in any order (`CleanupVisit`), as Go ranges over a map; `sweep` is what it has still to
visit. Elements are reused only when no pointer leads to them, as a garbage collector would;
`CacheAssumption` asks for as many as the cache and the clients can hold. Age and version of
an entry are one bit, *current*. `used` is the reference: the cached keys in order of use.
`ContainerList` has the ring of `next` and `prev` with its sentinel, and `insert`, `remove`
and `move` are the assignments of Go's source.

### SearchPipeline
`executeSearchCore` is `Arrive`, `CheckOverload`, `CheckCritical`, `Probe` (shed check),
`DeepGate`, a search for each collection, and `Respond` or `RespondError`; `Search` of the
orchestrator is `Lookup`, `Resolve`, and then one of its three searches
(`RunBroad`; `ConsultNegative` and `RunBoth`; `Escalate` and `RunDeepTier`) with
`MarkNegative` and `Store`. A read of a CPU flag is a choice. A result list is the set of
collections its hits come from; each qmd call ends with hits, with hits below `min_score`,
empty, or with an error. `lost` is a history field, a deep search that was due and whose
results are not in the answer, which `LossIsReported` compares with what the response says.

### DeepNegativeCache
Times are relative to now. A call that fails reads the clock (`Fail`) and applies its mark
later (`Mark`), so marks overtake each other. The failures of a scope are a set of names,
with an age for each (`stamp`): nothing depends on their order in the code's slice, but two
failures of one tick must count as two. `recent` and `last` are histories of the marks,
without the forgetting that the code does.

### IndexRefresh
Documents and index are counters of changes. `RunTask`, `Update`, `Fail`, `Retry`,
`Succeed`, `Finish` are the steps of `runTask` and `retry` for a loop or an RPC; `Succeed`
of a reindex sets the version, which is new unless one was set within the same second.
Searches look up, read the index through qmd, read the version and store. The names of this
module (`InitRefresh`, `tpc`, `indexed`) are kept apart from those of `Guardian`, since
`BackgroundProofs` extends both.

### Guardian and SystemHealth
A worker is the main goroutine in `Start`, a restart goroutine of `check`, or an RPC; its
`pc` goes through `stop`, `start`, `verify` and `report`, with the commands of the executor
in between and no lock held. `check` is `Tick` (the probe) and then, under the mutex,
`CheckAnswered`, `GiveUp` or `AskRestart`. The daemon (external) is down, up, or hung; it
crashes and hangs at any time, qmd may stop working, and a command that fails may have had
its effect. `Restarts` bounds how many goroutines of `check` are alive; the loop waits
while all are busy. `SystemHealth` extends `Guardian` by the index and the tracker's
levels: `Check(c)` is one turn of `runChecks`, in any order since it ranges over a Go map,
and `Status` and `Mode` are `buildHealthResponse` for any value of the CPU flags.

### Startup
One behaviour is several starts over one qmd (external), which keeps `collections` and
`contexts`. A start is `Load`, `Probe`, `ListCollections`, the loop of `EnsureCollections`
(`Registered`, `AddCollection`, `AddContext`), `ListContexts`, the loop of
`syncCollectionContexts` (`InOrder`, `OutOfOrder`, `RemoveContext`, `ReplaceContext`),
`EndSync` and `Schedule`; `Exit` may end it anywhere. Every command may fail with or
without its effect, and `clean` is a history of whether one has. `ContextRemove` tries up
to three subcommands, one step each. A list of collections is read or not by the form in
which qmd prints it.

### Retrieve
A hit is its id, file, title, score, the length of its snippet and what cleaning strips.
qmd (external) answers with any of a set of lists in one of several forms; `Parses` and
`parseSearchOutput` say which forms are read and what is lost. Lists are filtered, sorted
and summed by positions and cardinalities, without recursion: `Pick` takes the hits at a set of
positions, a sort ranks a hit by the number of hits `Ahead` of it for any order of ties, and
`Total` counts units. `DedupSortLimit` returns the set of lists that an unstable sort may leave.
`SearchNamed` finalizes the hits of a collection before they are joined, `SearchTier` appends
them as searches end; `Select`, `Get`, `Fill` and `Assemble` are `executeSearchAndGetCore`,
with the reads ending in any order; `Fill` is one turn of the loop over the outcomes, at
position `next` with `remaining` bytes left. `cut` and `done` are histories: whether
`enforceMaxChars` has removed something, and the order in which reads ended. Lengths are in
characters, and the ellipsis counts three.

## 3. Runs

| Run | Expect | Shows |
|---|---|---|
| `cpu_monitor` | pass | `OverloadedIsHysteresis`, `CriticalIsHysteresis`: each flag is exactly the hysteresis of the whole history; `RecoveryClearsBoth` |
| `search_admission` | pass | `TokensAccounted`, `WaitedQueriesBounded`; both channels implement `Semaphore`; `EveryCallReturns` |
| `result_cache` | pass | `ListIsRecencyOrder`, `CapacityBound` with every overlap but that of `Clear` with a `Get` |
| `result_cache_clear` | violation | `EvictFindsAnItem`: `Clear` between the phases of a `Get` leads to a panic in `evict` |
| `search_pipeline` | pass | `DeepOnlyIfAllowed`, `ScopeRespected`, `LossIsReported` |
| `confirm_on_hit` | violation | `ConfirmRequired`: a cache hit skips the confirm gate |
| `deep_negative` | pass | `ThreeFailuresCoolScope`, `FailureSkippedForTTL`, `DeepOpensAgain` |
| `index_refresh` | pass | `TasksExclusive`, `EveryTaskEnds`, `EveryChangeServed` |
| `guardian` | pass | `ModeAgrees`, `HealsItself`, `FallsBack`: level and mode agree, and in the end say how the daemon is |
| `system_health` | pass | `OutageReported`, `RecoveryReported`: through guardian, heartbeat and response |
| `startup` | pass | `StartConverges`, `InPlaceUntouched`, `LowResourceContained` |
| `retrieve` | pass | `ListsAreBest`, `SnippetsWithinLimit`, `DocsAreGreedy` |

Run one with `tlc -workers 2 -config <cfg> <module>` here. Every property of a passing run
has a mutant in `PROJECT.json`: a plausible slip in one definition with which TLC finds
the property violated.

### Bounds, and why they are enough
- `cpu_monitor` (224 thousand states): six samples, with windows of three, two and two
  samples after rounding, so that each flag can go on, off and on again or almost. The six
  readings cover each case of both switches, one exactly on a threshold and one that
  wraps. The theorems remove the bound. Deadlock is not checked, since the loop may stop.
- `search_admission` (16 thousand states): two calls on channels of one place, the least
  at which calls wait for each other while they hold something else. The theorems cover
  any number.
- `result_cache` (81 thousand states up to symmetry): two clients, three keys, two entries,
  so that an eviction meets another client's lookup; four elements, the entries and one for
  each client, and `TypeOK` says that a `Put` finds one free. The theorems cover any number.
- `search_pipeline` (868 thousand states): two requests that meet in the same keys of a
  cache of one entry, with a collection in each tier, one behind the confirmation and one
  unknown; the shapes let one request go deep, over several collections and over the deep
  budget while the other asks for plain search with fallback. The theorems cover any
  requests, collections and policies.
- `deep_negative` (763 thousand states): three calls, as many as failures make a cooldown,
  two queries in one scope (scopes do not meet), a TTL and window of two ticks, a cooldown of three,
  marks that wait up to one tick. The theorems cover any of these.
- `index_refresh` (38 thousand states): a loop and an RPC for the reindex, an RPC for the
  embedding, two searches, one change of the documents, one retry in place of three; more
  retries repeat the same step, and the theorems cover any number.
- `guardian` (42 thousand states): two restarts of `check` and one RPC at once, so that one
  may stop what another has started and a third reports it; three retries, the default.
  Deadlock is not checked, since `Stop` ends everything.
- `system_health` (97 thousand states): one restart and no RPC, whose overlaps are
  `guardian`'s; all five components; an index with and without its file; status printed
  in the two forms that are read. Deadlock as in `guardian`.
- `startup` (436 thousand states): two starts over configurations with up to three
  collections, two of which share a path, whose contexts change between starts, are blank
  or absent, in another order; every combination of permissions; a qmd that knows only
  `context remove`. A third start meets nothing that two do not leave behind; the theorems
  cover any number. Deadlock is not checked: the bound on starts ends a behaviour.
- `retrieve` (708 thousand states): a collection with all orders and subsets of four hits
  and one with all pairs of five, among them two hits of one file, ties, an excluded file, a
  duplicate under another score, hits without id or name and snippets around each limit;
  eighteen requests of the four kinds. Deadlock is not checked: a request ends. The theorems
  cover any hits, requests, collections and settings.

`result_cache` sets `ClearOverlaps = FALSE`: `Clear` runs, but not while a client holds an
element. With the overlap the properties fail, `CapacityBound` too: `MoveToFront` then links
an element that is in no map, and the evict that finds it at the back makes no room.
`result_cache_clear` shows the worst outcome.

What the properties leave out is said at each of them. In particular:
- `WaitedQueriesBounded` counts the processes that a call waits for, not those that outlive
  the two seconds after the kill.
- `DeepOnlyIfAllowed` is about the request (what it asked, the overload flag on admission,
  the deep gate), the limits on the query and what qmd can do. The flag is read again in
  `resolveMode` and before an escalation, and each read decides for that moment only.
- `LossIsReported` is about deep searches that were due and failed as a whole, found nothing
  or were skipped. What the code itself does not report is no loss in its sense (section 5).
- `ListsAreBest` excludes lists that `max_chars` has shortened (`SnippetsWithinLimit` has
  them), several named collections that share a hit or are asked for all files, and
  `files_all` when `top_k` cuts it. `SnippetsWithinLimit` gives the total for a request that
  one search answers. Both documented limits beyond that are in section 5.

### Fairness
- `SearchAdmission`: a goroutine that can step does, timers of `Query` and `execSearch`
  fire (weak fairness); a sender blocked on a channel is served in order, so it does not
  lose to later senders for ever (strong fairness of `TakeToken`, `TakeSlot`: Go queues
  blocked senders first in, first out). No process has to exit and no client has to cancel.
- `DeepNegativeCache`: time passes, and a mark gets the mutex. `DeepOpensAgain` is over
  calls that may fail whenever they run.
- `IndexRefresh`: the tickers tick and the commands end, having timeouts of 5 and 30
  minutes (weak fairness of loops and of task steps); `qmd update`, tried again and again, at last does its work
  (strong fairness of `Update`); searches end and the TTL is finite. No RPC has to come.
- `Guardian`, `SystemHealth`: workers and loops step (commands have timeouts, tickers tick)
  and each component is checked again and again. The daemon, qmd, the RPC and `Stop` owe
  nothing. `HealsItself` and `RecoveryReported` are about behaviours in which disturbances
  end and, from then on, a check does not fall into a restart: with `check_interval` at its
  default of 60 seconds a restart, with its three seconds of sleep, is over before the next
  check. Without that premise `HealsItself` is false, and rightly: an interval shorter than a
  restart makes each check start another restart that stops the daemon again.
- The other specifications have no liveness property and no fairness.

## 4. Proofs

All for every value of the constants that the named assumptions allow; these give the
constants their types and, for `ResultCache`, memory enough. What a theorem asks beyond
that stands in its own `ASSUME`. Each inductive invariant was first checked by TLC on the
instance of its run.

- `CPUMonitorProofs`: `TypeCorrect`, `OverloadedCorrect`, `CriticalCorrect`,
  `RecoveryCorrect`. The flags are stated over the history but computed from counters, so
  the property is not inductive. `IInv` adds that each counter is the length of the longest run of
  its kind that ends with the last sample its switch has seen (`Trailing`), and that
  between the tick and the switches `usage` is the last sample. `HysteresisStep` says what
  one more sample does to the hysteresis; `RunIsCount` turns "counter at least k" into "a
  run of k ends here". `RecoveryCorrect` needs besides that a sample at or below the
  recover threshold counts for the recovery of both flags; the code's `switch` order decides
  what happens when the thresholds overlap.
- `SearchAdmissionProofs`: `TypeCorrect`, `AccountingCorrect`, `WaitedQueriesCorrect`,
  `TokensRefineSemaphore`, `SlotsRefineSemaphore`, for any finite set of calls and any
  limits. `IInv` is the type invariant, the accounting, the slot limit and `Coherent`,
  which ties the program point of a call to what it holds. Each step moves a channel and
  its holders together in one of three ways (`TokenMove`, `SlotMove`), from which both the
  counts and the refinement mappings follow.
- `ResultCacheProofs`: `CacheTypeCorrect`, `RecencyCorrect`, `CapacityCorrect`, `EvictCorrect`
  and the action property `NoEntryLost`,
  for any clients, keys and capacity, under `ClearOverlaps = FALSE`; without that they are
  false (finding 1). Three layers. First the list: `Ring` says that the pointers run through
  a sequence, `RemoveRep`, `PushRep`, `MoveRep` and `BackRep` that each operation of
  `container/list`, with its pointer assignments in their order, does to that sequence what it promises. Then
  `IsCache`: map, ring and items are those of one sequence of distinct keys, and dropping,
  touching, inserting and ageing keep that (`RemoveCache`, `MoveCache`, `PushCache`,
  `ItemsCache`). Last the clients: `Inv` is the types, `IsCache` of `used` with at most
  `MaxEntries` keys, and that a `Get` between its phases holds an element whose item has
  the key it looked up. This is what makes the second phase safe when the
  element has been dropped, or dropped and replaced, meanwhile. `FreshExists` counts: the map holds at most `MaxEntries`
  elements, the clients one each and the inserting client none. `NoEntryLost` says of every step
  which keys may enter or leave the map (`Explained`): of the entries that a Put of another key
  may cost, only the one that has been unused for longest, and only of a full cache. It rests
  on `Inv`, since `evict` finds the key it deletes through the item at the back of the ring.
  It does not protect an entry from a `Get` of its own key: one that inspected a stale entry
  deletes by key (`cache.go:76`), and a fresh entry stored meanwhile goes.
  `Explained` stands in the proof module; no run lists it.
- `SearchPipelineProofs`: `TypeCorrect`, `DeepCorrect`, `ScopeCorrect`, `LossCorrect`, for any
  requests at once, any collections, policies and CPU flags. None of the three properties
  is inductive, since a response may come from the cache: `CacheOK` says that each entry
  answers its key (hits from collections that the key admits, deep only if mode and query of
  the key allow it), and `RequestsOK` says for each program point what plan, partial results and
  response may hold, the losses noted so far included. `GateOK` carries the deep gate: only a
  deep request has the mode `query`, and once it is past the gate its query is within the
  limits, which is why `resolveMode` need not ask again. There is a lemma for each action, and lemmas for what
  `Joined` and `Completed` do to hits, depth and notes.
- `DeepNegativeProofs`: `FailureSkipped` and `TypeCorrect`, for a TTL above 0 (with 0 the code
  marks nothing); `CooldownCorrect`, for a cooldown in use that lasts at least the window and the
  wait for the mutex (default: ten minutes for a window of five; a shorter one may end while
  the failures that started it still count).
  `IInv` is `AddsUp` for every key: the expiry and the age of the last mark add up to the
  TTL, less at most the wait by which an older mark may have replaced a newer one. A tick
  moves both by one, a mark sets both, look-up and cleanup delete only what has expired, and
  the key of a scope's cooldown is never the key of a query. `CoolInv` is about failures: one
  that counts is noted, or a cooldown took it whose expiry and the age of that failure add
  up to at least the cooldown less the wait, so that it outlasts the failure. Fewer than
  three are ever noted (`TInv`), so of three that count a cooldown took one.
- `BackgroundProofs`: `GuardianTypeCorrect`, `ModeCorrect`, for any number of restarts and
  RPCs. The two invariants are inductive together: every critical section sets level and
  mode together or leaves Unhealthy, with which both modes agree. `HealthTypeCorrect` carries
  the types over to the composition with heartbeat and tracker (`SystemHealth`), and
  `HidesNothingCorrect` shows what the response says of them: unless the host is critical,
  no component is worse than the status. `RefreshTypeCorrect` and `TasksExclusiveCorrect` are about
  `IndexRefresh`, for any loops, RPCs, searches and retries: `TasksExclusive` is inductive
  together with the types, since who enters finds the mark off, so nobody else runs the task,
  and who leaves takes away a mark that is no one else's; no mark is left behind.
- `StartupProofs`: `TypeCorrect`, `LowResourceCorrect`, `InPlaceCorrect`, `StartCorrect`, for
  any configurations (shared paths and names included), any subcommands and any number of
  starts. `TypeInv` adds where the index `i` stands. `Contained` says what each of
  configuration, executor and scheduler adds to the containment. `InPlaceCorrect` needs
  `Foresight`: what `syncCollectionContexts` has listed is still true of each path that
  only a later collection has, so that it removes only what differs.
  `StartCorrect` needs `RegInv` and `SyncInv`: while nothing has failed, the collections
  before `i` are registered, the map agrees with qmd except at the path at hand, and each
  path has the context of its last collection before `i`.

- `RetrieveProofs`: `TypeCorrect`, `BestHits`, `CharsWithinLimit`, `CharsWithinLimits`, `GreedyDocs`, for any hits,
  requests, collections, settings and orders of ties. First the operators: `PickIs`, `SortedIs`,
  `DedupIs`, `DiverseIs` and `EnforceMaxCharsIs` say what each returns for every list, in
  terms of `Places` (the result takes each hit from a place of its own in the input). Since the
  operators are defined by positions and cardinalities, these are counting arguments; where
  one needs induction, it takes the least counterexample (`LeastMember`), which rests on the
  library's theorem that < is well-founded, cited without an operator parameter.
  `DedupSortLimitIsBest` then gives the property for one list. Two inductive invariants
  follow. `SearchInv`: once a single search has answered, its list is the best of what it found
  and keeps its budgets (`Answered`); the characters of several collections are bounded by how
  many of them have ended (`Spent`, from which `CharsWithinLimits` has k times `max_chars`
  for k collections); while several named collections are searched, their
  lists are `Joined`: each hit found so far is in the union or outdone by enough hits of the
  union, by the limit or by two of its own file (`Gathered`); and after the last cut the list is
  the best of everything (`United`). The step from `Gathered` to `United` is `UnionIsBest`, the
  reason why cutting each collection first loses nothing: a hit cut from its own list
  would be cut from the union too, even where the hits that pushed it out are themselves
  pushed out by others of their file (`CrowdedIsBeaten`). `GetInv`: the documents chosen
  so far rise by position, are the greedy choice among the outcomes before `next`, and leave
  `remaining` (`Filled`); reads fill their own outcome only once (`Reads`); and each hit
  is a target when there are as many targets as hits (`Covered`), which is why nothing is lost when
  the text lists no further hits. TLC has checked both invariants on the instance of the run.

Only model-checked: all liveness (`EveryCallReturns`, `DeepOpensAgain`, `EveryTaskEnds`,
`EveryChangeServed`, `HealsItself`, `FallsBack`, `OutageReported`, `RecoveryReported`), since
the prover has no rules for fairness. Every other property of a passing run is a theorem.

## 5. Findings

The first two are runs that TLC refutes, with the sentence they contradict quoted in
`PROJECT.json`; the third is two further configurations that TLC refutes.

1. `result_cache_clear`: `CacheClear` during a `Get` can corrupt the list; a later `Put`
   panics in `evict`, and no recovery interceptor is installed. The map may also outgrow
   `max_entries` this way.
2. `confirm_on_hit`: the confirm gate stands behind the cache, and the key does not hold
   `Confirm`.
3. Two limits are documented otherwise than the code keeps them. `Retrieve` states what the
   documentation says, and TLC refutes it with `tlc -config <cfg> MCRetrieve`; the properties
   of the run `retrieve` exclude these cases.
   - `RetrieveMaxChars.cfg`, `MaxCharsIsTotal`: README:469 calls `max_chars` the limit on the
     total of the snippets ("snippet 总字符上限"). `enforceMaxChars` is applied to each named
     collection (`orchestrator.go:814`) and the union is not cut again, so that k of them
     return up to k times as much. In the trace two named collections exceed the limit together.
   - `RetrieveFilesAll.cfg`, `FilesAllOnlyCapped`: the comment at `orchestrator.go:672` ("Let
     qmd return all file paths; capped later by files_all_max_hits"), README:470 and the test
     of `finalizeResults` with `n = 0` (`runtime_guards_test.go:24`) have `files_all` limited
     by `files_all_max_hits` alone. `Search` takes `top_k` for the number that is not given
     (`orchestrator.go:235`), and `finalizeResults` cuts there first (`orchestrator.go:806`): by
     default a client gets 8 of up to 200 files. In the trace three files are found and two
     returned, with a limit of four.

Seen while modelling and present in the models:

- The errors of a tier search are dropped (`orchestrator.go:1023`): when every call of a
  search over all collections fails, nothing is answered and cached as success, though
  README:401 maps a timeout of qmd to `DEADLINE_EXCEEDED`.
- For `files_all`, `n = 0` means no limit to the shed check and `top_k` to `Search`
  (`orchestrator.go:122, 235`), so that cached requests are shed (README:335).
- An auto request that the overload flag sends to plain search in `resolveMode`
  (`orchestrator.go:295`) is answered without a word of it, unlike one that meets the flag on
  admission; so is a deep search of tier 1 that failed for some of its collections.
- Two hits of one file give the same target twice (`core.go:329`): that document is read
  twice, counted twice against the byte budget, and may be shown twice.
- The slot of a killed deep query is given back after two seconds whether its process is
  gone or not (`cli.go:429`), so that live processes may exceed `query_max_concurrency`.
- Results are tagged with the version at the time they are stored (`cache.go:103`), and
  versions have a resolution of one second: results from before a reindex may be served as
  current until their TTL ends. `EveryChangeServed` shows that they do not stay.
- The critical flag may come on before the overloaded one, as its sustain is shorter, though
  the README draws it as the stage after.
- `restart_max_retries = n` gives n - 1 restarts, and 1 gives none (`guardian.go:140`).
- `parseStatusJSON` accepts any JSON object as a status, so its branches for a count inside
  `status` or `documents` are not reached, and embeddings are then Degraded for ever.
- A hit without id and file is told from others by title, snippet and score
  (`searchutil.go:21`), and the list of a collection is searched for duplicates again after
  `max_chars` has shortened its last snippet: the shortened hit may then pass for another one.
  The last clause of `SnippetsWithinLimit` is about hits that have an id or a file.
- A duplicate is dropped in favour of the first occurrence, not the one with the better score
  (`searchutil.go:23`), so that a document of two named collections may lose its better
  hit; `ListsAreBest` says so.
- A collection whose path or mask has changed in the configuration is never updated
  (`orchestrator.go:150` looks at the name), and contexts of paths that are no longer
  configured stay in qmd.

## 6. Not modelled

- `Get` and `MultiGet` pass their arguments on to qmd and keep no state.
- Contents of cache entries, and so the torn read of an entry that `Put` overwrites while
  a response is built from it; the data race on the version string.
- `DetectMode` is its outcome for each query: how words and cues are counted is left out, as
  is which characters of a snippet are markup.
- Argument lists of qmd's commands, the text formats that the parsers accept beyond what is
  read and what is lost, reading of YAML, layout of responses, logging: text without state
  of interest.
- Listening and shutdown of the server; contexts that end are failures of the commands they
  run (`Guardian` has `Stop`).
- Generated protocol code.

## 7. Plan

Order of the modules: `CPUMonitor`, `SearchAdmission`, `ResultCache`, `SearchPipeline`,
`DeepNegativeCache`, `IndexRefresh`, `Guardian`, `SystemHealth`, `Startup`, `Retrieve`; all are
done, with theorems for every safety property. What is left:

1. The contents of cache entries, for the torn read of an entry that is overwritten in place.
2. `SearchPipeline` over the hit lists of `Retrieve` in place of sets of collections.
