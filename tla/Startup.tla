------------------------------ MODULE Startup -------------------------------
(***************************************************************************)
(* A start of the program up to the scheduler: the configuration gets its  *)
(* defaults, the executor probes qmd for its subcommands,                  *)
(* EnsureCollections registers the configured collections and brings their *)
(* contexts up to date, and the scheduler starts its loops.  Starts follow *)
(* each other over one qmd, which keeps collections and contexts; the      *)
(* operator may edit the configuration between two starts, a start may die *)
(* at any point, and any command may fail, with or without its effect.     *)
(*                                                                         *)
(* qmd is external: collection add fails for a name that exists, context   *)
(* add may replace a context or fail, and context rm (or remove, or both,  *)
(* depending on the version) fails for a path that has none.  Masks, tiers *)
(* and the settings that no property here is about are left out.           *)
(***************************************************************************)
EXTENDS Integers, Sequences

CONSTANTS
    Names, Paths, Contexts,     \* of collections
    Empty, Blank,       \* contexts: no text, and only spaces
    Configs,            \* the configurations the program may be started with
    ListForms,          \* how qmd prints its collections
    Supported,          \* the optional subcommands of this qmd
    RemoveCommands,     \* its subcommands of context that remove one
    MaxStarts,          \* bound on the starts of one behaviour
    None                \* no such collection or context

Collection == [name : Names, path : Paths, context : Contexts]
Settings == [cols : Seq(Collection), lowResource : BOOLEAN,
             cpuDeep : BOOLEAN, cpuVSearch : BOOLEAN, smartRouting : BOOLEAN]
Features == {"vector", "deep_query", "mcp", "status"}

ASSUME StartupAssumption ==
    /\ Empty \in Contexts /\ Blank \in Contexts
    /\ None \notin Paths /\ None \notin Contexts
    /\ Configs \subseteq Settings
    /\ ListForms \subseteq {"blank", "array", "wrapped", "text", "garbage"}
    /\ Supported \subseteq Features
    /\ RemoveCommands \subseteq {"rm", "remove"}
    /\ MaxStarts \in Nat

VARIABLES
    collections,    \* qmd: the path of each registered name
    contexts,       \* qmd: the context of each path
    pc, cfg, caps,
    removeCmd,      \* contextRemoveCmd, "none" before it is known
    listed,         \* the names CollectionList returned
    contextMap,     \* the contexts that syncCollectionContexts knows of
    i,              \* the collection at hand
    attempt,        \* the command that ContextRemove tries
    tasks,          \* the loops of the scheduler
    clean,          \* history: no operation of this start has failed
    starts

store == <<collections, contexts>>
vars == <<store, pc, cfg, caps, removeCmd, listed, contextMap, i, attempt, tasks, clean, starts>>

Init ==
    /\ collections = [n \in Names |-> None]
    /\ contexts = [p \in Paths |-> None]
    /\ pc = "down" /\ cfg \in Configs
    /\ caps = {} /\ removeCmd = "none"
    /\ listed = {} /\ contextMap = [p \in Paths |-> None]
    /\ i = 1 /\ attempt = 1
    /\ tasks = {} /\ clean = TRUE /\ starts = 0

-----------------------------------------------------------------------------
(* The configuration and the executor                                      *)

\* applyRuntimeDefaults: deep queries on the CPU imply smart routing.
Normalized(c) ==
    IF c.lowResource /\ c.cpuDeep THEN [c EXCEPT !.smartRouting = TRUE] ELSE c

\* A collection has its name, path and tier, so only their number is left.
validate(c) == c.cols # <<>>

\* A configuration that is not valid ends the program.
Load ==
    /\ pc = "down" /\ starts < MaxStarts
    /\ \E c \in Configs : cfg' = Normalized(c)
    /\ pc' = IF validate(cfg') THEN "probe" ELSE "down"
    /\ clean' = TRUE /\ starts' = starts + 1
    /\ UNCHANGED <<store, caps, removeCmd, listed, contextMap, i, attempt, tasks>>

MutLowResource(c, found) ==     \* one permission is taken for both
    found \ (IF c.lowResource /\ ~c.cpuVSearch /\ ~c.cpuDeep THEN {"vector", "deep_query"} ELSE {})

\* In low_resource_mode a capability needs its permission.
LowResource(c, found) ==
    found \ ((IF c.lowResource /\ ~c.cpuVSearch THEN {"vector"} ELSE {})
               \union (IF c.lowResource /\ ~c.cpuDeep THEN {"deep_query"} ELSE {}))

\* The probes share a deadline of ten seconds: any of them may fail, and a
\* subcommand that is not found stays off until the next start.  The help
\* text of context may name a subcommand that does not work.  Without an
\* answer to --version and --help the program exits.
Probe ==
    /\ pc = "probe"
    /\ \/ /\ \E found \in SUBSET Supported : caps' = LowResource(cfg, found)
          /\ removeCmd' \in {"none", "rm", "remove"}
          /\ pc' = "list"
       \/ pc' = "down" /\ UNCHANGED <<caps, removeCmd>>
    /\ UNCHANGED <<store, cfg, listed, contextMap, i, attempt, tasks, clean, starts>>

\* Which commands run with the GPU switched off.
ShouldDisableVulkan(c, command) ==
    /\ c.lowResource
    /\ CASE command = "query" -> c.cpuDeep
         [] command = "vsearch" -> c.cpuVSearch
         [] command \in {"embed", "mcp"} -> c.cpuDeep \/ c.cpuVSearch
         [] OTHER -> FALSE

\* qmd context add: on success the context is set, on failure perhaps.
ContextAdd(p, text, ok) ==
    /\ contexts' \in {[contexts EXCEPT ![p] = text]} \union (IF ok THEN {} ELSE {contexts})
    /\ UNCHANGED collections

-----------------------------------------------------------------------------
(* EnsureCollections                                                       *)

More == i <= Len(cfg.cols)
Col == cfg.cols[i]

\* The error of an operation is logged; the start goes on.
Outcome(ok) == clean' = (clean /\ ok)
Continue(at) == pc' = at /\ i' = i + 1 /\ attempt' = 1

RegisteredNames == {n \in Names : collections[n] # None}

\* What CollectionList can read: nothing at all is a list without collections,
\* a text has to name one.
parseCollectionListJSON(form) == form \in {"blank", "array", "wrapped"}
parseCollectionListText(form) == form = "text" /\ RegisteredNames # {}

CollectionList(form) ==
    IF parseCollectionListJSON(form) \/ parseCollectionListText(form)
    THEN {IF form = "blank" THEN {} ELSE RegisteredNames} ELSE {}

\* When the list cannot be had, every collection is added.
ListCollections ==
    /\ pc = "list"
    /\ \/ \E form \in ListForms : listed' \in CollectionList(form) /\ Outcome(TRUE)
       \/ listed' = {} /\ Outcome(FALSE)
    /\ pc' = "register" /\ i' = 1
    /\ UNCHANGED <<store, cfg, caps, removeCmd, contextMap, attempt, tasks, starts>>

Registered ==
    /\ pc = "register" /\ More /\ Col.name \in listed
    /\ Continue("register")
    /\ UNCHANGED <<store, cfg, caps, removeCmd, listed, contextMap, tasks, clean, starts>>

AddCollection ==
    /\ pc = "register" /\ More /\ Col.name \notin listed
    /\ \/ /\ collections[Col.name] = None
          /\ collections' = [collections EXCEPT ![Col.name] = Col.path]
          /\ Outcome(TRUE)
          /\ IF Col.context # Empty THEN pc' = "context" /\ UNCHANGED <<i, attempt>>
                                    ELSE Continue("register")
       \/ /\ collections' \in {collections} \union
               (IF collections[Col.name] = None
                THEN {[collections EXCEPT ![Col.name] = Col.path]} ELSE {})
          /\ Outcome(FALSE)
          /\ Continue("register")
    /\ UNCHANGED <<contexts, cfg, caps, removeCmd, listed, contextMap, tasks, starts>>

AddContext ==
    /\ pc = "context"
    /\ \E ok \in BOOLEAN : ContextAdd(Col.path, Col.context, ok) /\ Outcome(ok)
    /\ Continue("register")
    /\ UNCHANGED <<cfg, caps, removeCmd, listed, contextMap, tasks, starts>>

ListContexts ==
    /\ pc = "register" /\ ~More
    /\ \/ contextMap' = contexts /\ pc' = "sync" /\ Outcome(TRUE)
       \/ pc' = "schedule" /\ Outcome(FALSE) /\ UNCHANGED contextMap
    /\ i' = 1
    /\ UNCHANGED <<store, cfg, caps, removeCmd, listed, attempt, tasks, starts>>

-----------------------------------------------------------------------------
(* syncCollectionContexts                                                  *)

IsBlank(text) == text \in {Empty, Blank}

InOrder ==
    /\ pc = "sync" /\ More
    /\ IsBlank(Col.context) \/ contextMap[Col.path] = Col.context
    /\ Continue("sync")
    /\ UNCHANGED <<store, cfg, caps, removeCmd, listed, contextMap, tasks, clean, starts>>

MutOutOfOrder ==    \* only a path without a context gets one
    /\ pc = "sync" /\ More
    /\ ~IsBlank(Col.context) /\ contextMap[Col.path] # Col.context
    /\ IF contextMap[Col.path] = None THEN pc' = "replace" /\ UNCHANGED <<i, attempt>>
                                      ELSE Continue("sync")
    /\ UNCHANGED <<store, cfg, caps, removeCmd, listed, contextMap, tasks, clean, starts>>

MutRefreshAlways ==     \* the context in place is not compared
    /\ pc = "sync" /\ More
    /\ ~IsBlank(Col.context)
    /\ pc' = IF contextMap[Col.path] = None THEN "replace" ELSE "remove"
    /\ UNCHANGED <<store, cfg, caps, removeCmd, listed, contextMap, i, attempt, tasks, clean, starts>>

OutOfOrder ==
    /\ pc = "sync" /\ More
    /\ ~IsBlank(Col.context) /\ contextMap[Col.path] # Col.context
    /\ pc' = IF contextMap[Col.path] = None THEN "replace" ELSE "remove"
    /\ UNCHANGED <<store, cfg, caps, removeCmd, listed, contextMap, i, attempt, tasks, clean, starts>>

\* ContextRemove tries the subcommand it knows of, then rm, then remove, and
\* remembers which of the two has worked.
Attempts == (IF removeCmd = "none" THEN <<>> ELSE <<removeCmd>>) \o <<"rm", "remove">>

RemoveContext ==
    /\ pc = "remove"
    /\ LET command == Attempts[attempt]
           removed == [contexts EXCEPT ![Col.path] = None]
       IN  \/ /\ command \in RemoveCommands /\ contexts[Col.path] # None
              /\ contexts' = removed
              /\ removeCmd' = command /\ pc' = "replace"
              /\ UNCHANGED <<i, attempt, clean>>
           \/ /\ contexts' \in {contexts} \union (IF command \in RemoveCommands THEN {removed} ELSE {})
              /\ IF attempt < Len(Attempts)
                 THEN attempt' = attempt + 1 /\ UNCHANGED <<pc, i, clean>>
                 ELSE Continue("sync") /\ Outcome(FALSE)
              /\ UNCHANGED removeCmd
    /\ UNCHANGED <<collections, cfg, caps, listed, contextMap, tasks, starts>>

MutReplaceContext ==    \* the map gets the path for its description
    /\ pc = "replace"
    /\ \E ok \in BOOLEAN :
         /\ ContextAdd(Col.path, Col.context, ok)
         /\ contextMap' = IF ok THEN [contextMap EXCEPT ![Col.path] = Col.path] ELSE contextMap
         /\ Outcome(ok)
    /\ Continue("sync")
    /\ UNCHANGED <<cfg, caps, removeCmd, listed, tasks, starts>>

ReplaceContext ==
    /\ pc = "replace"
    /\ \E ok \in BOOLEAN :
         /\ ContextAdd(Col.path, Col.context, ok)
         /\ contextMap' = IF ok THEN [contextMap EXCEPT ![Col.path] = Col.context] ELSE contextMap
         /\ Outcome(ok)
    /\ Continue("sync")
    /\ UNCHANGED <<cfg, caps, removeCmd, listed, tasks, starts>>

EndSync ==
    /\ pc = "sync" /\ ~More
    /\ pc' = "schedule"
    /\ UNCHANGED <<store, cfg, caps, removeCmd, listed, contextMap, i, attempt, tasks, clean, starts>>

-----------------------------------------------------------------------------
(* The scheduler, and the end of a start                                   *)

EmbedAllowed(c) == ~c.lowResource \/ c.cpuVSearch \/ c.cpuDeep

Schedule ==
    /\ pc = "schedule"
    /\ tasks' = {"index_refresh", "cache_cleanup"} \union
                  (IF EmbedAllowed(cfg) THEN {"embed_refresh", "embed_full_refresh"} ELSE {})
    /\ pc' = "ready"
    /\ UNCHANGED <<store, cfg, caps, removeCmd, listed, contextMap, i, attempt, clean, starts>>

\* The program is killed, or has been shut down.
Exit ==
    /\ pc # "down"
    /\ pc' = "down" /\ caps' = {} /\ removeCmd' = "none"
    /\ listed' = {} /\ contextMap' = [p \in Paths |-> None]
    /\ i' = 1 /\ attempt' = 1 /\ tasks' = {}
    /\ UNCHANGED <<store, cfg, clean, starts>>

Next ==
    \/ Load \/ Probe
    \/ ListCollections \/ Registered \/ AddCollection \/ AddContext
    \/ ListContexts \/ InOrder \/ OutOfOrder \/ RemoveContext \/ ReplaceContext \/ EndSync
    \/ Schedule \/ Exit

Spec == Init /\ [][Next]_vars

-----------------------------------------------------------------------------
(* Properties                                                              *)

\* Type invariant.
TypeOK ==
    /\ collections \in [Names -> Paths \union {None}]
    /\ contexts \in [Paths -> Contexts \union {None}]
    /\ pc \in {"down", "probe", "list", "register", "context", "sync", "remove",
               "replace", "schedule", "ready"}
    /\ cfg \in Settings
    /\ caps \subseteq Supported
    /\ removeCmd \in {"none", "rm", "remove"}
    /\ listed \subseteq Names
    /\ contextMap \in [Paths -> Contexts \union {None}]
    /\ i \in Nat /\ i \in 1 .. Len(cfg.cols) + 1
    /\ attempt \in 1 .. 3
    /\ tasks \subseteq {"index_refresh", "cache_cleanup", "embed_refresh", "embed_full_refresh"}
    /\ clean \in BOOLEAN /\ starts \in 0 .. MaxStarts

\* Collection k is the last one with a context for its path.
Decides(k) ==
    /\ ~IsBlank(cfg.cols[k].context)
    /\ \A l \in k + 1 .. Len(cfg.cols) :
           cfg.cols[l].path = cfg.cols[k].path => IsBlank(cfg.cols[l].context)

\* A start in which no operation fails ends with every configured collection
\* registered and every path described as its last collection says, whatever
\* starts before it, with other configurations, failing commands or a crash
\* between remove and add, have left in qmd.
StartConverges ==
    (pc = "ready" /\ clean) =>
        \A k \in 1 .. Len(cfg.cols) :
            /\ collections[cfg.cols[k].name] # None
            /\ Decides(k) => contexts[cfg.cols[k].path] = cfg.cols[k].context

\* The step keeps the contexts that are what their only collection asks for.
LeavesInPlace ==
    \A k \in 1 .. Len(cfg.cols) :
        LET c == cfg.cols[k]
        IN  (/\ pc # "down" /\ ~IsBlank(c.context) /\ contexts[c.path] = c.context
             /\ \A l \in 1 .. Len(cfg.cols) : cfg.cols[l].path = c.path => l = k)
            => contexts'[c.path] = c.context

\* A context that is what its only collection asks for is left alone by every
\* step, also when lists, adds and removes fail: an update never touches the
\* paths that need none.
InPlaceUntouched == [][LeavesInPlace]_vars

\* What low_resource_mode promises holds for the program as started, across
\* the configuration, the executor and the scheduler: deep and vector search
\* are offered only with their permission and with the GPU off, deep search
\* only with smart routing, and embeddings are kept fresh, GPU off, whenever
\* a mode that needs them is offered.
LowResourceContained ==
    pc = "ready" =>
        /\ cfg.lowResource =>
             /\ "deep_query" \in caps => cfg.smartRouting /\ ShouldDisableVulkan(cfg, "query")
             /\ "vector" \in caps => ShouldDisableVulkan(cfg, "vsearch")
             /\ "embed_refresh" \in tasks => ShouldDisableVulkan(cfg, "embed")
        /\ caps \intersect {"vector", "deep_query"} # {} =>
             {"embed_refresh", "embed_full_refresh"} \subseteq tasks
=============================================================================
