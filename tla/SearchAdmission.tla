-------------------------- MODULE SearchAdmission ---------------------------
(***************************************************************************)
(* How a search reaches the qmd binary: execSearch of the orchestrator     *)
(* takes a token while the host is overloaded, Query of the CLI executor   *)
(* takes a slot, run starts the process and waits for it or for the        *)
(* context, and the deferred releases run on the way out.  Each search is  *)
(* a goroutine; one goroutine stands for one call at a time.               *)
(*                                                                         *)
(* searchTokens and queryTokens are buffered channels: a send takes a      *)
(* place or blocks, the release is a receive that never blocks.  A select  *)
(* with several ready cases takes any of them.                             *)
(***************************************************************************)
EXTENDS Integers, FiniteSets

CONSTANTS
    Searches,                       \* concurrent calls of execSearch
    OverloadMaxConcurrentSearch,    \* configured; zero or less selects 2
    QueryMaxConcurrency,            \* configured; zero or less: no limit
    HasDeepQuery, HasVector,        \* capabilities probed at startup
    MaxAbandoned                    \* bound: abandoned processes are counted up to it

ASSUME SearchesAssumption == IsFiniteSet(Searches)
ASSUME LimitsAssumption ==
    /\ OverloadMaxConcurrentSearch \in Int /\ QueryMaxConcurrency \in Int
    /\ HasDeepQuery \in BOOLEAN /\ HasVector \in BOOLEAN
    /\ MaxAbandoned \in Nat

VARIABLES
    overloaded,     \* the flag of the CPU monitor
    searchTokens,   \* tokens in the channel of the orchestrator
    queryTokens,    \* tokens in the channel of the executor
    pc, mode,
    token,          \* token[s]: the call holds a search token to release
    ctxDone,        \* the context of the call is cancelled or expired
    proc,           \* the qmd process of the call
    abandoned       \* query processes whose call returned without them

vars == <<overloaded, searchTokens, queryTokens, pc, mode, token, ctxDone, proc,
          abandoned>>

Modes == {"search", "vsearch", "query"}
Points == {"idle", "check", "queue", "slot", "start", "run", "reap", "freeSlot",
           "freeToken"}
Processes == {"none", "running", "killed", "exited"}

TokenCap == IF OverloadMaxConcurrentSearch <= 0 THEN 2 ELSE OverloadMaxConcurrentSearch
SlotsLimited == QueryMaxConcurrency > 0

Init ==
    /\ overloaded = FALSE
    /\ searchTokens = 0 /\ queryTokens = 0
    /\ pc = [s \in Searches |-> "idle"]
    /\ mode = [s \in Searches |-> "search"]
    /\ token = [s \in Searches |-> FALSE]
    /\ ctxDone = [s \in Searches |-> FALSE]
    /\ proc = [s \in Searches |-> "none"]
    /\ abandoned = 0

\* The orchestrator calls execSearch with a resolved mode.
Begin(s, m) ==
    /\ pc[s] = "idle"
    /\ pc' = [pc EXCEPT ![s] = "check"]
    /\ mode' = [mode EXCEPT ![s] = m]
    /\ ctxDone' = [ctxDone EXCEPT ![s] = FALSE]
    /\ UNCHANGED <<overloaded, searchTokens, queryTokens, token, proc, abandoned>>

-----------------------------------------------------------------------------
(* acquireOverloadSearchToken                                              *)

\* The switch on the mode: a call without the capability returns an error.
Dispatch(m) ==
    IF m = "query" THEN (IF HasDeepQuery THEN "slot" ELSE "freeToken")
    ELSE IF m = "vsearch" THEN (IF HasVector THEN "start" ELSE "freeToken")
    ELSE "start"

\* IsOverloaded is read once: a call that finds the host overloaded queues for
\* a token even if the host recovers, one that does not never takes a token.
CheckOverload(s) ==
    /\ pc[s] = "check"
    /\ pc' = [pc EXCEPT ![s] = IF overloaded THEN "queue" ELSE Dispatch(mode[s])]
    /\ UNCHANGED <<overloaded, searchTokens, queryTokens, mode, token, ctxDone, proc,
                   abandoned>>

MutTakeToken(s) ==  \* the send never blocks
    /\ pc[s] = "queue"
    /\ searchTokens' = searchTokens + 1
    /\ token' = [token EXCEPT ![s] = TRUE]
    /\ pc' = [pc EXCEPT ![s] = Dispatch(mode[s])]
    /\ UNCHANGED <<overloaded, queryTokens, mode, ctxDone, proc, abandoned>>

TakeToken(s) ==
    /\ pc[s] = "queue"
    /\ searchTokens < TokenCap
    /\ searchTokens' = searchTokens + 1
    /\ token' = [token EXCEPT ![s] = TRUE]
    /\ pc' = [pc EXCEPT ![s] = Dispatch(mode[s])]
    /\ UNCHANGED <<overloaded, queryTokens, mode, ctxDone, proc, abandoned>>

\* "overload search queue busy": the error returns before the release is deferred.
QueueBusy(s) ==
    /\ pc[s] = "queue"
    /\ ctxDone[s]
    /\ pc' = [pc EXCEPT ![s] = "idle"]
    /\ UNCHANGED <<overloaded, searchTokens, queryTokens, mode, token, ctxDone, proc,
                   abandoned>>

-----------------------------------------------------------------------------
(* acquireQuerySlot                                                        *)

TakeSlot(s) ==
    /\ pc[s] = "slot"
    /\ SlotsLimited => queryTokens < QueryMaxConcurrency
    /\ queryTokens' = IF SlotsLimited THEN queryTokens + 1 ELSE queryTokens
    /\ pc' = [pc EXCEPT ![s] = "start"]
    /\ UNCHANGED <<overloaded, searchTokens, mode, token, ctxDone, proc, abandoned>>

MutSlotBusy(s) ==   \* the release is deferred before the slot is taken
    /\ pc[s] = "slot"
    /\ SlotsLimited /\ ctxDone[s]
    /\ pc' = [pc EXCEPT ![s] = "freeSlot"]
    /\ UNCHANGED <<overloaded, searchTokens, queryTokens, mode, token, ctxDone, proc,
                   abandoned>>

\* "query queue busy".
SlotBusy(s) ==
    /\ pc[s] = "slot"
    /\ SlotsLimited /\ ctxDone[s]
    /\ pc' = [pc EXCEPT ![s] = "freeToken"]
    /\ UNCHANGED <<overloaded, searchTokens, queryTokens, mode, token, ctxDone, proc,
                   abandoned>>

-----------------------------------------------------------------------------
(* run                                                                     *)

\* Where a call that leaves run goes: Query has a slot to give back.
Return(s) == IF mode[s] = "query" THEN "freeSlot" ELSE "freeToken"

\* cmd.Start; the context is not consulted before it.
StartProcess(s) ==
    /\ pc[s] = "start"
    /\ \/ /\ proc' = [proc EXCEPT ![s] = "running"]
          /\ pc' = [pc EXCEPT ![s] = "run"]
       \/ /\ pc' = [pc EXCEPT ![s] = Return(s)]
          /\ UNCHANGED proc
    /\ UNCHANGED <<overloaded, searchTokens, queryTokens, mode, token, ctxDone, abandoned>>

\* The process ends on its own or because it was killed.
ProcessExit(s) ==
    /\ proc[s] \in {"running", "killed"}
    /\ proc' = [proc EXCEPT ![s] = "exited"]
    /\ UNCHANGED <<overloaded, searchTokens, queryTokens, pc, mode, token, ctxDone, abandoned>>

\* The call receives from done: with the output, or with the error of a process
\* that failed.
Collect(s) ==
    /\ pc[s] \in {"run", "reap"}
    /\ proc[s] = "exited"
    /\ pc' = [pc EXCEPT ![s] = Return(s)]
    /\ proc' = [proc EXCEPT ![s] = "none"]
    /\ UNCHANGED <<overloaded, searchTokens, queryTokens, mode, token, ctxDone, abandoned>>

MutKill(s) ==   \* the kill is not followed by a wait for the process
    /\ pc[s] = "run"
    /\ ctxDone[s]
    /\ pc' = [pc EXCEPT ![s] = Return(s)]
    /\ UNCHANGED <<overloaded, searchTokens, queryTokens, mode, token, ctxDone, proc,
                   abandoned>>

\* The context ends first: killProcessGroup.
Kill(s) ==
    /\ pc[s] = "run"
    /\ ctxDone[s]
    /\ pc' = [pc EXCEPT ![s] = "reap"]
    /\ proc' = [proc EXCEPT ![s] = IF proc[s] = "running" THEN "killed" ELSE proc[s]]
    /\ UNCHANGED <<overloaded, searchTokens, queryTokens, mode, token, ctxDone, abandoned>>

\* Two seconds after the kill the call returns whether the process has exited or
\* not.
Abandon(s) ==
    /\ pc[s] = "reap"
    /\ proc[s] = "killed"
    /\ pc' = [pc EXCEPT ![s] = Return(s)]
    /\ proc' = [proc EXCEPT ![s] = "none"]
    /\ abandoned' = IF mode[s] = "query" /\ abandoned < MaxAbandoned
                    THEN abandoned + 1 ELSE abandoned
    /\ UNCHANGED <<overloaded, searchTokens, queryTokens, mode, token, ctxDone>>

AbandonedExit ==
    /\ abandoned > 0
    /\ abandoned' = abandoned - 1
    /\ UNCHANGED <<overloaded, searchTokens, queryTokens, pc, mode, token, ctxDone, proc>>

-----------------------------------------------------------------------------
(* The deferred releases, innermost first                                  *)

Receive(n) == IF n > 0 THEN n - 1 ELSE n

ReleaseSlot(s) ==
    /\ pc[s] = "freeSlot"
    /\ queryTokens' = IF SlotsLimited THEN Receive(queryTokens) ELSE queryTokens
    /\ pc' = [pc EXCEPT ![s] = "freeToken"]
    /\ UNCHANGED <<overloaded, searchTokens, mode, token, ctxDone, proc, abandoned>>

MutReleaseToken(s) ==   \* whoever leaves during overload gives a token back
    /\ pc[s] = "freeToken"
    /\ searchTokens' = IF overloaded THEN Receive(searchTokens) ELSE searchTokens
    /\ token' = [token EXCEPT ![s] = FALSE]
    /\ pc' = [pc EXCEPT ![s] = "idle"]
    /\ UNCHANGED <<overloaded, queryTokens, mode, ctxDone, proc, abandoned>>

MutTokenLeak(s) ==  \* nothing to give back once the host has recovered
    /\ pc[s] = "freeToken"
    /\ searchTokens' = IF token[s] /\ overloaded THEN Receive(searchTokens) ELSE searchTokens
    /\ token' = [token EXCEPT ![s] = FALSE]
    /\ pc' = [pc EXCEPT ![s] = "idle"]
    /\ UNCHANGED <<overloaded, queryTokens, mode, ctxDone, proc, abandoned>>

ReleaseToken(s) ==
    /\ pc[s] = "freeToken"
    /\ searchTokens' = IF token[s] THEN Receive(searchTokens) ELSE searchTokens
    /\ token' = [token EXCEPT ![s] = FALSE]
    /\ pc' = [pc EXCEPT ![s] = "idle"]
    /\ UNCHANGED <<overloaded, queryTokens, mode, ctxDone, proc, abandoned>>

-----------------------------------------------------------------------------
(* The environment                                                         *)

\* The CPU monitor switches the flag.
SwitchOverload ==
    /\ overloaded' = ~overloaded
    /\ UNCHANGED <<searchTokens, queryTokens, pc, mode, token, ctxDone, proc, abandoned>>

EndContext(s) ==
    /\ ~ctxDone[s]
    /\ ctxDone' = [ctxDone EXCEPT ![s] = TRUE]
    /\ UNCHANGED <<overloaded, searchTokens, queryTokens, pc, mode, token, proc, abandoned>>

\* The client cancels, or the deadline it set expires.
Cancel(s) == pc[s] # "idle" /\ EndContext(s)

\* The timeouts of the executor: Query bounds the wait for a slot, execSearch
\* bounds run.  The wait for a token has no timeout of its own.
Timeout(s) == pc[s] \in {"slot", "run"} /\ EndContext(s)

Step(s) ==
    \/ CheckOverload(s) \/ QueueBusy(s) \/ SlotBusy(s) \/ StartProcess(s)
    \/ Collect(s) \/ Kill(s) \/ Abandon(s) \/ ReleaseSlot(s) \/ ReleaseToken(s)

Next ==
    \/ \E s \in Searches, m \in Modes : Begin(s, m)
    \/ \E s \in Searches : Step(s) \/ TakeToken(s) \/ TakeSlot(s)
    \/ \E s \in Searches : ProcessExit(s) \/ Cancel(s) \/ Timeout(s)
    \/ AbandonedExit
    \/ SwitchOverload

\* A goroutine runs, a timer fires, and a sender blocked on a channel is served
\* in order: it cannot lose the place to later senders for ever.
Fairness ==
    \A s \in Searches : /\ WF_vars(Step(s)) /\ WF_vars(Timeout(s))
                        /\ SF_vars(TakeToken(s)) /\ SF_vars(TakeSlot(s))

Spec == Init /\ [][Next]_vars /\ Fairness

-----------------------------------------------------------------------------
(* Properties                                                              *)

\* Type invariant.
TypeOK ==
    /\ overloaded \in BOOLEAN
    /\ searchTokens \in 0..TokenCap
    /\ queryTokens \in Nat
    /\ pc \in [Searches -> Points]
    /\ mode \in [Searches -> Modes]
    /\ token \in [Searches -> BOOLEAN]
    /\ ctxDone \in [Searches -> BOOLEAN]
    /\ proc \in [Searches -> Processes]
    /\ abandoned \in 0..MaxAbandoned

TokenHolders == {s \in Searches : token[s]}
SlotHolders ==
    {s \in Searches : /\ SlotsLimited /\ mode[s] = "query"
                      /\ pc[s] \in {"start", "run", "reap", "freeSlot"}}

\* The channels count the calls: a token in searchTokens for each call admitted
\* under overload, one in queryTokens for each deep query, on every path out of
\* execSearch and Query and however the overload flag flips between acquire and
\* release.  The non-blocking receives of the releases never find the channel
\* empty, and no token leaks.
TokensAccounted ==
    /\ searchTokens = Cardinality(TokenHolders)
    /\ queryTokens = Cardinality(SlotHolders)

\* Both limiters are semaphores held by calls (acquire and release functions of
\* the orchestrator and of the executor).
TokenSemaphore ==
    INSTANCE Semaphore WITH Users <- Searches, Permits <- TokenCap,
                            holders <- TokenHolders
SlotSemaphore ==
    INSTANCE Semaphore WITH Users <- Searches, Permits <- QueryMaxConcurrency,
                            holders <- SlotHolders
TokensAreSemaphore == TokenSemaphore!Spec
SlotsAreSemaphore == SlotSemaphore!Spec

WaitedFor == {s \in Searches : mode[s] = "query" /\ proc[s] \in {"running", "killed"}}

\* The deep query processes that a call still waits for never exceed the
\* configured concurrency (Query, run).  A process that outlives the two seconds
\* after its kill is not waited for and not counted: its slot is free again.
WaitedQueriesBounded == SlotsLimited => Cardinality(WaitedFor) <= QueryMaxConcurrency

\* Every call of execSearch returns: queued for a token without any timeout, held
\* up for a slot while it holds a token, or waiting for a process that a kill does
\* not end (acquireOverloadSearchToken, acquireQuerySlot, run).
EveryCallReturns == \A s \in Searches : pc[s] # "idle" ~> pc[s] = "idle"
=============================================================================
