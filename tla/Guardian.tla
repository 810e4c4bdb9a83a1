------------------------------ MODULE Guardian ------------------------------
(***************************************************************************)
(* The guardian of qmd's MCP daemon.  Start probes the daemon and starts   *)
(* it if need be; then a loop probes it again and again, counts the probes *)
(* that fail, has a goroutine of its own restart the daemon, and gives up  *)
(* for CLI mode at restart_max_retries.  An admin RPC restarts the daemon  *)
(* too.  Restarts run without any lock and may overlap; the guardian's own *)
(* fields are read and written under a mutex, after the probe they report. *)
(*                                                                         *)
(* The daemon may crash, hang and come back at any time, and qmd itself    *)
(* may stop working.  A command that fails may have had its effect or not. *)
(* The sleeps of a restart and the interval between two checks are the     *)
(* time that other steps may take.  Left out: lastCheck, lastHealthy and   *)
(* restartCount, which nothing reads, and the message of Health.           *)
(***************************************************************************)
EXTENDS Integers

CONSTANTS
    Restarts,           \* restart goroutines of check that may be alive at once
    Callers,            \* goroutines of the MCPRestart RPC
    Boot,               \* the main goroutine, in Start
    RestartMaxRetries   \* guardian.restart_max_retries

Workers == Restarts \union Callers \union {Boot}

ASSUME GuardianAssumption ==
    /\ Restarts \intersect Callers = {} /\ Boot \notin Restarts \union Callers
    /\ Restarts # {}
    /\ RestartMaxRetries \in Nat \ {0}

VARIABLES
    mcp,        \* the executor has found the mcp subcommand
    qmdWorks,   \* qmd commands succeed
    daemon,     \* "down", "up", or "hung": it runs and does not answer in time
    health, cliMode, failCount,     \* the guardian's fields
    loop,       \* the loop: "off", "wait", the outcome of a probe, or "ended"
    pc,         \* pc[w]: the next step of Start or of a restart
    stopped     \* the guardian's context is cancelled

fields == <<health, cliMode, failCount>>
world == <<mcp, qmdWorks, daemon>>
guardianVars == <<world, fields, loop, pc, stopped>>

\* model.HealthLevel
Healthy == 0
Degraded == 1
Unhealthy == 2
Critical == 3
Levels == Healthy .. Critical

InitGuardian ==
    /\ mcp \in BOOLEAN
    /\ qmdWorks \in BOOLEAN
    /\ daemon \in {"down", "up"}
    /\ health = Healthy /\ cliMode = FALSE /\ failCount = 0
    /\ loop = "off"
    /\ pc = [w \in Workers |-> IF w = Boot THEN "init" ELSE "idle"]
    /\ stopped = FALSE

-----------------------------------------------------------------------------
(* qmd mcp: the commands of the executor                                   *)

\* The contexts: the guardian's own for Start and its goroutines, the
\* request's for an RPC, which its client may cancel at any time.
Cancelled(w) == w \in Restarts /\ stopped
MayWork(w) == mcp /\ qmdWorks /\ ~Cancelled(w)
MayFail(w) == ~mcp \/ ~qmdWorks \/ Cancelled(w) \/ w \in Callers

Started == IF daemon = "down" THEN "up" ELSE daemon

\* Starting a daemon that runs may fail or succeed.
MCPStart(w, ok) ==
    \/ ok /\ MayWork(w) /\ daemon' = Started
    \/ ~ok /\ MayFail(w) /\ daemon' \in (IF mcp THEN {daemon, Started} ELSE {daemon})
    \/ ~ok /\ daemon # "down" /\ UNCHANGED daemon

MCPStop(w) ==
    \/ MayWork(w) /\ daemon' = "down"
    \/ MayFail(w) /\ daemon' \in (IF mcp THEN {daemon, "down"} ELSE {daemon})

MCPHealth(w, ok) ==
    \/ ok /\ MayWork(w) /\ daemon = "up"
    \/ ~ok /\ (MayFail(w) \/ daemon # "up")

-----------------------------------------------------------------------------
(* Start and restartMCP                                                    *)

\* What becomes of the worker: Start goes on to launch the loop.
Ends(w) ==
    /\ pc' = [pc EXCEPT ![w] = "idle"]
    /\ loop' = IF w = Boot THEN "wait" ELSE loop

\* An error of startMCP: Start falls back to CLI mode, a restart only logs it.
Fails(w) ==
    /\ Ends(w)
    /\ IF w = Boot
       THEN /\ health' = Degraded /\ cliMode' = TRUE
            /\ UNCHANGED failCount
       ELSE UNCHANGED fields

StartWithoutMCP ==
    /\ pc[Boot] = "init" /\ ~mcp
    /\ health' = Degraded /\ cliMode' = TRUE
    /\ pc' = [pc EXCEPT ![Boot] = "idle"]
    /\ UNCHANGED <<world, failCount, loop, stopped>>

InitialCheck ==
    /\ pc[Boot] = "init" /\ mcp
    /\ \/ MCPHealth(Boot, TRUE) /\ Ends(Boot)
       \/ MCPHealth(Boot, FALSE) /\ pc' = [pc EXCEPT ![Boot] = "start"] /\ UNCHANGED loop
    /\ UNCHANGED <<world, fields, stopped>>

\* The RPC; the server answers requests once Start has returned.
RestartMCP(c) ==
    /\ pc[c] = "idle" /\ pc[Boot] = "idle" /\ ~stopped
    /\ pc' = [pc EXCEPT ![c] = "stop"]
    /\ UNCHANGED <<world, fields, loop, stopped>>

MutStopDaemon(w) ==     \* the daemon is stopped and not started again
    /\ pc[w] = "stop"
    /\ MCPStop(w)
    /\ pc' = [pc EXCEPT ![w] = "verify"]
    /\ UNCHANGED <<mcp, qmdWorks, fields, loop, stopped>>

\* The error of MCPStop is ignored.
StopDaemon(w) ==
    /\ pc[w] = "stop"
    /\ MCPStop(w)
    /\ pc' = [pc EXCEPT ![w] = "start"]
    /\ UNCHANGED <<mcp, qmdWorks, fields, loop, stopped>>

StartDaemon(w) ==
    /\ pc[w] = "start"
    /\ \/ /\ MCPStart(w, TRUE)
          /\ pc' = [pc EXCEPT ![w] = "verify"]
          /\ UNCHANGED <<fields, loop>>
       \/ MCPStart(w, FALSE) /\ Fails(w)
    /\ UNCHANGED <<mcp, qmdWorks, stopped>>

Verify(w) ==
    /\ pc[w] = "verify"
    /\ \/ /\ MCPHealth(w, TRUE)
          /\ pc' = [pc EXCEPT ![w] = "report"]
          /\ UNCHANGED <<fields, loop>>
       \/ MCPHealth(w, FALSE) /\ Fails(w)
    /\ UNCHANGED <<world, stopped>>

MutReport(w) ==     \* CLI mode is kept
    /\ pc[w] = "report"
    /\ health' = Healthy
    /\ Ends(w)
    /\ UNCHANGED <<world, cliMode, failCount, stopped>>

\* The fields are set some time after the probe, and failCount is kept.
Report(w) ==
    /\ pc[w] = "report"
    /\ health' = Healthy /\ cliMode' = FALSE
    /\ Ends(w)
    /\ UNCHANGED <<world, failCount, stopped>>

WorkerStep(w) == StopDaemon(w) \/ StartDaemon(w) \/ Verify(w) \/ Report(w)

-----------------------------------------------------------------------------
(* The loop                                                                *)

Probe(ok) ==
    \/ ok /\ mcp /\ qmdWorks /\ ~stopped /\ daemon = "up"
    \/ ~ok /\ (~mcp \/ ~qmdWorks \/ stopped \/ daemon # "up")

\* check, up to the mutex.
Tick ==
    /\ loop = "wait"
    /\ \E ok \in BOOLEAN : Probe(ok) /\ loop' = IF ok THEN "answered" ELSE "failed"
    /\ UNCHANGED <<world, fields, pc, stopped>>

CheckAnswered ==
    /\ loop = "answered"
    /\ health' = Healthy /\ failCount' = 0 /\ cliMode' = FALSE
    /\ loop' = "wait"
    /\ UNCHANGED <<world, pc, stopped>>

MutGiveUp ==        \* the count of failures is not reset, and goes on
    /\ loop = "failed" /\ failCount + 1 = RestartMaxRetries
    /\ health' = Degraded /\ cliMode' = TRUE /\ failCount' = failCount + 1
    /\ loop' = "wait"
    /\ UNCHANGED <<world, pc, stopped>>

GiveUp ==
    /\ loop = "failed" /\ failCount + 1 >= RestartMaxRetries
    /\ health' = Degraded /\ cliMode' = TRUE /\ failCount' = 0
    /\ loop' = "wait"
    /\ UNCHANGED <<world, pc, stopped>>

MutAskRestart ==    \* failures are not counted
    /\ loop = "failed" /\ failCount + 1 < RestartMaxRetries
    /\ health' = Unhealthy
    /\ \E r \in Restarts : pc[r] = "idle" /\ pc' = [pc EXCEPT ![r] = "stop"]
    /\ loop' = "wait"
    /\ UNCHANGED <<world, failCount, cliMode, stopped>>

\* The loop is held while all of Restarts, a bound of the model, are busy.
AskRestart ==
    /\ loop = "failed" /\ failCount + 1 < RestartMaxRetries
    /\ health' = Unhealthy /\ failCount' = failCount + 1
    /\ \E r \in Restarts : pc[r] = "idle" /\ pc' = [pc EXCEPT ![r] = "stop"]
    /\ loop' = "wait"
    /\ UNCHANGED <<world, cliMode, stopped>>

\* The context and the ticker may be ready at once, so a check may still
\* run after Stop.
LoopEnds ==
    /\ loop = "wait" /\ stopped
    /\ loop' = "ended"
    /\ UNCHANGED <<world, fields, pc, stopped>>

LoopStep == Tick \/ CheckAnswered \/ GiveUp \/ AskRestart \/ LoopEnds

\* Main calls Stop at shutdown, when everything has started.
Stop ==
    /\ pc[Boot] = "idle" /\ ~stopped
    /\ stopped' = TRUE
    /\ UNCHANGED <<world, fields, loop, pc>>

-----------------------------------------------------------------------------
(* The daemon and qmd                                                      *)

Crash ==
    /\ daemon # "down" /\ daemon' = "down"
    /\ UNCHANGED <<mcp, qmdWorks, fields, loop, pc, stopped>>

Hang ==
    /\ \/ daemon = "up" /\ daemon' = "hung"
       \/ daemon = "hung" /\ daemon' = "up"
    /\ UNCHANGED <<mcp, qmdWorks, fields, loop, pc, stopped>>

QmdChanges ==
    /\ qmdWorks' = ~qmdWorks
    /\ UNCHANGED <<mcp, daemon, fields, loop, pc, stopped>>

Disturbance == Crash \/ Hang \/ QmdChanges \/ \E c \in Callers : RestartMCP(c)

NextGuardian ==
    \/ StartWithoutMCP \/ InitialCheck
    \/ \E w \in Workers : WorkerStep(w)
    \/ LoopStep \/ Stop \/ Disturbance

\* Commands end, killed at their timeouts if need be, and the ticker ticks.
FairGuardian ==
    /\ WF_guardianVars(StartWithoutMCP \/ InitialCheck)
    /\ \A w \in Workers : WF_guardianVars(WorkerStep(w))
    /\ WF_guardianVars(LoopStep)

SpecGuardian == InitGuardian /\ [][NextGuardian]_guardianVars /\ FairGuardian

-----------------------------------------------------------------------------
(* Properties                                                              *)

\* Type invariant; failures are counted below restart_max_retries.
GuardianTypeOK ==
    /\ mcp \in BOOLEAN /\ qmdWorks \in BOOLEAN
    /\ daemon \in {"down", "up", "hung"}
    /\ health \in {Healthy, Degraded, Unhealthy} /\ cliMode \in BOOLEAN
    /\ failCount \in 0 .. RestartMaxRetries - 1
    /\ loop \in {"off", "wait", "answered", "failed", "ended"}
    /\ pc \in [Workers -> {"init", "idle", "stop", "start", "verify", "report"}]
    /\ stopped \in BOOLEAN

\* However a check, the restarts and the RPC interleave between their probes
\* and the mutex, the level and the mode agree: Healthy is never CLI mode, and
\* Degraded always is (guardian.go sets the two fields in five places).
ModeAgrees ==
    /\ health = Healthy => ~cliMode
    /\ health = Degraded => cliMode

\* No restart is under way.
Quiet == \A w \in Workers : pc[w] = "idle"

\* Once nothing disturbs it any more, and each check falls between restarts
\* and not into one, the guardian ends with the daemon up and says so:
\* restarts that overlap, whose checks fail, or that were given up before do
\* not leave it stopped, or in CLI mode.
HealsItself ==
    (/\ []mcp /\ []~stopped
     /\ <>[](qmdWorks /\ daemon # "hung")
     /\ <>[][~Disturbance /\ (Tick => Quiet)]_guardianVars)
    => <>[](daemon = "up" /\ health = Healthy /\ ~cliMode)

\* If the daemon has stopped answering for good, the guardian ends in CLI
\* mode and never reports Healthy again, although restarts reset its level.
FallsBack ==
    ([]~stopped /\ <>[](~qmdWorks \/ daemon # "up")) => <>[](cliMode /\ health # Healthy)
=============================================================================
