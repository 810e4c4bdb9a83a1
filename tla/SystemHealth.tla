---------------------------- MODULE SystemHealth ----------------------------
(***************************************************************************)
(* The heartbeat beside the guardian: its loop asks each component for its *)
(* level and keeps the answers, and the Health RPC makes one status of     *)
(* them and of the CPU flags.                                              *)
(*                                                                         *)
(* A round of checks visits the components in the order of a Go map, that  *)
(* is in any order, and rounds follow each other for ever: each component  *)
(* is checked again and again, in no particular order.  A level is read    *)
(* and recorded in one step, as the loop is the only writer.  What is left *)
(* out of the tracker (times, messages, FailCount) only reaches the log    *)
(* and the text of the response.  The CPU flags are those of CPUMonitor;   *)
(* the response is defined for every value of them.                        *)
(***************************************************************************)
EXTENDS Guardian, FiniteSetsExt

CONSTANTS
    LowResource,    \* runtime.low_resource_mode
    HasStatus,      \* the executor has found the status subcommand
    HasIndexDB,     \* qmd.index_db is set
    StatusForms,    \* how qmd prints its status
    IndexStates     \* what the index file may become

ASSUME HealthAssumption ==
    /\ LowResource \in BOOLEAN /\ HasStatus \in BOOLEAN /\ HasIndexDB \in BOOLEAN
    /\ StatusForms \subseteq {"plain", "loose", "wrapped", "nested", "text", "garbage"}
    /\ IndexStates \subseteq {"embedded", "plain", "empty", "absent"}

VARIABLES
    index,  \* the index: with vectors, without, of no size, or not there
    seen    \* seen[c]: the tracker's level of c, Healthy if it has no entry

vars == <<guardianVars, index, seen>>

Components == {"qmd_cli", "index_db", "embeddings", "cache", "mcp_daemon"}

Init ==
    /\ InitGuardian
    /\ index \in IndexStates
    /\ seen = [c \in Components |-> Healthy]

-----------------------------------------------------------------------------
(* The checks that main registers                                          *)

\* Whether a qmd command of the heartbeat succeeds.
Commands == {qmdWorks} \union (IF stopped THEN {FALSE} ELSE {})

\* Version tries --version and --help; when both fail, it depends on the
\* binary being there.
CheckQMDCLI(works) == IF works THEN {Healthy} ELSE {Unhealthy, Critical}

CheckIndexDB ==
    IF HasIndexDB /\ index \in {"empty", "absent"} THEN Critical ELSE Healthy

\* The vectors that Status reports.  An object with the count at its top is
\* read, a count of another type included; one with the count inside "status"
\* or "documents" is accepted as a status without any, so the branches for
\* these forms are never reached.
parseStatusJSON(form) == form \in {"plain", "loose"} /\ index = "embedded"
parseStatusText(form) == form = "text" /\ index = "embedded"

CheckEmbeddings(works, form) ==
    IF LowResource \/ ~HasStatus \/ (works /\ (parseStatusJSON(form) \/ parseStatusText(form)))
    THEN Healthy ELSE Degraded

\* The checker of each component: the levels it may return.
Checker(c, works) ==
    CASE c = "qmd_cli"    -> CheckQMDCLI(works)
      [] c = "index_db"   -> {CheckIndexDB}
      [] c = "embeddings" -> {CheckEmbeddings(works, form) : form \in StatusForms}
      [] c = "cache"      -> {Healthy}
      [] c = "mcp_daemon" -> {health}

MutCheck(c) ==      \* a component that has failed is recorded once
    /\ pc[Boot] = "idle"
    /\ seen[c] = Healthy
    /\ \E works \in Commands : \E level \in Checker(c, works) :
           seen' = [seen EXCEPT ![c] = level]
    /\ UNCHANGED <<guardianVars, index>>

MutCheckAddsUp(c) ==    \* a component that stays ill gets worse with every round
    /\ pc[Boot] = "idle"
    /\ \E works \in Commands : \E level \in Checker(c, works) :
           seen' = [seen EXCEPT ![c] = @ + level]
    /\ UNCHANGED <<guardianVars, index>>

\* runChecks, for one component; the heartbeat starts after the guardian.
Check(c) ==
    /\ pc[Boot] = "idle"
    /\ \E works \in Commands : \E level \in Checker(c, works) :
           seen' = [seen EXCEPT ![c] = level]
    /\ UNCHANGED <<guardianVars, index>>

IndexChanges ==
    /\ index' \in IndexStates \ {index}
    /\ UNCHANGED <<guardianVars, seen>>

Next ==
    \/ NextGuardian /\ UNCHANGED <<index, seen>>
    \/ \E c \in Components : Check(c)
    \/ IndexChanges

\* The loop's ticker; every command of a check has a timeout.
Spec ==
    /\ Init /\ [][Next]_vars /\ FairGuardian
    /\ \A c \in Components : WF_vars(Check(c))

-----------------------------------------------------------------------------
(* The Health RPC                                                          *)

\* SystemHealthTracker.GetHealth
Overall == Max({seen[c] : c \in Components})

MutStatus(critical, overloaded) ==  \* an overload stands for everything else
    CASE critical -> Unhealthy
      [] ~critical /\ overloaded -> Degraded
      [] OTHER -> Overall

\* buildHealthResponse: the status and the mode for the flags of the CPU
\* monitor.  A critical host hides how ill the components are.
Status(critical, overloaded) ==
    CASE critical -> Unhealthy
      [] ~critical /\ overloaded -> Max({Overall, Degraded})
      [] OTHER -> Overall

Mode(critical, overloaded) ==
    CASE critical -> "cpu_critical_overloaded"
      [] ~critical /\ overloaded -> "cpu_overloaded"
      [] OTHER -> <<"normal", "cli_fallback", "degraded", "critical">>[Overall + 1]

-----------------------------------------------------------------------------
(* Properties                                                              *)

\* Type invariant: whatever the checks find and the guardian does meanwhile, the
\* tracker holds one of the four levels for each component.
TypeOK ==
    /\ GuardianTypeOK
    /\ index \in IndexStates
    /\ seen \in [Components -> Levels]

\* What fails for good is reported for good, whatever the CPU flags: the
\* Health RPC says at least unhealthy when qmd does not work, and at least
\* degraded when the daemon does not answer, through the guardian's count of
\* failures, its restarts, the heartbeat's rounds and the response.
OutageReported ==
    []~stopped =>
        /\ <>[]~qmdWorks => <>[](\A crit, over \in BOOLEAN : Status(crit, over) >= Unhealthy)
        /\ <>[](daemon # "up") => <>[](\A crit, over \in BOOLEAN : Status(crit, over) >= Degraded)

\* When everything works again for good the Health RPC says so, whatever
\* went wrong before: no level of an earlier round is left standing.  (qmd
\* has to print its status as parseStatusJSON or parseStatusText read it.)
RecoveryReported ==
    (/\ []mcp /\ []~stopped
     /\ <>[](qmdWorks /\ daemon # "hung" /\ index = "embedded")
     /\ <>[][~Disturbance /\ (Tick => Quiet)]_guardianVars)
    => <>[](Status(FALSE, FALSE) = Healthy /\ Mode(FALSE, FALSE) = "normal")
=============================================================================
