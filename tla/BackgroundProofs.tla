-------------------------- MODULE BackgroundProofs --------------------------
(***************************************************************************)
(* What runs beside the requests: the guardian, the heartbeat and the      *)
(* scheduler.                                                              *)
(*                                                                         *)
(* The guardian's state is well typed, and its level and its mode agree,   *)
(* for any number of overlapping restarts and callers and any limit of     *)
(* retries.  Both invariants are inductive.  The heartbeat beside it is    *)
(* well typed, too, and the Health RPC hides no component's level.         *)
(*                                                                         *)
(* A task of the scheduler runs at most once at a time, for any number of  *)
(* loops, RPCs, searches, retries and changes of the documents.            *)
(* TasksExclusive is inductive: a runner enters only if the mark of its    *)
(* task is off, hence nobody else runs it, and the mark that Finish takes  *)
(* away is no other runner's.                                              *)
(***************************************************************************)
EXTENDS SystemHealth, IndexRefresh, TLAPS

-----------------------------------------------------------------------------
(* The guardian and the heartbeat                                          *)

\* A guardian that has just been made is well typed, healthy and not in CLI
\* mode (New).
LEMMA InitGuardianInv == InitGuardian => GuardianTypeOK /\ ModeAgrees
<1> SUFFICES ASSUME InitGuardian PROVE GuardianTypeOK /\ ModeAgrees
  OBVIOUS
<1>1. mcp \in BOOLEAN /\ qmdWorks \in BOOLEAN /\ stopped \in BOOLEAN /\ cliMode \in BOOLEAN
  BY Zenon DEF InitGuardian
<1> QED
  BY <1>1, GuardianAssumption
     DEF InitGuardian, GuardianTypeOK, ModeAgrees, Healthy, Degraded, Unhealthy

\* Every step of Start, a restart or the RPC keeps both: a step either leaves the
\* fields alone, or sets the level and the mode together (startMCP, restartMCP).
LEMMA WorkerKeeps ==
    ASSUME GuardianTypeOK, ModeAgrees, NEW w \in Workers, WorkerStep(w)
    PROVE  GuardianTypeOK' /\ ModeAgrees'
<1> USE DEF GuardianTypeOK, ModeAgrees, fields, world, Healthy, Degraded, Unhealthy
<1>1. CASE StopDaemon(w)
  BY <1>1 DEF StopDaemon, MCPStop
<1>2. CASE StartDaemon(w)
  <2>1. daemon' \in {"down", "up", "hung"}
    BY <1>2 DEF StartDaemon, MCPStart, Started
  <2>2. CASE pc' = [pc EXCEPT ![w] = "verify"] /\ UNCHANGED <<fields, loop>>
    BY <1>2, <2>1, <2>2 DEF StartDaemon
  <2>3. CASE Fails(w)
    BY <1>2, <2>1, <2>3 DEF StartDaemon, Fails, Ends
  <2> QED BY <1>2, <2>2, <2>3 DEF StartDaemon
<1>3. CASE Verify(w)
  <2>1. CASE pc' = [pc EXCEPT ![w] = "report"] /\ UNCHANGED <<fields, loop>>
    BY <1>3, <2>1 DEF Verify
  <2>2. CASE Fails(w)
    BY <1>3, <2>2 DEF Verify, Fails, Ends
  <2> QED BY <1>3, <2>1, <2>2 DEF Verify
<1>4. CASE Report(w)
  BY <1>4 DEF Report, Ends
<1> QED
  BY <1>1, <1>2, <1>3, <1>4 DEF WorkerStep

\* Every step of the loop keeps both; the count of failures stays below the limit
\* because the check that reaches it resets it (check).
LEMMA LoopKeeps ==
    ASSUME GuardianTypeOK, ModeAgrees, LoopStep
    PROVE  GuardianTypeOK' /\ ModeAgrees'
<1> USE GuardianAssumption
    DEF GuardianTypeOK, ModeAgrees, fields, world, Healthy, Degraded, Unhealthy
<1>1. CASE Tick
  BY <1>1 DEF Tick
<1>2. CASE CheckAnswered
  <2>1. failCount' \in 0 .. RestartMaxRetries - 1
    BY <1>2 DEF CheckAnswered
  <2>2. cliMode' \in BOOLEAN /\ ~cliMode'
    BY <1>2, Zenon DEF CheckAnswered
  <2> QED BY <1>2, <2>1, <2>2 DEF CheckAnswered
<1>3. CASE GiveUp
  BY <1>3 DEF GiveUp
<1>4. CASE AskRestart
  <2>1. pc' \in [Workers -> {"init", "idle", "stop", "start", "verify", "report"}]
    BY <1>4 DEF AskRestart, Workers
  <2> QED BY <1>4, <2>1 DEF AskRestart
<1>5. CASE LoopEnds
  BY <1>5 DEF LoopEnds
<1> QED
  BY <1>1, <1>2, <1>3, <1>4, <1>5 DEF LoopStep

\* Every step of the program and of its surroundings keeps both.
LEMMA StepGuardianInv ==
    GuardianTypeOK /\ ModeAgrees /\ [NextGuardian]_guardianVars => GuardianTypeOK' /\ ModeAgrees'
<1> SUFFICES ASSUME GuardianTypeOK, ModeAgrees, [NextGuardian]_guardianVars
             PROVE  GuardianTypeOK' /\ ModeAgrees'
  OBVIOUS
<1>1. ASSUME NEW w \in Workers, WorkerStep(w) PROVE GuardianTypeOK' /\ ModeAgrees'
  BY <1>1, WorkerKeeps
<1>2. CASE LoopStep
  BY <1>2, LoopKeeps
<1> USE DEF GuardianTypeOK, ModeAgrees, fields, world, Healthy, Degraded, Unhealthy
<1>3. CASE StartWithoutMCP
  BY <1>3 DEF StartWithoutMCP, Workers
<1>4. CASE InitialCheck
  BY <1>4 DEF InitialCheck, Ends, Workers
<1>5. CASE Stop
  <2>1. stopped' \in BOOLEAN
    BY <1>5, Zenon DEF Stop
  <2> QED BY <1>5, <2>1 DEF Stop
<1>6. CASE Crash
  BY <1>6 DEF Crash
<1>7. CASE Hang
  BY <1>7 DEF Hang
<1>8. CASE QmdChanges
  <2>1. qmdWorks' \in BOOLEAN
    BY <1>8, Zenon DEF QmdChanges
  <2> QED BY <1>8, <2>1 DEF QmdChanges
<1>9. ASSUME NEW c \in Callers, RestartMCP(c) PROVE GuardianTypeOK' /\ ModeAgrees'
  <2>1. c \in Workers
    BY DEF Workers
  <2> QED BY <1>9, <2>1 DEF RestartMCP
<1>10. CASE UNCHANGED guardianVars
  BY <1>10 DEF guardianVars
<1> QED
  BY <1>1, <1>2, <1>3, <1>4, <1>5, <1>6, <1>7, <1>8, <1>9, <1>10
     DEF NextGuardian, Disturbance

\* For any limit of retries the guardian's state is well typed: it never counts as
\* many failures as the limit, whatever checks and restarts do (check).
THEOREM GuardianTypeCorrect == SpecGuardian => []GuardianTypeOK
BY InitGuardianInv, StepGuardianInv, PTL DEF SpecGuardian

\* For any number of restarts and callers that overlap, Healthy is never CLI mode
\* and Degraded always is (Start, check, startMCP).
THEOREM ModeCorrect == SpecGuardian => []ModeAgrees
BY InitGuardianInv, StepGuardianInv, PTL DEF SpecGuardian

-----------------------------------------------------------------------------
(* The heartbeat and the Health RPC                                        *)

\* Every checker returns a level: the constants of model.HealthLevel, or what the
\* guardian reports of itself (runChecks).
LEMMA CheckerType ==
    ASSUME TypeOK, NEW c \in Components, NEW works \in BOOLEAN
    PROVE  Checker(c, works) \subseteq Levels
<1> USE DEF Levels, Healthy, Degraded, Unhealthy, Critical
<1>1. CheckQMDCLI(works) \subseteq Levels
  BY DEF CheckQMDCLI
<1>2. CheckIndexDB \in Levels
  BY DEF CheckIndexDB
<1>3. {CheckEmbeddings(works, form) : form \in StatusForms} \subseteq Levels
  BY DEF CheckEmbeddings
<1>4. health \in Levels
  BY DEF TypeOK, GuardianTypeOK
<1> QED
  BY <1>1, <1>2, <1>3, <1>4 DEF Checker, Components

\* Every step of the guardian, the heartbeat and the index keeps the types.
LEMMA StepHealthInv == TypeOK /\ ModeAgrees /\ [Next]_vars => TypeOK' /\ ModeAgrees'
<1> SUFFICES ASSUME TypeOK, ModeAgrees, [Next]_vars PROVE TypeOK' /\ ModeAgrees'
  OBVIOUS
<1>1. GuardianTypeOK
  BY DEF TypeOK
<1>2. CASE NextGuardian /\ UNCHANGED <<index, seen>>
  <2>1. GuardianTypeOK' /\ ModeAgrees'
    BY <1>1, <1>2, StepGuardianInv
  <2> QED BY <1>2, <2>1 DEF TypeOK
<1>3. ASSUME UNCHANGED guardianVars PROVE GuardianTypeOK' /\ ModeAgrees'
  BY <1>1, <1>3, StepGuardianInv
<1>4. ASSUME NEW c \in Components, Check(c) PROVE TypeOK' /\ ModeAgrees'
  <2>1. PICK works \in Commands : \E level \in Checker(c, works) :
                                     seen' = [seen EXCEPT ![c] = level]
    BY <1>4 DEF Check
  <2>2. works \in BOOLEAN
    BY <1>1 DEF Commands, GuardianTypeOK
  <2>3. PICK level \in Levels : seen' = [seen EXCEPT ![c] = level]
    BY <2>1, <2>2, CheckerType
  <2>4. seen' \in [Components -> Levels]
    BY <2>3 DEF TypeOK
  <2> QED BY <1>3, <1>4, <2>4 DEF Check, TypeOK
<1>5. CASE IndexChanges
  BY <1>3, <1>5 DEF IndexChanges, TypeOK
<1>6. CASE UNCHANGED vars
  BY <1>3, <1>6 DEF vars, TypeOK
<1> QED
  BY <1>2, <1>4, <1>5, <1>6 DEF Next

\* For any way the checks, the restarts and the index interleave, every level the
\* tracker keeps is one of model.HealthLevel and the guardian's state is well typed.
THEOREM HealthTypeCorrect == Spec => []TypeOK
<1>1. Init => TypeOK /\ ModeAgrees
  <2> SUFFICES ASSUME Init PROVE TypeOK /\ ModeAgrees
    OBVIOUS
  <2>1. GuardianTypeOK /\ ModeAgrees
    BY InitGuardianInv DEF Init
  <2> QED BY <2>1 DEF Init, TypeOK, Levels, Healthy, Critical
<1> QED
  BY <1>1, StepHealthInv, PTL DEF Spec

\* A set of levels that is not empty has a greatest one (GetHealth folds with max).
LEMMA MaxLevel ==
    ASSUME NEW S \in SUBSET Levels, S # {}
    PROVE  Max(S) \in S /\ \A x \in S : x <= Max(S)
<1>1. \E m \in S : \A x \in S : x <= m
  <2>1. S \subseteq 0..3
    BY DEF Levels, Healthy, Critical
  <2>2. CASE 3 \in S
    BY <2>1, <2>2
  <2>3. CASE 3 \notin S /\ 2 \in S
    BY <2>1, <2>3
  <2>4. CASE 3 \notin S /\ 2 \notin S /\ 1 \in S
    BY <2>1, <2>4
  <2>5. CASE 3 \notin S /\ 2 \notin S /\ 1 \notin S
    <3>1. \A x \in S : x = 0
      BY <2>1, <2>5
    <3> QED BY <3>1
  <2> QED BY <2>2, <2>3, <2>4, <2>5
<1>2. \E m \in S : \A x \in S : m >= x
  BY <1>1 DEF Levels, Healthy, Critical
<1>3. Max(S) \in S /\ \A x \in S : Max(S) >= x
  BY <1>2, Zenon DEF Max
<1> QED
  BY <1>3 DEF Levels, Healthy, Critical

\* The status and the mode of the Health RPC, for a host that is not critical: no
\* component is worse than the status says, an overloaded host is never healthy, and
\* a status without overload is the level of some component (buildHealthResponse).
HidesNothing ==
    /\ \A over \in BOOLEAN : \A c \in Components : seen[c] <= Status(FALSE, over)
    /\ Status(FALSE, TRUE) >= Degraded
    /\ \E c \in Components : Status(FALSE, FALSE) = seen[c]
    /\ Mode(FALSE, FALSE) = "normal" <=> \A c \in Components : seen[c] = Healthy

\* The Health RPC hides no component's level unless the host is critical, in every
\* state the heartbeat and the guardian can reach.
THEOREM HidesNothingCorrect == Spec => []HidesNothing
<1>1. ASSUME TypeOK PROVE HidesNothing
  <2>1. seen \in [Components -> Levels] /\ "cache" \in Components
    BY <1>1 DEF TypeOK, Components
  <2> DEFINE S == {seen[c] : c \in Components}
  <2>2. S \in SUBSET Levels /\ S # {}
    BY <2>1
  <2>3. Overall \in S /\ \A x \in S : x <= Overall
    BY <2>2, MaxLevel DEF Overall
  <2>4. Overall \in 0..3 /\ \A c \in Components : seen[c] \in 0..3 /\ seen[c] <= Overall
    BY <2>1, <2>3 DEF Levels, Healthy, Critical
  <2>5. \E c \in Components : Overall = seen[c]
    BY <2>3
  <2>6. {Overall, Degraded} \in SUBSET Levels /\ {Overall, Degraded} # {}
    BY <2>4 DEF Levels, Healthy, Degraded, Critical
  <2>7. /\ Max({Overall, Degraded}) \in {Overall, Degraded}
        /\ Overall <= Max({Overall, Degraded}) /\ Degraded <= Max({Overall, Degraded})
    BY <2>6, MaxLevel
  <2>8. Status(FALSE, FALSE) = Overall /\ Status(FALSE, TRUE) = Max({Overall, Degraded})
    BY DEF Status
  <2> HIDE DEF S
  <2>9. \A over \in BOOLEAN : \A c \in Components : seen[c] <= Status(FALSE, over)
    <3> SUFFICES ASSUME NEW over \in BOOLEAN, NEW c \in Components
                 PROVE  seen[c] <= Status(FALSE, over)
      OBVIOUS
    <3> DEFINE M == Max({Overall, Degraded})
    <3>1. seen[c] <= Overall /\ Overall <= M /\ M \in {Overall, Degraded}
      BY <2>4, <2>7
    <3> HIDE DEF M
    <3>2. seen[c] <= M
      BY <2>4, <3>1 DEF Degraded
    <3>3. over = FALSE \/ over = TRUE
      OBVIOUS
    <3> QED BY <2>4, <2>8, <3>2, <3>3 DEF M
  <2>10. Mode(FALSE, FALSE) = <<"normal", "cli_fallback", "degraded", "critical">>[Overall + 1]
    BY DEF Mode
  <2>11. Mode(FALSE, FALSE) = "normal" <=> Overall = 0
    <3> DEFINE v == Overall
               m == Mode(FALSE, FALSE)
    <3>1. v \in 0..3 /\ m = <<"normal", "cli_fallback", "degraded", "critical">>[v + 1]
      BY <2>4, <2>10, Zenon
    <3> HIDE DEF v, m
    <3>2. v = 0 \/ v = 1 \/ v = 2 \/ v = 3
      BY <3>1
    <3>3. m = "normal" <=> v = 0
      BY <3>1, <3>2
    <3> QED BY <3>3, Zenon DEF v, m
  <2>12. Overall = 0 <=> \A c \in Components : seen[c] = Healthy
    BY <2>4, <2>5 DEF Healthy
  <2>13. Status(FALSE, TRUE) >= Degraded
    <3> DEFINE M == Max({Overall, Degraded})
    <3>1. M \in {Overall, Degraded} /\ Degraded <= M
      BY <2>7
    <3> HIDE DEF M
    <3>2. M >= Degraded
      BY <3>1, <2>4 DEF Degraded
    <3> QED BY <3>2, <2>8 DEF M
  <2> QED BY <2>5, <2>8, <2>9, <2>11, <2>12, <2>13 DEF HidesNothing
<1> QED
  BY <1>1, HealthTypeCorrect, PTL

-----------------------------------------------------------------------------
(* The scheduler                                                           *)

\* The initial state is well typed (New).
LEMMA InitRefreshTypeOK == InitRefresh => RefreshTypeOK
<1> SUFFICES ASSUME InitRefresh PROVE RefreshTypeOK
  OBVIOUS
<1>1. fresh \in BOOLEAN /\ tag \in [Searches -> BOOLEAN]
  BY Zenon DEF InitRefresh
<1> QED
  BY <1>1, RefreshAssumption DEF InitRefresh, RefreshTypeOK

\* Every step keeps the types; in particular a retry is counted only up to the
\* limit, and the index never shows more than the documents (retry, Update).
LEMMA StepRefreshTypeOK == RefreshTypeOK /\ [NextRefresh]_refreshVars => RefreshTypeOK'
<1> SUFFICES ASSUME RefreshTypeOK, [NextRefresh]_refreshVars PROVE RefreshTypeOK'
  OBVIOUS
<1> USE RefreshAssumption DEF RefreshTypeOK
<1>1. ASSUME NEW r \in Runners, RunTask(r) PROVE RefreshTypeOK'
  <2>1. Task[r] \in Tasks
    OBVIOUS
  <2> QED BY <1>1, <2>1 DEF RunTask, searchVars
<1>2. ASSUME NEW r \in Runners, Update(r) PROVE RefreshTypeOK'
  BY <1>2 DEF Update, searchVars
<1>3. ASSUME NEW r \in Runners, Fail(r) PROVE RefreshTypeOK'
  BY <1>3 DEF Fail, searchVars
<1>4. ASSUME NEW r \in Runners, Retry(r) PROVE RefreshTypeOK'
  BY <1>4 DEF Retry, searchVars
<1>5. ASSUME NEW r \in Runners, Succeed(r) PROVE RefreshTypeOK'
  <2>1. /\ UNCHANGED <<docs, indexed, running, attempt, searchVars>>
        /\ tpc' = [tpc EXCEPT ![r] = "finish"]
        /\ fresh' \in BOOLEAN
    BY <1>5 DEF Succeed
  <2>2. entry' = None \/ entry' \in [index : 0..MaxDocs, current : BOOLEAN]
    BY <1>5 DEF Succeed
  <2>3. tag' \in [Searches -> BOOLEAN]
    BY <1>5 DEF Succeed
  <2> QED BY <2>1, <2>2, <2>3 DEF searchVars
<1>6. ASSUME NEW r \in Runners, Finish(r) PROVE RefreshTypeOK'
  BY <1>6 DEF Finish, searchVars
<1>7. ASSUME NEW s \in Searches, Lookup(s) PROVE RefreshTypeOK'
  BY <1>7 DEF Lookup, taskVars
<1>8. ASSUME NEW s \in Searches, ReadIndex(s) PROVE RefreshTypeOK'
  BY <1>8 DEF ReadIndex, taskVars
<1>9. ASSUME NEW s \in Searches, SearchFails(s) PROVE RefreshTypeOK'
  BY <1>9 DEF SearchFails, taskVars
<1>10. ASSUME NEW s \in Searches, PutTag(s) PROVE RefreshTypeOK'
  BY <1>10 DEF PutTag, taskVars
<1>11. ASSUME NEW s \in Searches, Put(s) PROVE RefreshTypeOK'
  BY <1>11 DEF Put, taskVars
<1>12. CASE Expire
  BY <1>12 DEF Expire, Hits, taskVars, searchVars
<1>13. CASE Remove
  BY <1>13 DEF Remove, taskVars, searchVars
<1>14. CASE ChangeDocs
  BY <1>14 DEF ChangeDocs, taskVars, searchVars
<1>15. CASE NextSecond
  BY <1>15 DEF NextSecond, searchVars
<1>16. CASE UNCHANGED refreshVars
  BY <1>16 DEF refreshVars, taskVars, searchVars
<1> QED
  BY <1>1, <1>2, <1>3, <1>4, <1>5, <1>6, <1>7, <1>8, <1>9, <1>10, <1>11, <1>12,
     <1>13, <1>14, <1>15, <1>16 DEF NextRefresh, TaskStep, SearchStep

\* The state of the scheduler, the searches and the cache is well typed in every
\* reachable state.
THEOREM RefreshTypeCorrect == SpecRefresh => []RefreshTypeOK
BY InitRefreshTypeOK, StepRefreshTypeOK, PTL DEF SpecRefresh

-----------------------------------------------------------------------------

\* A runner that stays where it was, or moves on while it runs its task, keeps the
\* exclusion (runTask between its two critical sections, and everybody else).
LEMMA QuietExclusive ==
    ASSUME RefreshTypeOK, TasksExclusive, UNCHANGED running,
           \A r \in Runners : tpc[r] = "idle" <=> tpc'[r] = "idle"
    PROVE  TasksExclusive'
BY DEF RefreshTypeOK, TasksExclusive

\* Every step keeps the exclusion.
LEMMA StepExclusive == RefreshTypeOK /\ TasksExclusive /\ [NextRefresh]_refreshVars => TasksExclusive'
<1> SUFFICES ASSUME RefreshTypeOK, TasksExclusive, [NextRefresh]_refreshVars PROVE TasksExclusive'
  OBVIOUS
<1>1. ASSUME NEW r \in Runners, RunTask(r) PROVE TasksExclusive'
  <2>1. /\ tpc' = [tpc EXCEPT ![r] = "run"] /\ running' = running \union {Task[r]}
        /\ Task[r] \notin running
    BY <1>1 DEF RunTask
  <2>2. \A o \in Runners : Task[o] = Task[r] => tpc[o] = "idle"
    BY <2>1 DEF TasksExclusive
  <2> QED BY <2>1, <2>2 DEF RefreshTypeOK, TasksExclusive
<1>2. ASSUME NEW r \in Runners, Finish(r) PROVE TasksExclusive'
  <2>1. /\ tpc' = [tpc EXCEPT ![r] = "idle"] /\ running' = running \ {Task[r]}
        /\ tpc[r] = "finish"
    BY <1>2 DEF Finish
  <2>2. \A o \in Runners : o # r /\ Task[o] = Task[r] => tpc[o] = "idle"
    BY <2>1 DEF TasksExclusive
  <2> QED BY <2>1, <2>2 DEF RefreshTypeOK, TasksExclusive
<1>3. ASSUME NEW r \in Runners, Update(r) \/ Fail(r) \/ Retry(r) \/ Succeed(r)
      PROVE TasksExclusive'
  <2>1. /\ UNCHANGED running /\ tpc[r] # "idle" /\ tpc'[r] # "idle"
        /\ \A o \in Runners : o # r => tpc'[o] = tpc[o]
    BY <1>3 DEF Update, Fail, Retry, Succeed, RefreshTypeOK
  <2> QED BY <2>1, QuietExclusive
<1>4. ASSUME UNCHANGED <<running, tpc>> PROVE TasksExclusive'
  BY <1>4 DEF TasksExclusive
<1>5. ASSUME NEW s \in Searches, Lookup(s) \/ SearchStep(s) PROVE TasksExclusive'
  BY <1>4, <1>5 DEF Lookup, SearchStep, ReadIndex, SearchFails, PutTag, Put, taskVars
<1>6. CASE Expire \/ Remove \/ ChangeDocs \/ NextSecond
  BY <1>4, <1>6 DEF Expire, Remove, ChangeDocs, NextSecond, taskVars
<1>7. CASE UNCHANGED refreshVars
  BY <1>4, <1>7 DEF refreshVars, taskVars
<1> QED
  BY <1>1, <1>2, <1>3, <1>5, <1>6, <1>7 DEF NextRefresh, TaskStep

\* A task runs at most once at a time, whoever asks for it, its retries included
\* (runTask, retry).
THEOREM TasksExclusiveCorrect == SpecRefresh => []TasksExclusive
<1>1. InitRefresh => TasksExclusive
  BY DEF InitRefresh, TasksExclusive
<1> QED BY <1>1, RefreshTypeCorrect, StepExclusive, PTL DEF SpecRefresh
=============================================================================
