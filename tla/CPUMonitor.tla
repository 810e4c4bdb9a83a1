----------------------------- MODULE CPUMonitor -----------------------------
(***************************************************************************)
(* The sampling loop of internal/resourceguard/cpu_monitor.go.  Every tick *)
(* reads the jiffies of /proc/stat, turns them into a usage, and feeds two *)
(* hysteresis switches: overloaded (degrade every request to BM25) and     *)
(* critical (shed the requests that are not cached).  The two flags are    *)
(* set in separate critical sections of m.mu, so that a request may read   *)
(* one before and the other after the same sample: the switches are two    *)
(* actions.                                                                *)
(*                                                                         *)
(* samples is a history variable: the code keeps only the four counters.   *)
(***************************************************************************)
EXTENDS Integers, Sequences

CONSTANTS
    SampleInterval,     \* the CPUMonitorConfig as configured, in seconds;
    OverloadPercent,    \* zero or less selects the default of NewCPUMonitor
    OverloadSustain,
    RecoverPercent,
    RecoverSustain,
    CriticalPercent,
    CriticalSustain,
    Jiffies,            \* number of values of the counters, 2^64 in the code
    Readings,           \* <<idle, total>> increments the host may show
    MaxSamples          \* bound on the samples of one behaviour

ASSUME ConfigAssumption ==
    /\ SampleInterval \in Int /\ OverloadPercent \in Int
    /\ OverloadSustain \in Int /\ RecoverPercent \in Int
    /\ RecoverSustain \in Int /\ CriticalPercent \in Int
    /\ CriticalSustain \in Int

ASSUME HostAssumption ==
    /\ Jiffies \in Nat \ {0}
    /\ Readings \subseteq Int \X Int
    /\ MaxSamples \in Nat

VARIABLES
    pc,                 \* where the loop stands
    usage,              \* m.usagePct, kept as the fraction busy / total
    aboveCount, belowCount,
    criticalAboveCount, criticalBelowCount,
    overloaded, critical,
    samples             \* every usage the loop has computed, oldest first

counts == <<aboveCount, belowCount>>
criticalCounts == <<criticalAboveCount, criticalBelowCount>>
vars == <<pc, usage, counts, criticalCounts, overloaded, critical, samples>>

-----------------------------------------------------------------------------
(* Configuration                                                           *)

OrDefault(v, d) == IF v <= 0 THEN d ELSE v

\* The percentages the constructor keeps: a critical threshold below the
\* overload threshold is raised to it.
Overload == OrDefault(OverloadPercent, 90)
Recover == OrDefault(RecoverPercent, 75)
Critical ==
    LET c == OrDefault(CriticalPercent, 95)
    IN  IF c < Overload THEN Overload ELSE c

requiredSamples(duration, interval) ==
    LET n == (duration \div interval)
               + (IF duration % interval # 0 THEN 1 ELSE 0)
    IN  IF duration <= 0 \/ interval <= 0 THEN 1
        ELSE IF n < 1 THEN 1 ELSE n

Interval == OrDefault(SampleInterval, 1)
NeedAbove == requiredSamples(OrDefault(OverloadSustain, 10), Interval)
NeedBelow == requiredSamples(OrDefault(RecoverSustain, 12), Interval)
NeedCritical == requiredSamples(OrDefault(CriticalSustain, 5), Interval)

-----------------------------------------------------------------------------
(* A usage, and the cases of the two switches                              *)

AtLeast(u, percent) == u.busy * 100 >= percent * u.total
AtMost(u, percent) == u.busy * 100 <= percent * u.total

High(u) == AtLeast(u, Overload)
Low(u) == ~High(u) /\ AtMost(u, Recover)
Crit(u) == AtLeast(u, Critical)
Calm(u) == ~Crit(u) /\ AtMost(u, Overload)

Init ==
    /\ pc = "start"
    /\ usage = [busy |-> 0, total |-> 1]
    /\ aboveCount = 0 /\ belowCount = 0
    /\ criticalAboveCount = 0 /\ criticalBelowCount = 0
    /\ overloaded = FALSE /\ critical = FALSE
    /\ samples = <<>>

\* loop takes its baseline reading.
Start ==
    /\ pc = "start"
    /\ pc' = "tick"
    /\ UNCHANGED <<usage, counts, criticalCounts, overloaded, critical, samples>>

\* The loop never runs or ends: protection not enabled, no baseline reading,
\* or the context is cancelled.  The flags keep their last value.
Stop ==
    /\ pc \in {"start", "tick"}
    /\ pc' = "off"
    /\ UNCHANGED <<usage, counts, criticalCounts, overloaded, critical, samples>>

MutUsageSigned(r) ==   \* a signed difference
    LET dIdle == r[1] % Jiffies
        dTotal == r[2] % Jiffies
    IN  [busy |-> dTotal - dIdle, total |-> dTotal]

\* The deltas are unsigned: a counter that moves back wraps.
UsageOf(r) ==
    LET dIdle == r[1] % Jiffies
        dTotal == r[2] % Jiffies
    IN  [busy |-> (dTotal - dIdle) % Jiffies, total |-> dTotal]

\* One tick: a reading that fails or shows no progress is skipped by the code
\* with no effect, which is a stuttering step.
Tick(r) ==
    /\ pc = "tick"
    /\ Len(samples) < MaxSamples
    /\ UsageOf(r).total # 0
    /\ usage' = UsageOf(r)
    /\ samples' = Append(samples, UsageOf(r))
    /\ pc' = "overload"
    /\ UNCHANGED <<counts, criticalCounts, overloaded, critical>>

Count(c, hit) == IF hit THEN c + 1 ELSE 0

MutOverloadSwitch ==    \* a busy sample does not reset belowCount
    /\ pc = "overload"
    /\ aboveCount' = Count(aboveCount, High(usage))
    /\ belowCount' = IF High(usage) THEN belowCount ELSE Count(belowCount, Low(usage))
    /\ overloaded' = IF aboveCount' >= NeedAbove THEN TRUE
                     ELSE IF Low(usage) /\ belowCount' >= NeedBelow THEN FALSE
                     ELSE overloaded
    /\ pc' = "critical"
    /\ UNCHANGED <<usage, criticalCounts, critical, samples>>

\* The first switch of the loop body, with setOverloaded.
OverloadSwitch ==
    /\ pc = "overload"
    /\ aboveCount' = Count(aboveCount, High(usage))
    /\ belowCount' = Count(belowCount, Low(usage))
    /\ overloaded' = IF aboveCount' >= NeedAbove THEN TRUE
                     ELSE IF belowCount' >= NeedBelow THEN FALSE
                     ELSE overloaded
    /\ pc' = "critical"
    /\ UNCHANGED <<usage, criticalCounts, critical, samples>>

MutCriticalSwitch ==    \* the default case forgets to reset the counters
    /\ pc = "critical"
    /\ criticalAboveCount' = IF Crit(usage) \/ Calm(usage)
                             THEN Count(criticalAboveCount, Crit(usage))
                             ELSE criticalAboveCount
    /\ criticalBelowCount' = IF Crit(usage) \/ Calm(usage)
                             THEN Count(criticalBelowCount, Calm(usage))
                             ELSE criticalBelowCount
    /\ critical' = IF criticalAboveCount' >= NeedCritical THEN TRUE
                   ELSE IF criticalBelowCount' >= NeedBelow THEN FALSE
                   ELSE critical
    /\ pc' = "tick"
    /\ UNCHANGED <<usage, counts, overloaded, samples>>

MutCriticalRecovery ==  \* one sample too many to recover
    /\ pc = "critical"
    /\ criticalAboveCount' = Count(criticalAboveCount, Crit(usage))
    /\ criticalBelowCount' = Count(criticalBelowCount, Calm(usage))
    /\ critical' = IF criticalAboveCount' >= NeedCritical THEN TRUE
                   ELSE IF criticalBelowCount' > NeedBelow THEN FALSE
                   ELSE critical
    /\ pc' = "tick"
    /\ UNCHANGED <<usage, counts, overloaded, samples>>

\* The second switch, with setCritical: recovery uses the overload threshold
\* and the recover sustain.
CriticalSwitch ==
    /\ pc = "critical"
    /\ criticalAboveCount' = Count(criticalAboveCount, Crit(usage))
    /\ criticalBelowCount' = Count(criticalBelowCount, Calm(usage))
    /\ critical' = IF criticalAboveCount' >= NeedCritical THEN TRUE
                   ELSE IF criticalBelowCount' >= NeedBelow THEN FALSE
                   ELSE critical
    /\ pc' = "tick"
    /\ UNCHANGED <<usage, counts, overloaded, samples>>

Next ==
    \/ Start
    \/ Stop
    \/ \E r \in Readings : Tick(r)
    \/ OverloadSwitch
    \/ CriticalSwitch

Spec == Init /\ [][Next]_vars

-----------------------------------------------------------------------------
(* Properties                                                              *)

\* Type invariant: the usage is the fraction of two unsigned deltas, the
\* counters are naturals.
TypeOK ==
    /\ pc \in {"start", "tick", "overload", "critical", "off"}
    /\ usage \in [busy : Nat, total : Nat]
    /\ aboveCount \in Nat /\ belowCount \in Nat
    /\ criticalAboveCount \in Nat /\ criticalBelowCount \in Nat
    /\ overloaded \in BOOLEAN /\ critical \in BOOLEAN
    /\ samples \in Seq([busy : Nat, total : Nat])

\* The samples each switch has processed.
OverloadSeen == IF pc = "overload" THEN Len(samples) - 1 ELSE Len(samples)
CriticalSeen ==
    IF pc \in {"overload", "critical"} THEN Len(samples) - 1 ELSE Len(samples)

\* The samples that fall in each case of the switches.
HighAt == {i \in 1..Len(samples) : High(samples[i])}
LowAt == {i \in 1..Len(samples) : Low(samples[i])}
CritAt == {i \in 1..Len(samples) : Crit(samples[i])}
CalmAt == {i \in 1..Len(samples) : Calm(samples[i])}

\* A run of k samples of the set S ends with sample j.
Run(S, k, j) == k <= j /\ (j - k + 1)..j \subseteq S

\* A run of kOn samples of On ended at some of the first n samples, and no run
\* of kOff samples of Off has ended since.
Hysteresis(On, kOn, Off, kOff, n) ==
    \E j \in 1..n : /\ Run(On, kOn, j)
                    /\ \A i \in (j + 1)..n : ~Run(Off, kOff, i)

\* The overloaded flag is exactly the hysteresis its configuration describes:
\* it is on if and only if the usage stayed at or above the overload threshold
\* for the whole overload sustain at some time, and has not since then stayed
\* at or below the recover threshold for the whole recover sustain.  The code
\* computes it from two counters and no history (loop, first switch).
OverloadedIsHysteresis ==
    overloaded <=> Hysteresis(HighAt, NeedAbove, LowAt, NeedBelow, OverloadSeen)

\* The same of the critical flag, whose recovery uses the overload threshold
\* and the recover sustain (loop, second switch and its comments).
CriticalIsHysteresis ==
    critical <=> Hysteresis(CritAt, NeedCritical, CalmAt, NeedBelow, CriticalSeen)

\* Once the usage stayed at or below the recover threshold for the recover
\* sustain, the host is back to normal: neither flag is on when the loop waits
\* for its next tick, whatever thresholds are configured and although the two
\* switches count different samples.
RecoveryClearsBoth ==
    pc = "tick" /\ Run(LowAt, NeedBelow, Len(samples)) => ~overloaded /\ ~critical
=============================================================================
