-------------------------- MODULE CPUMonitorProofs --------------------------
(***************************************************************************)
(* The two flags of the CPU monitor are the hysteresis of the sample       *)
(* history, for every configuration and every host.  The invariant that    *)
(* makes the statement inductive ties each counter to the history: it is   *)
(* the length of the longest run of its kind that ends with the last       *)
(* sample the switch has processed.                                        *)
(***************************************************************************)
EXTENDS CPUMonitor, TLAPS

\* c is the length of the longest run of S that ends with sample n.
Trailing(S, c, n) ==
    /\ c \in Nat /\ c <= n
    /\ (n - c + 1)..n \subseteq S
    /\ c < n => (n - c) \notin S

\* S and T agree on the first n samples.
Agree(S, T, n) == \A i \in 1..n : i \in S <=> i \in T

-----------------------------------------------------------------------------
(* Lemmas about runs                                                       *)

\* A sustain window needs at least one sample, whatever is configured.
LEMMA RequiredSamplesPositive ==
    ASSUME NEW d \in Int, NEW i \in Int, i > 0
    PROVE  requiredSamples(d, i) \in Nat \ {0}
  <1>1. d \div i \in Int /\ d % i \in Int
    OBVIOUS
  <1> QED
    BY <1>1 DEF requiredSamples

\* So do the three windows of the loop.
LEMMA NeedsPositive ==
    /\ NeedAbove \in Nat \ {0}
    /\ NeedBelow \in Nat \ {0}
    /\ NeedCritical \in Nat \ {0}
  <1>1. Interval \in Int /\ Interval > 0
    BY ConfigAssumption DEF Interval, OrDefault
  <1>2. /\ OrDefault(OverloadSustain, 10) \in Int
        /\ OrDefault(RecoverSustain, 12) \in Int
        /\ OrDefault(CriticalSustain, 5) \in Int
    BY ConfigAssumption DEF OrDefault
  <1> QED
    BY <1>1, <1>2, RequiredSamplesPositive DEF NeedAbove, NeedBelow, NeedCritical

\* Comparing the counter with the window recognises a run.
LEMMA RunIsCount ==
    ASSUME NEW S, NEW c, NEW n \in Nat, NEW k \in Nat \ {0}, Trailing(S, c, n)
    PROVE  Run(S, k, n) <=> c >= k
  <1>1. ASSUME c >= k PROVE Run(S, k, n)
    BY <1>1 DEF Run, Trailing
  <1>2. ASSUME Run(S, k, n), ~(c >= k) PROVE FALSE
    <2>1. c < n /\ (n - c) \in (n - k + 1)..n
      BY <1>2 DEF Run, Trailing
    <2> QED
      BY <1>2, <2>1 DEF Run, Trailing
  <1> QED
    BY <1>1, <1>2

\* Counting one more sample keeps the counter the length of the trailing run.
LEMMA TrailingStep ==
    ASSUME NEW S, NEW c, NEW n \in Nat, Trailing(S, c, n)
    PROVE  Trailing(S, Count(c, (n + 1) \in S), n + 1)
  <1>1. CASE (n + 1) \in S
    <2>1. (n + 1 - (c + 1) + 1)..(n + 1) \subseteq S
      BY <1>1 DEF Trailing
    <2> QED
      BY <1>1, <2>1 DEF Trailing, Count
  <1>2. CASE (n + 1) \notin S
    BY <1>2 DEF Trailing, Count
  <1> QED
    BY <1>1, <1>2

\* Sets that agree on the first n samples have the same run at their end ...
LEMMA TrailingAgree ==
    ASSUME NEW S, NEW T, NEW c, NEW n \in Nat, Agree(S, T, n), Trailing(S, c, n)
    PROVE  Trailing(T, c, n)
  BY DEF Trailing, Agree

\* ... the same runs that end among them ...
LEMMA RunAgree ==
    ASSUME NEW S, NEW T, NEW n \in Nat, Agree(S, T, n), NEW k \in Nat \ {0},
           NEW j \in 1..n
    PROVE  Run(S, k, j) <=> Run(T, k, j)
  BY DEF Run, Agree

\* ... and the same hysteresis: a later sample does not change the past.
LEMMA HysteresisAgree ==
    ASSUME NEW S1, NEW T1, NEW S2, NEW T2, NEW n \in Nat,
           Agree(S1, T1, n), Agree(S2, T2, n),
           NEW k1 \in Nat \ {0}, NEW k2 \in Nat \ {0}
    PROVE  Hysteresis(S1, k1, S2, k2, n) <=> Hysteresis(T1, k1, T2, k2, n)
  <1>1. \A j \in 1..n : Run(S1, k1, j) <=> Run(T1, k1, j)
    BY RunAgree
  <1>2. \A j \in 1..n : Run(S2, k2, j) <=> Run(T2, k2, j)
    BY RunAgree
  <1> QED
    BY <1>1, <1>2 DEF Hysteresis

\* What one sample does to the hysteresis: a run of the first kind turns it on,
\* else a run of the second kind turns it off, else it keeps its value.
LEMMA HysteresisStep ==
    ASSUME NEW S1, NEW S2, NEW n \in Nat, NEW k1 \in Nat \ {0}, NEW k2 \in Nat \ {0}
    PROVE  Hysteresis(S1, k1, S2, k2, n + 1) <=>
             \/ Run(S1, k1, n + 1)
             \/ ~Run(S2, k2, n + 1) /\ Hysteresis(S1, k1, S2, k2, n)
  <1>1. CASE Run(S1, k1, n + 1)
    BY <1>1 DEF Hysteresis
  <1>2. CASE ~Run(S1, k1, n + 1) /\ Run(S2, k2, n + 1)
    BY <1>2 DEF Hysteresis
  <1>3. CASE ~Run(S1, k1, n + 1) /\ ~Run(S2, k2, n + 1)
    <2>1. ASSUME NEW j \in 1..n, Run(S1, k1, j),
                 \A i \in (j + 1)..n : ~Run(S2, k2, i)
          PROVE  Hysteresis(S1, k1, S2, k2, n + 1)
      <3>1. \A i \in (j + 1)..(n + 1) : ~Run(S2, k2, i)
        BY <1>3, <2>1
      <3> QED
        BY <2>1, <3>1 DEF Hysteresis
    <2>2. ASSUME NEW j \in 1..(n + 1), Run(S1, k1, j),
                 \A i \in (j + 1)..(n + 1) : ~Run(S2, k2, i)
          PROVE  Hysteresis(S1, k1, S2, k2, n)
      BY <1>3, <2>2 DEF Hysteresis
    <2> QED
      BY <1>3, <2>1, <2>2 DEF Hysteresis
  <1> QED
    BY <1>1, <1>2, <1>3

-----------------------------------------------------------------------------
(* Type correctness                                                        *)

\* The usage is a fraction of naturals, for deltas that wrap around as well.
LEMMA UsageOfType ==
    ASSUME NEW r \in Readings
    PROVE  UsageOf(r) \in [busy : Nat, total : Nat]
  BY HostAssumption DEF UsageOf

\* The monitor that NewCPUMonitor makes is well typed.
LEMMA InitTypeOK == Init => TypeOK
  <1> SUFFICES ASSUME Init PROVE TypeOK
    OBVIOUS
  <1>1. overloaded \in BOOLEAN /\ critical \in BOOLEAN
    BY Zenon DEF Init
  <1>2. samples \in Seq([busy : Nat, total : Nat])
    BY DEF Init
  <1>3. usage \in [busy : Nat, total : Nat]
    BY DEF Init
  <1> QED
    BY <1>1, <1>2, <1>3 DEF Init, TypeOK

\* Every step of the loop keeps the types.
LEMMA TypeStep == TypeOK /\ [Next]_vars => TypeOK'
  <1> SUFFICES ASSUME TypeOK, [Next]_vars PROVE TypeOK'
    OBVIOUS
  <1> USE DEF TypeOK
  <1>1. CASE Start
    BY <1>1 DEF Start, counts, criticalCounts
  <1>2. CASE Stop
    BY <1>2 DEF Stop, counts, criticalCounts
  <1>3. ASSUME NEW r \in Readings, Tick(r) PROVE TypeOK'
    <2>1. UsageOf(r) \in [busy : Nat, total : Nat]
      BY UsageOfType
    <2> QED
      BY <1>3, <2>1 DEF Tick, counts, criticalCounts
  <1>4. CASE OverloadSwitch
    <2>1. overloaded' \in BOOLEAN
      BY <1>4, Zenon DEF OverloadSwitch
    <2>2. aboveCount' \in Nat /\ belowCount' \in Nat
      <3>1. /\ aboveCount' = Count(aboveCount, High(usage))
            /\ belowCount' = Count(belowCount, Low(usage))
        BY <1>4 DEF OverloadSwitch
      <3> QED
        BY <3>1 DEF Count
    <2> QED
      BY <1>4, <2>1, <2>2, Zenon DEF OverloadSwitch, criticalCounts
  <1>5. CASE CriticalSwitch
    <2>1. critical' \in BOOLEAN
      BY <1>5, Zenon DEF CriticalSwitch
    <2>2. criticalAboveCount' \in Nat /\ criticalBelowCount' \in Nat
      <3>1. /\ criticalAboveCount' = Count(criticalAboveCount, Crit(usage))
            /\ criticalBelowCount' = Count(criticalBelowCount, Calm(usage))
        BY <1>5 DEF CriticalSwitch
      <3> QED
        BY <3>1 DEF Count
    <2> QED
      BY <1>5, <2>1, <2>2, Zenon DEF CriticalSwitch, counts
  <1>6. CASE UNCHANGED vars
    BY <1>6 DEF vars, counts, criticalCounts
  <1> QED
    BY <1>1, <1>2, <1>3, <1>4, <1>5, <1>6 DEF Next

\* The loop keeps its state well typed: in particular the usage is the fraction
\* of two unsigned numbers whatever the counters of /proc/stat do.
THEOREM TypeCorrect == Spec => []TypeOK
  BY InitTypeOK, TypeStep, PTL DEF Spec

-----------------------------------------------------------------------------
(* The inductive invariant                                                 *)

\* Between the tick and the switches the loop works on the last sample.
CurrentSample ==
    pc \in {"overload", "critical"} =>
        Len(samples) > 0 /\ usage = samples[Len(samples)]

OverloadCounts ==
    /\ Trailing(HighAt, aboveCount, OverloadSeen)
    /\ Trailing(LowAt, belowCount, OverloadSeen)

CriticalCounts ==
    /\ Trailing(CritAt, criticalAboveCount, CriticalSeen)
    /\ Trailing(CalmAt, criticalBelowCount, CriticalSeen)

IInv ==
    /\ TypeOK
    /\ CurrentSample
    /\ OverloadCounts /\ OverloadedIsHysteresis
    /\ CriticalCounts /\ CriticalIsHysteresis

\* A tick adds a sample and leaves the earlier ones where they are.
LEMMA TickAgrees ==
    ASSUME TypeOK, NEW r \in Readings, Tick(r)
    PROVE  /\ Len(samples') = Len(samples) + 1
           /\ usage' = samples'[Len(samples')]
           /\ Agree(HighAt, HighAt', Len(samples))
           /\ Agree(LowAt, LowAt', Len(samples))
           /\ Agree(CritAt, CritAt', Len(samples))
           /\ Agree(CalmAt, CalmAt', Len(samples))
  <1>1. UsageOf(r) \in [busy : Nat, total : Nat]
    BY UsageOfType
  <1>2. /\ Len(samples') = Len(samples) + 1
        /\ samples'[Len(samples) + 1] = UsageOf(r)
        /\ \A i \in 1..Len(samples) : samples'[i] = samples[i]
    BY <1>1 DEF Tick, TypeOK
  <1>3. Len(samples) \in Nat
    BY DEF TypeOK
  <1>4. 1..Len(samples) \subseteq 1..Len(samples')
    BY <1>2, <1>3
  <1> QED
    BY <1>2, <1>3, <1>4 DEF Agree, HighAt, LowAt, CritAt, CalmAt, Tick

\* Without samples the counters are zero and both flags are off.
LEMMA InitIInv == Init => IInv
  <1> SUFFICES ASSUME Init PROVE IInv
    OBVIOUS
  <1>1. Len(samples) = 0 /\ OverloadSeen = 0 /\ CriticalSeen = 0
    BY DEF Init, OverloadSeen, CriticalSeen
  <1>2. \A S : Trailing(S, 0, 0)
    BY DEF Trailing
  <1>3. \A S, T, k, l : ~Hysteresis(S, k, T, l, 0)
    BY DEF Hysteresis
  <1>4. OverloadCounts /\ CriticalCounts
    BY <1>1, <1>2 DEF OverloadCounts, CriticalCounts, Init
  <1>5. OverloadedIsHysteresis /\ CriticalIsHysteresis
    BY <1>1, <1>3, Zenon DEF OverloadedIsHysteresis, CriticalIsHysteresis, Init
  <1>6. CurrentSample
    BY DEF CurrentSample, Init
  <1> QED
    BY InitTypeOK, <1>4, <1>5, <1>6 DEF IInv

\* A tick does not move the point up to which the switches have counted.
LEMMA TickIInv ==
    ASSUME IInv, NEW r \in Readings, Tick(r)
    PROVE  CurrentSample' /\ OverloadCounts' /\ OverloadedIsHysteresis'
             /\ CriticalCounts' /\ CriticalIsHysteresis'
  <1> DEFINE n == Len(samples)
  <1>1. TypeOK /\ n \in Nat
    BY DEF IInv, TypeOK
  <1>2. /\ Len(samples') = n + 1
        /\ usage' = samples'[Len(samples')]
        /\ Agree(HighAt, HighAt', n) /\ Agree(LowAt, LowAt', n)
        /\ Agree(CritAt, CritAt', n) /\ Agree(CalmAt, CalmAt', n)
    BY <1>1, TickAgrees
  <1>3. OverloadSeen = n /\ OverloadSeen' = n /\ CriticalSeen = n /\ CriticalSeen' = n
    BY <1>1, <1>2 DEF Tick, OverloadSeen, CriticalSeen
  <1>4. /\ UNCHANGED <<aboveCount, belowCount, criticalAboveCount, criticalBelowCount>>
        /\ UNCHANGED <<overloaded, critical>>
    BY DEF Tick, counts, criticalCounts
  <1>5. CurrentSample'
    BY <1>1, <1>2 DEF CurrentSample
  <1>6. OverloadCounts'
    <2>1. Trailing(HighAt, aboveCount, n) /\ Trailing(LowAt, belowCount, n)
      BY <1>3 DEF IInv, OverloadCounts
    <2>2. Trailing(HighAt', aboveCount, n) /\ Trailing(LowAt', belowCount, n)
      BY <1>1, <1>2, <2>1, TrailingAgree
    <2> QED
      BY <1>3, <1>4, <2>2 DEF OverloadCounts
  <1>7. CriticalCounts'
    <2>1. /\ Trailing(CritAt, criticalAboveCount, n)
          /\ Trailing(CalmAt, criticalBelowCount, n)
      BY <1>3 DEF IInv, CriticalCounts
    <2>2. /\ Trailing(CritAt', criticalAboveCount, n)
          /\ Trailing(CalmAt', criticalBelowCount, n)
      BY <1>1, <1>2, <2>1, TrailingAgree
    <2> QED
      BY <1>3, <1>4, <2>2 DEF CriticalCounts
  <1>8. OverloadedIsHysteresis'
    <2>1. Hysteresis(HighAt, NeedAbove, LowAt, NeedBelow, n)
            <=> Hysteresis(HighAt', NeedAbove, LowAt', NeedBelow, n)
      BY <1>1, <1>2, NeedsPositive, HysteresisAgree
    <2> QED
      BY <1>3, <1>4, <2>1, Zenon DEF IInv, OverloadedIsHysteresis
  <1>9. CriticalIsHysteresis'
    <2>1. Hysteresis(CritAt, NeedCritical, CalmAt, NeedBelow, n)
            <=> Hysteresis(CritAt', NeedCritical, CalmAt', NeedBelow, n)
      BY <1>1, <1>2, NeedsPositive, HysteresisAgree
    <2> QED
      BY <1>3, <1>4, <2>1, Zenon DEF IInv, CriticalIsHysteresis
  <1> QED
    BY <1>5, <1>6, <1>7, <1>8, <1>9

\* The first switch counts the current sample and moves overloaded with it.
LEMMA OverloadSwitchIInv ==
    ASSUME IInv, OverloadSwitch
    PROVE  CurrentSample' /\ OverloadCounts' /\ OverloadedIsHysteresis'
             /\ CriticalCounts' /\ CriticalIsHysteresis'
  <1> DEFINE n == Len(samples) - 1
  <1>1. /\ pc = "overload" /\ pc' = "critical"
        /\ UNCHANGED <<usage, samples, criticalAboveCount, criticalBelowCount, critical>>
    BY DEF OverloadSwitch, criticalCounts
  <1>2. /\ n \in Nat /\ Len(samples) = n + 1 /\ (n + 1) \in 1..Len(samples)
        /\ usage = samples[n + 1]
    BY <1>1 DEF IInv, TypeOK, CurrentSample
  <1>3. UNCHANGED <<HighAt, LowAt, CritAt, CalmAt>>
    BY <1>1 DEF HighAt, LowAt, CritAt, CalmAt
  <1>4. /\ OverloadSeen = n /\ OverloadSeen' = n + 1
        /\ CriticalSeen = n /\ CriticalSeen' = n
    BY <1>1, <1>2 DEF OverloadSeen, CriticalSeen
  <1>5. /\ aboveCount' = Count(aboveCount, (n + 1) \in HighAt)
        /\ belowCount' = Count(belowCount, (n + 1) \in LowAt)
    <2>1. (High(usage) <=> (n + 1) \in HighAt) /\ (Low(usage) <=> (n + 1) \in LowAt)
      BY <1>2 DEF HighAt, LowAt
    <2>2. /\ aboveCount' = Count(aboveCount, High(usage))
          /\ belowCount' = Count(belowCount, Low(usage))
      BY DEF OverloadSwitch
    <2> QED
      BY <2>1, <2>2 DEF Count
  <1>6. Trailing(HighAt, aboveCount', n + 1) /\ Trailing(LowAt, belowCount', n + 1)
    <2>1. Trailing(HighAt, aboveCount, n) /\ Trailing(LowAt, belowCount, n)
      BY <1>4 DEF IInv, OverloadCounts
    <2> QED
      BY <1>2, <1>5, <2>1, TrailingStep
  <1>7. /\ Run(HighAt, NeedAbove, n + 1) <=> aboveCount' >= NeedAbove
        /\ Run(LowAt, NeedBelow, n + 1) <=> belowCount' >= NeedBelow
    <2>1. n + 1 \in Nat
      BY <1>2
    <2> QED
      BY <2>1, <1>6, NeedsPositive, RunIsCount
  <1>8. overloaded' <=> Hysteresis(HighAt, NeedAbove, LowAt, NeedBelow, n + 1)
    <2>1. overloaded <=> Hysteresis(HighAt, NeedAbove, LowAt, NeedBelow, n)
      BY <1>4, Zenon DEF IInv, OverloadedIsHysteresis
    <2>2. Hysteresis(HighAt, NeedAbove, LowAt, NeedBelow, n + 1) <=>
            \/ Run(HighAt, NeedAbove, n + 1)
            \/ ~Run(LowAt, NeedBelow, n + 1)
                 /\ Hysteresis(HighAt, NeedAbove, LowAt, NeedBelow, n)
      BY <1>2, NeedsPositive, HysteresisStep
    <2>3. overloaded' = IF aboveCount' >= NeedAbove THEN TRUE
                        ELSE IF belowCount' >= NeedBelow THEN FALSE
                        ELSE overloaded
      BY DEF OverloadSwitch
    <2> QED
      BY <1>7, <2>1, <2>2, <2>3, Zenon
  <1>9. OverloadCounts' /\ OverloadedIsHysteresis'
    BY <1>3, <1>4, <1>6, <1>8, Zenon DEF OverloadCounts, OverloadedIsHysteresis
  <1>10. CriticalCounts' /\ CriticalIsHysteresis'
    BY <1>1, <1>3, <1>4, Zenon DEF IInv, CriticalCounts, CriticalIsHysteresis
  <1>11. CurrentSample'
    BY <1>1 DEF IInv, CurrentSample
  <1> QED
    BY <1>9, <1>10, <1>11

\* The second switch does the same for critical.
LEMMA CriticalSwitchIInv ==
    ASSUME IInv, CriticalSwitch
    PROVE  CurrentSample' /\ OverloadCounts' /\ OverloadedIsHysteresis'
             /\ CriticalCounts' /\ CriticalIsHysteresis'
  <1> DEFINE n == Len(samples) - 1
  <1>1. /\ pc = "critical" /\ pc' = "tick"
        /\ UNCHANGED <<usage, samples, aboveCount, belowCount, overloaded>>
    BY DEF CriticalSwitch, counts
  <1>2. /\ n \in Nat /\ Len(samples) = n + 1 /\ (n + 1) \in 1..Len(samples)
        /\ usage = samples[n + 1]
    BY <1>1 DEF IInv, TypeOK, CurrentSample
  <1>3. UNCHANGED <<HighAt, LowAt, CritAt, CalmAt>>
    BY <1>1 DEF HighAt, LowAt, CritAt, CalmAt
  <1>4. /\ CriticalSeen = n /\ CriticalSeen' = n + 1
        /\ OverloadSeen = n + 1 /\ OverloadSeen' = n + 1
    BY <1>1, <1>2 DEF OverloadSeen, CriticalSeen
  <1>5. /\ criticalAboveCount' = Count(criticalAboveCount, (n + 1) \in CritAt)
        /\ criticalBelowCount' = Count(criticalBelowCount, (n + 1) \in CalmAt)
    <2>1. (Crit(usage) <=> (n + 1) \in CritAt) /\ (Calm(usage) <=> (n + 1) \in CalmAt)
      BY <1>2 DEF CritAt, CalmAt
    <2>2. /\ criticalAboveCount' = Count(criticalAboveCount, Crit(usage))
          /\ criticalBelowCount' = Count(criticalBelowCount, Calm(usage))
      BY DEF CriticalSwitch
    <2> QED
      BY <2>1, <2>2 DEF Count
  <1>6. /\ Trailing(CritAt, criticalAboveCount', n + 1)
        /\ Trailing(CalmAt, criticalBelowCount', n + 1)
    <2>1. /\ Trailing(CritAt, criticalAboveCount, n)
          /\ Trailing(CalmAt, criticalBelowCount, n)
      BY <1>4 DEF IInv, CriticalCounts
    <2> QED
      BY <1>2, <1>5, <2>1, TrailingStep
  <1>7. /\ Run(CritAt, NeedCritical, n + 1) <=> criticalAboveCount' >= NeedCritical
        /\ Run(CalmAt, NeedBelow, n + 1) <=> criticalBelowCount' >= NeedBelow
    <2>1. n + 1 \in Nat
      BY <1>2
    <2> QED
      BY <2>1, <1>6, NeedsPositive, RunIsCount
  <1>8. critical' <=> Hysteresis(CritAt, NeedCritical, CalmAt, NeedBelow, n + 1)
    <2>1. critical <=> Hysteresis(CritAt, NeedCritical, CalmAt, NeedBelow, n)
      BY <1>4, Zenon DEF IInv, CriticalIsHysteresis
    <2>2. Hysteresis(CritAt, NeedCritical, CalmAt, NeedBelow, n + 1) <=>
            \/ Run(CritAt, NeedCritical, n + 1)
            \/ ~Run(CalmAt, NeedBelow, n + 1)
                 /\ Hysteresis(CritAt, NeedCritical, CalmAt, NeedBelow, n)
      BY <1>2, NeedsPositive, HysteresisStep
    <2>3. critical' = IF criticalAboveCount' >= NeedCritical THEN TRUE
                      ELSE IF criticalBelowCount' >= NeedBelow THEN FALSE
                      ELSE critical
      BY DEF CriticalSwitch
    <2> QED
      BY <1>7, <2>1, <2>2, <2>3, Zenon
  <1>9. CriticalCounts' /\ CriticalIsHysteresis'
    BY <1>3, <1>4, <1>6, <1>8, Zenon DEF CriticalCounts, CriticalIsHysteresis
  <1>10. OverloadCounts' /\ OverloadedIsHysteresis'
    BY <1>1, <1>3, <1>4, Zenon DEF IInv, OverloadCounts, OverloadedIsHysteresis
  <1>11. CurrentSample'
    BY <1>1 DEF CurrentSample
  <1> QED
    BY <1>9, <1>10, <1>11

\* A step that leaves the samples, the counters and the flags alone.
LEMMA QuietIInv ==
    ASSUME IInv, pc \notin {"overload", "critical"}, pc' \notin {"overload", "critical"},
           UNCHANGED <<usage, counts, criticalCounts, overloaded, critical, samples>>
    PROVE  CurrentSample' /\ OverloadCounts' /\ OverloadedIsHysteresis'
             /\ CriticalCounts' /\ CriticalIsHysteresis'
  <1>1. UNCHANGED <<HighAt, LowAt, CritAt, CalmAt, OverloadSeen, CriticalSeen>>
    BY DEF HighAt, LowAt, CritAt, CalmAt, OverloadSeen, CriticalSeen
  <1> QED
    BY <1>1, Zenon DEF IInv, CurrentSample, OverloadCounts, CriticalCounts, counts,
         criticalCounts, OverloadedIsHysteresis, CriticalIsHysteresis

\* Every step of the loop keeps the inductive invariant.
LEMMA StepIInv == IInv /\ [Next]_vars => IInv'
  <1> SUFFICES ASSUME IInv, [Next]_vars PROVE IInv'
    OBVIOUS
  <1>1. TypeOK'
    BY TypeStep DEF IInv
  <1>2. CASE Start
    BY <1>1, <1>2, QuietIInv DEF Start, IInv
  <1>3. CASE Stop
    BY <1>1, <1>3, QuietIInv DEF Stop, IInv
  <1>4. ASSUME NEW r \in Readings, Tick(r) PROVE IInv'
    BY <1>1, <1>4, TickIInv DEF IInv
  <1>5. CASE OverloadSwitch
    BY <1>1, <1>5, OverloadSwitchIInv DEF IInv
  <1>6. CASE CriticalSwitch
    BY <1>1, <1>6, CriticalSwitchIInv DEF IInv
  <1>7. CASE UNCHANGED vars
    <2>1. UNCHANGED <<HighAt, LowAt, CritAt, CalmAt, OverloadSeen, CriticalSeen>>
      BY <1>7 DEF vars, HighAt, LowAt, CritAt, CalmAt, OverloadSeen, CriticalSeen
    <2> QED
      BY <1>1, <1>7, <2>1, Zenon DEF vars, IInv, CurrentSample, OverloadCounts,
           CriticalCounts, counts, criticalCounts, OverloadedIsHysteresis,
           CriticalIsHysteresis
  <1> QED
    BY <1>2, <1>3, <1>4, <1>5, <1>6, <1>7 DEF Next

\* The counters of the loop are the lengths of the runs that end with the last
\* sample counted, and the flags follow from them.
THEOREM Invariant == Spec => []IInv
  BY InitIInv, StepIInv, PTL DEF Spec

-----------------------------------------------------------------------------
(* The theorems                                                            *)

\* The overloaded flag, kept with two counters, is the hysteresis of the whole
\* sample history for every threshold, sustain and sample interval.
THEOREM OverloadedCorrect == Spec => []OverloadedIsHysteresis
  <1>1. IInv => OverloadedIsHysteresis
    BY DEF IInv
  <1> QED
    BY <1>1, Invariant, PTL

\* The same for the critical flag.
THEOREM CriticalCorrect == Spec => []CriticalIsHysteresis
  <1>1. IInv => CriticalIsHysteresis
    BY DEF IInv
  <1> QED
    BY <1>1, Invariant, PTL

\* A run of the second kind that ends with the last sample switches off.
LEMMA OffRunClears ==
    ASSUME NEW S1, NEW S2, NEW n \in Nat, NEW k1 \in Nat \ {0}, NEW k2 \in Nat \ {0},
           Run(S2, k2, n), n \notin S1
    PROVE  ~Hysteresis(S1, k1, S2, k2, n)
  <1>1. ~Run(S1, k1, n)
    BY DEF Run
  <1> QED
    BY <1>1 DEF Hysteresis

\* A sample low enough to recover from overload also counts towards the recovery
\* from critical, even when the recover threshold is configured above the
\* overload threshold.
LEMMA LowIsCalm ==
    ASSUME NEW u \in [busy : Nat, total : Nat], Low(u)
    PROVE  Calm(u) /\ ~Crit(u) /\ ~High(u)
  <1>1. Overload \in Int /\ Critical \in Int /\ Critical >= Overload
    BY ConfigAssumption DEF Overload, Critical, OrDefault
  <1>2. u.busy \in Nat /\ u.total \in Nat
    OBVIOUS
  <1>3. u.busy * 100 < Overload * u.total
    BY <1>1, <1>2 DEF Low, High, AtLeast
  <1>4. Critical * u.total >= Overload * u.total
    <2>1. \A a, b, t \in Int : a >= b /\ t >= 0 => a * t >= b * t
      OBVIOUS
    <2> QED
      BY <1>1, <1>2, <2>1
  <1>5. Critical * u.total \in Int /\ Overload * u.total \in Int /\ u.busy * 100 \in Int
    BY <1>1, <1>2
  <1> QED
    BY <1>3, <1>4, <1>5 DEF Calm, Crit, High, AtLeast, AtMost

\* After a full recover sustain at or below the recover threshold neither flag is
\* on, for every configuration: the host does not keep shedding requests.
THEOREM RecoveryCorrect == Spec => []RecoveryClearsBoth
  <1>1. IInv => RecoveryClearsBoth
    <2> SUFFICES ASSUME IInv, pc = "tick", Run(LowAt, NeedBelow, Len(samples))
                 PROVE  ~overloaded /\ ~critical
      BY DEF RecoveryClearsBoth
    <2> DEFINE n == Len(samples)
    <2>1. n \in Nat /\ OverloadSeen = n /\ CriticalSeen = n
      BY DEF IInv, TypeOK, OverloadSeen, CriticalSeen
    <2>2. \A i \in LowAt : i \in CalmAt /\ i \notin CritAt /\ i \notin HighAt
      <3> SUFFICES ASSUME NEW i \in LowAt
                   PROVE  i \in CalmAt /\ i \notin CritAt /\ i \notin HighAt
        OBVIOUS
      <3>1. i \in 1..n /\ Low(samples[i])
        BY DEF LowAt
      <3>2. samples[i] \in [busy : Nat, total : Nat]
        <4>1. samples \in Seq([busy : Nat, total : Nat])
          BY DEF IInv, TypeOK
        <4>2. \A T, q : q \in Seq(T) => \A j \in 1..Len(q) : q[j] \in T
          OBVIOUS
        <4> QED
          BY <3>1, <4>1, <4>2, Zenon
      <3> QED
        BY <3>1, <3>2, LowIsCalm DEF CalmAt, CritAt, HighAt
    <2>3. n \in LowAt
      BY <2>1, NeedsPositive DEF Run
    <2>4. Run(CalmAt, NeedBelow, n)
      BY <2>2 DEF Run
    <2>5. ~Hysteresis(HighAt, NeedAbove, LowAt, NeedBelow, n)
      BY <2>1, <2>2, <2>3, NeedsPositive, OffRunClears
    <2>6. ~Hysteresis(CritAt, NeedCritical, CalmAt, NeedBelow, n)
      BY <2>1, <2>2, <2>3, <2>4, NeedsPositive, OffRunClears
    <2> QED
      BY <2>1, <2>5, <2>6, Zenon DEF IInv, OverloadedIsHysteresis, CriticalIsHysteresis
  <1> QED
    BY <1>1, Invariant, PTL
=============================================================================
