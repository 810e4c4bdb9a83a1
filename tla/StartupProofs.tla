--------------------------- MODULE StartupProofs ----------------------------
(***************************************************************************)
(* Starts of the program, for any collections, configurations, contexts    *)
(* and commands of qmd: type correctness, the containment of               *)
(* low_resource_mode, convergence of a start without failures, and that    *)
(* contexts in place are left alone.                                       *)
(***************************************************************************)
EXTENDS Startup, TLAPS

\* Where i stands: at the start, or at a collection that is being worked on.
Placed ==
    /\ pc \in {"down", "probe", "list"} => i = 1
    /\ pc \in {"context", "remove", "replace"} => i <= Len(cfg.cols)

TypeInv == TypeOK /\ Placed

-----------------------------------------------------------------------------
(* Types                                                                   *)

\* A configuration is a list of collections, and more.
LEMMA SettingsType ==
    ASSUME NEW c \in Settings
    PROVE  c.cols \in Seq(Collection) /\ Len(c.cols) \in Nat
<1>1. c.cols \in Seq(Collection)
  BY DEF Settings
<1> QED
  BY <1>1

\* The collection at hand is one of the configured ones.
LEMMA ColType ==
    ASSUME TypeOK, NEW k \in 1 .. Len(cfg.cols)
    PROVE  /\ cfg.cols[k].name \in Names
           /\ cfg.cols[k].path \in Paths
           /\ cfg.cols[k].context \in Contexts
<1>1. cfg.cols \in Seq(Collection)
  BY DEF TypeOK, Settings
<1>2. cfg.cols[k] \in Collection
  BY <1>1
<1> QED
  BY <1>2 DEF Collection

\* applyRuntimeDefaults makes a configuration of a configuration, changes no
\* collection, and turns smart routing on where deep queries run on the CPU.
LEMMA NormalizedType ==
    ASSUME NEW c \in Configs
    PROVE  /\ Normalized(c) \in Settings
           /\ Normalized(c).lowResource /\ Normalized(c).cpuDeep => Normalized(c).smartRouting
<1>1. c \in Settings
  BY StartupAssumption
<1>2. CASE c.lowResource /\ c.cpuDeep
  <2>1. Normalized(c) = [c EXCEPT !.smartRouting = TRUE]
    BY <1>2 DEF Normalized
  <2> QED BY <1>1, <2>1 DEF Settings
<1>3. CASE ~(c.lowResource /\ c.cpuDeep)
  <2>1. Normalized(c) = c
    BY <1>3 DEF Normalized
  <2> QED BY <1>1, <1>3, <2>1
<1> QED
  BY <1>2, <1>3

\* One attempt after another stays within three.
LEMMA NextAttempt ==
    \A n \in 2 .. 3, a \in 1 .. 3 : a < n => a + 1 \in 1 .. 3
OBVIOUS

\* The program before its first start is well typed (main).
LEMMA InitTypeInv == Init => TypeInv
<1> SUFFICES ASSUME Init PROVE TypeInv
  OBVIOUS
<1>1. cfg \in Settings
  BY StartupAssumption DEF Init
<1>2. Len(cfg.cols) \in Nat
  BY <1>1, SettingsType
<1>3. clean \in BOOLEAN
  BY Zenon DEF Init
<1> QED
  BY <1>1, <1>2, <1>3, StartupAssumption DEF Init, TypeInv, TypeOK, Placed

\* Every step of a start keeps the types: the index stays within the collections,
\* and ContextRemove within its three attempts.
LEMMA StepTypeInv == TypeInv /\ [Next]_vars => TypeInv'
<1> SUFFICES ASSUME TypeInv, [Next]_vars PROVE TypeInv'
  OBVIOUS
<1>a. cfg \in Settings
  BY DEF TypeInv, TypeOK
<1>0. cfg \in Settings /\ Len(cfg.cols) \in Nat
  BY <1>a, SettingsType
<1> USE <1>0, StartupAssumption DEF TypeInv, TypeOK, Placed, store
<1>1. CASE Load
  <2>1. cfg' \in Settings
    BY <1>1, NormalizedType DEF Load
  <2>2. Len(cfg'.cols) \in Nat
    BY <2>1, SettingsType
  <2>3. pc' \in {"probe", "down"} /\ i = 1 /\ clean' \in BOOLEAN
    BY <1>1 DEF Load
  <2> QED BY <1>1, <2>1, <2>2, <2>3 DEF Load
<1>2. CASE Probe
  <2>1. caps' \subseteq Supported
    BY <1>2 DEF Probe, LowResource
  <2> QED BY <1>2, <2>1 DEF Probe
<1>3. CASE ListCollections
  <2>1. listed' \subseteq Names
    BY <1>3 DEF ListCollections, CollectionList, RegisteredNames
  <2>2. clean' \in BOOLEAN
    BY <1>3, Zenon DEF ListCollections, Outcome
  <2> QED BY <1>3, <2>1, <2>2 DEF ListCollections
<1>4. CASE Registered
  BY <1>4 DEF Registered, More, Continue
<1>5. CASE AddCollection
  <2>0. i \in 1 .. Len(cfg.cols) /\ Col.path \in Paths
    BY <1>5, ColType DEF AddCollection, More, Col
  <2>1. collections' \in [Names -> Paths \union {None}]
    <3>1. collections' = collections \/ collections' = [collections EXCEPT ![Col.name] = Col.path]
      BY <1>5 DEF AddCollection
    <3> QED BY <2>0, <3>1
  <2>2. clean' \in BOOLEAN
    BY <1>5, Zenon DEF AddCollection, Outcome
  <2>3. /\ i' \in 1 .. Len(cfg.cols) + 1 /\ attempt' \in 1 .. 3
        /\ pc' \in {"context", "register"} /\ (pc' = "context" => i' <= Len(cfg.cols))
    <3>1. \/ pc' = "context" /\ UNCHANGED <<i, attempt>>
          \/ Continue("register")
      BY <1>5 DEF AddCollection
    <3> QED BY <2>0, <3>1 DEF Continue
  <2> QED BY <1>5, <2>1, <2>2, <2>3 DEF AddCollection
<1>6. CASE AddContext
  <2>1. contexts' \in [Paths -> Contexts \union {None}]
    BY <1>6, ColType DEF AddContext, ContextAdd, Col
  <2>2. clean' \in BOOLEAN
    BY <1>6, Zenon DEF AddContext, Outcome
  <2> QED BY <1>6, <2>1, <2>2 DEF AddContext, ContextAdd, Continue
<1>7. CASE ListContexts
  <2>1. clean' \in BOOLEAN
    BY <1>7, Zenon DEF ListContexts, Outcome
  <2>2. /\ contextMap' \in [Paths -> Contexts \union {None}]
        /\ pc' \in {"sync", "schedule"} /\ i' = 1
    BY <1>7 DEF ListContexts
  <2> QED BY <1>7, <2>1, <2>2 DEF ListContexts
<1>8. CASE InOrder
  BY <1>8 DEF InOrder, More, Continue
<1>9. CASE OutOfOrder
  BY <1>9 DEF OutOfOrder, More
<1>10. CASE RemoveContext
  <2>1. contexts' \in [Paths -> Contexts \union {None}]
    BY <1>10 DEF RemoveContext
  <2>2. Len(Attempts) \in 2 .. 3
    BY DEF Attempts
  <2>3. clean' \in BOOLEAN /\ removeCmd' \in {"none", "rm", "remove"}
    BY <1>10 DEF RemoveContext, Outcome
  <2>4. /\ i' \in 1 .. Len(cfg.cols) + 1 /\ attempt' \in 1 .. 3
        /\ pc' \in {"remove", "replace", "sync"} /\ (pc' # "sync" => i' <= Len(cfg.cols))
    <3>1. \/ pc' = "replace" /\ UNCHANGED <<i, attempt>>
          \/ attempt < Len(Attempts) /\ attempt' = attempt + 1 /\ UNCHANGED <<pc, i>>
          \/ Continue("sync")
      BY <1>10 DEF RemoveContext
    <3>2. pc = "remove" /\ i \in 1 .. Len(cfg.cols)
      BY <1>10 DEF RemoveContext
    <3>3. attempt < Len(Attempts) => attempt + 1 \in 1 .. 3
      BY <2>2, NextAttempt
    <3>4. CASE attempt < Len(Attempts) /\ attempt' = attempt + 1 /\ UNCHANGED <<pc, i>>
      BY <3>2, <3>3, <3>4
    <3> QED BY <3>1, <3>2, <3>4 DEF Continue
  <2> QED BY <1>10, <2>1, <2>3, <2>4 DEF RemoveContext
<1>11. CASE ReplaceContext
  <2>1. /\ contexts' \in [Paths -> Contexts \union {None}]
        /\ contextMap' \in [Paths -> Contexts \union {None}]
    BY <1>11, ColType DEF ReplaceContext, ContextAdd, Col
  <2>2. clean' \in BOOLEAN
    BY <1>11, Zenon DEF ReplaceContext, Outcome
  <2> QED BY <1>11, <2>1, <2>2 DEF ReplaceContext, ContextAdd, Continue
<1>12. CASE EndSync
  BY <1>12 DEF EndSync
<1>13. CASE Schedule
  BY <1>13 DEF Schedule
<1>14. CASE Exit
  BY <1>14 DEF Exit
<1>15. CASE UNCHANGED vars
  BY <1>15 DEF vars
<1> QED
  BY <1>1, <1>2, <1>3, <1>4, <1>5, <1>6, <1>7, <1>8, <1>9, <1>10, <1>11, <1>12, <1>13,
     <1>14, <1>15 DEF Next

\* The state of every start is well typed, for all collections and commands of qmd.
THEOREM TypeCorrect == Spec => []TypeOK
<1>1. TypeInv => TypeOK
  BY DEF TypeInv
<1> QED
  BY <1>1, InitTypeInv, StepTypeInv, PTL DEF Spec

-----------------------------------------------------------------------------
(* low_resource_mode                                                       *)

\* What each of the three parts adds: the configuration smart routing, the
\* executor the permissions, the scheduler the embeddings.
Contained ==
    /\ pc # "down" => (cfg.lowResource /\ cfg.cpuDeep => cfg.smartRouting)
    /\ (pc \notin {"down", "probe"} /\ cfg.lowResource) =>
          /\ "deep_query" \in caps => cfg.cpuDeep
          /\ "vector" \in caps => cfg.cpuVSearch
    /\ pc = "ready" =>
          /\ EmbedAllowed(cfg) => {"embed_refresh", "embed_full_refresh"} \subseteq tasks
          /\ "embed_refresh" \in tasks => EmbedAllowed(cfg)

\* A step that changes no configuration and no capability, and ends before the
\* scheduler has started, keeps what the parts have added.
LEMMA ContainedKept ==
    ASSUME Contained, UNCHANGED <<cfg, caps, tasks>>,
           pc' # "down" => pc # "down",
           pc' \notin {"down", "probe"} => pc \notin {"down", "probe"},
           pc' = "ready" => pc = "ready"
    PROVE  Contained'
BY DEF Contained, EmbedAllowed

\* Every step keeps what the parts have added (Load, probe, Scheduler.Start).
LEMMA StepContained == Contained /\ [Next]_vars => Contained'
<1> SUFFICES ASSUME Contained, [Next]_vars PROVE Contained'
  OBVIOUS
<1>1. CASE Load
  <2>1. pc' \in {"down", "probe"} /\ (cfg'.lowResource /\ cfg'.cpuDeep => cfg'.smartRouting)
    BY <1>1, NormalizedType DEF Load
  <2> QED BY <2>1 DEF Contained
<1>2. CASE Probe
  <2>1. CASE pc' = "down"
    BY <2>1 DEF Contained
  <2>2. CASE pc' = "list"
    <3>1. PICK found \in SUBSET Supported : caps' = LowResource(cfg, found)
      BY <1>2, <2>2 DEF Probe
    <3>2. cfg.lowResource =>
            /\ "deep_query" \in caps' => cfg.cpuDeep
            /\ "vector" \in caps' => cfg.cpuVSearch
      BY <3>1 DEF LowResource
    <3>3. cfg' = cfg /\ pc = "probe"
      BY <1>2 DEF Probe
    <3> QED BY <2>2, <3>2, <3>3 DEF Contained
  <2> QED BY <1>2, <2>1, <2>2 DEF Probe
<1>3. CASE Schedule
  <2>1. /\ pc = "schedule" /\ pc' = "ready" /\ UNCHANGED <<cfg, caps>>
        /\ EmbedAllowed(cfg) => {"embed_refresh", "embed_full_refresh"} \subseteq tasks'
        /\ "embed_refresh" \in tasks' => EmbedAllowed(cfg)
    BY <1>3 DEF Schedule
  <2> QED BY <2>1 DEF Contained, EmbedAllowed
<1>4. CASE Exit
  BY <1>4 DEF Exit, Contained
<1>5. CASE ListCollections \/ Registered \/ AddCollection \/ AddContext
  BY <1>5, ContainedKept
     DEF ListCollections, Registered, AddCollection, AddContext, Continue
<1>6. CASE ListContexts \/ InOrder \/ OutOfOrder \/ ReplaceContext \/ EndSync
  BY <1>6, ContainedKept
     DEF ListContexts, InOrder, OutOfOrder, ReplaceContext, EndSync, Continue
<1>7. CASE RemoveContext
  <2>1. pc = "remove" /\ pc' \in {"remove", "replace", "sync"} /\ UNCHANGED <<cfg, caps, tasks>>
    BY <1>7 DEF RemoveContext, Continue
  <2> QED BY <2>1, ContainedKept
<1>8. CASE UNCHANGED vars
  BY <1>8, ContainedKept DEF vars
<1> QED
  BY <1>1, <1>2, <1>3, <1>4, <1>5, <1>6, <1>7, <1>8 DEF Next

\* What low_resource_mode promises holds for every configuration and every outcome
\* of the probes: a permission given or withheld in the configuration is the same
\* for the executor's capabilities, its GPU switch and the scheduler.
THEOREM LowResourceCorrect == Spec => []LowResourceContained
<1>1. Init => Contained
  BY DEF Init, Contained
<1>2. Contained => LowResourceContained
  BY DEF Contained, LowResourceContained, ShouldDisableVulkan, EmbedAllowed
<1> QED
  BY <1>1, <1>2, StepContained, PTL DEF Spec

-----------------------------------------------------------------------------
(* Contexts in place                                                       *)

\* Collection k is the only one of its path.
Alone(k) == \A l \in 1 .. Len(cfg.cols) : cfg.cols[l].path = cfg.cols[k].path => l = k

\* contextMap is right about path k, as long as it is no other collection's.
Known(k) == Alone(k) => contextMap[cfg.cols[k].path] = contexts[cfg.cols[k].path]

\* What syncCollectionContexts knows of the collections still to come, and of the
\* one whose context it removes.
Foresight ==
    /\ pc = "sync" => \A k \in i .. Len(cfg.cols) : Known(k)
    /\ pc \in {"remove", "replace"} => \A k \in i + 1 .. Len(cfg.cols) : Known(k)
    /\ pc = "remove" =>
          /\ contextMap[cfg.cols[i].path] # cfg.cols[i].context
          /\ Alone(i) => contexts[cfg.cols[i].path] \in {contextMap[cfg.cols[i].path], None}

InPlaceInv == TypeInv /\ Foresight

\* A step outside syncCollectionContexts needs to know nothing.
LEMMA ForesightOutside ==
    ASSUME pc' \notin {"sync", "remove", "replace"} PROVE Foresight'
BY DEF Foresight

\* Every step keeps what is known of the paths to come: a command at collection i
\* changes only its own path (syncCollectionContexts, ContextRemove).
LEMMA StepForesight == TypeInv /\ Foresight /\ [Next]_vars => Foresight'
<1> SUFFICES ASSUME TypeInv, Foresight, [Next]_vars PROVE Foresight'
  OBVIOUS
<1>a. /\ TypeOK /\ Placed /\ cfg \in Settings /\ i \in Nat
      /\ contexts \in [Paths -> Contexts \union {None}]
      /\ contextMap \in [Paths -> Contexts \union {None}]
  BY DEF TypeInv, TypeOK
<1>b. Len(cfg.cols) \in Nat
  BY <1>a, SettingsType
<1>c. \A k \in 1 .. Len(cfg.cols) : cfg.cols[k].path \in Paths /\ cfg.cols[k].context \in Contexts
  BY <1>a, ColType
<1>1. CASE Load \/ Probe \/ ListCollections \/ Registered \/ AddCollection \/ AddContext
           \/ EndSync \/ Schedule \/ Exit
  <2>1. pc' \notin {"sync", "remove", "replace"}
    BY <1>1 DEF Load, Probe, ListCollections, Registered, AddCollection, AddContext, EndSync,
                Schedule, Exit, Continue
  <2> QED BY <2>1, ForesightOutside
<1>2. CASE ListContexts
  <2>1. CASE contextMap' = contexts /\ pc' = "sync"
    <3>1. UNCHANGED <<contexts, cfg>>
      BY <1>2 DEF ListContexts, store
    <3> QED BY <2>1, <3>1 DEF Foresight, Known, Alone
  <2>2. CASE pc' = "schedule"
    BY <2>2, ForesightOutside
  <2> QED BY <1>2, <2>1, <2>2 DEF ListContexts
<1>3. CASE InOrder
  <2>1. pc = "sync" /\ pc' = "sync" /\ i' = i + 1 /\ UNCHANGED <<contexts, contextMap, cfg>>
    BY <1>3 DEF InOrder, Continue, store
  <2>2. \A k \in i + 1 .. Len(cfg.cols) : Known(k)
    BY <1>a, <1>b, <2>1 DEF Foresight
  <2> QED BY <2>1, <2>2 DEF Foresight, Known, Alone
<1>4. CASE OutOfOrder
  <2>1. /\ pc = "sync" /\ pc' \in {"remove", "replace"} /\ i <= Len(cfg.cols)
        /\ UNCHANGED <<contexts, contextMap, cfg, i>>
        /\ contextMap[cfg.cols[i].path] # cfg.cols[i].context
    BY <1>4 DEF OutOfOrder, More, Col, store
  <2>2. Known(i) /\ \A k \in i + 1 .. Len(cfg.cols) : Known(k)
    BY <1>a, <1>b, <2>1 DEF Foresight
  <2> QED BY <2>1, <2>2 DEF Foresight, Known, Alone
<1>5. CASE RemoveContext
  <2>1. /\ pc = "remove" /\ i <= Len(cfg.cols) /\ UNCHANGED <<contextMap, cfg>>
        /\ contexts' \in {contexts, [contexts EXCEPT ![cfg.cols[i].path] = None]}
        /\ \/ pc' \in {"remove", "replace"} /\ i' = i
           \/ pc' = "sync" /\ i' = i + 1
    BY <1>5, <1>a DEF RemoveContext, Continue, Col, Placed
  <2>2. \A k \in i + 1 .. Len(cfg.cols) : Known(k)'
    <3> SUFFICES ASSUME NEW k \in i + 1 .. Len(cfg.cols), Alone(k)
                 PROVE  contextMap[cfg.cols[k].path] = contexts'[cfg.cols[k].path]
      BY <2>1 DEF Known, Alone
    <3>1. i \in 1 .. Len(cfg.cols) /\ k \in 1 .. Len(cfg.cols) /\ i # k
      BY <1>a, <1>b, <2>1 DEF TypeOK
    <3>2. cfg.cols[i].path # cfg.cols[k].path
      BY <3>1 DEF Alone
    <3>3. contexts'[cfg.cols[k].path] = contexts[cfg.cols[k].path]
      BY <1>a, <1>c, <2>1, <3>1, <3>2
    <3> QED BY <2>1, <3>3 DEF Foresight, Known
  <2>3. Alone(i) => contexts'[cfg.cols[i].path] \in {contextMap[cfg.cols[i].path], None}
    <3>1. i \in 1 .. Len(cfg.cols)
      BY <1>a, <1>b, <2>1 DEF TypeOK
    <3> QED BY <1>a, <1>c, <2>1, <3>1 DEF Foresight
  <2> QED BY <2>1, <2>2, <2>3 DEF Foresight, Alone
<1>6. CASE ReplaceContext
  <2>1. /\ pc = "replace" /\ pc' = "sync" /\ i' = i + 1 /\ i <= Len(cfg.cols) /\ cfg' = cfg
        /\ contexts' \in {contexts, [contexts EXCEPT ![cfg.cols[i].path] = cfg.cols[i].context]}
        /\ contextMap' \in {contextMap, [contextMap EXCEPT ![cfg.cols[i].path] = cfg.cols[i].context]}
    BY <1>6, <1>a DEF ReplaceContext, ContextAdd, Continue, Col, Placed
  <2>2. \A k \in i + 1 .. Len(cfg.cols) : Known(k)'
    <3> SUFFICES ASSUME NEW k \in i + 1 .. Len(cfg.cols), Alone(k)
                 PROVE  contextMap'[cfg.cols[k].path] = contexts'[cfg.cols[k].path]
      BY <2>1 DEF Known, Alone
    <3>1. i \in 1 .. Len(cfg.cols) /\ k \in 1 .. Len(cfg.cols) /\ i # k
      BY <1>a, <1>b, <2>1 DEF TypeOK
    <3>2. cfg.cols[i].path # cfg.cols[k].path
      BY <3>1 DEF Alone
    <3>3. /\ contexts'[cfg.cols[k].path] = contexts[cfg.cols[k].path]
          /\ contextMap'[cfg.cols[k].path] = contextMap[cfg.cols[k].path]
      BY <1>a, <1>c, <2>1, <3>1, <3>2
    <3> QED BY <2>1, <3>3 DEF Foresight, Known
  <2> QED BY <2>1, <2>2 DEF Foresight
<1>7. CASE UNCHANGED vars
  BY <1>7 DEF vars, store, Foresight, Known, Alone
<1> QED
  BY <1>1, <1>2, <1>3, <1>4, <1>5, <1>6, <1>7 DEF Next

\* A step that changes no context, or gives the path of collection i the context
\* that this collection asks for, leaves the others alone.
LEMMA AddLeavesInPlace ==
    ASSUME TypeOK, i \in 1 .. Len(cfg.cols),
           contexts' \in {contexts, [contexts EXCEPT ![cfg.cols[i].path] = cfg.cols[i].context]}
    PROVE  LeavesInPlace
<1> SUFFICES ASSUME NEW k \in 1 .. Len(cfg.cols), Alone(k),
                    contexts[cfg.cols[k].path] = cfg.cols[k].context
             PROVE  contexts'[cfg.cols[k].path] = cfg.cols[k].context
  BY DEF LeavesInPlace, Alone
<1>1. contexts \in [Paths -> Contexts \union {None}] /\ cfg.cols[k].path \in Paths
  BY ColType DEF TypeOK
<1>2. cfg.cols[i].path = cfg.cols[k].path => i = k
  BY DEF Alone
<1> QED
  BY <1>1, <1>2

\* No step disturbs a context that is in place (EnsureCollections, ContextRemove).
LEMMA StepInPlace == TypeInv /\ Foresight /\ [Next]_vars => [LeavesInPlace]_vars
<1> SUFFICES ASSUME TypeInv, Foresight, Next PROVE LeavesInPlace
  OBVIOUS
<1>a. /\ TypeOK /\ Placed /\ cfg \in Settings /\ i \in Nat /\ 1 <= i
      /\ contexts \in [Paths -> Contexts \union {None}]
  BY DEF TypeInv, TypeOK
<1>b. Len(cfg.cols) \in Nat
  BY <1>a, SettingsType
<1>1. CASE contexts' = contexts
  BY <1>1 DEF LeavesInPlace
<1>2. CASE AddContext \/ ReplaceContext
  <2>1. /\ i \in 1 .. Len(cfg.cols)
        /\ contexts' \in {contexts, [contexts EXCEPT ![cfg.cols[i].path] = cfg.cols[i].context]}
    BY <1>2, <1>a, <1>b DEF AddContext, ReplaceContext, ContextAdd, Col, Placed
  <2> QED BY <1>a, <2>1, AddLeavesInPlace
<1>3. CASE RemoveContext
  <2>1. /\ pc = "remove" /\ i \in 1 .. Len(cfg.cols)
        /\ contexts' \in {contexts, [contexts EXCEPT ![cfg.cols[i].path] = None]}
    <3>1. pc = "remove" /\ i \in 1 .. Len(cfg.cols)
      BY <1>3, <1>a, <1>b DEF RemoveContext, Placed
    <3>2. contexts' \in {contexts, [contexts EXCEPT ![Col.path] = None]}
      BY <1>3 DEF RemoveContext
    <3> QED BY <3>1, <3>2 DEF Col
  <2> SUFFICES ASSUME NEW k \in 1 .. Len(cfg.cols), Alone(k),
                      contexts[cfg.cols[k].path] = cfg.cols[k].context
               PROVE  contexts'[cfg.cols[k].path] = cfg.cols[k].context
    BY DEF LeavesInPlace, Alone
  <2>2. cfg.cols[k].path \in Paths /\ cfg.cols[k].context \in Contexts
    BY <1>a, ColType
  <2>3. k # i
    BY <2>1, <2>2, StartupAssumption DEF Foresight
  <2>4. cfg.cols[i].path # cfg.cols[k].path
    BY <2>1, <2>3 DEF Alone
  <2> QED BY <1>a, <2>1, <2>2, <2>4
<1>4. CASE Load \/ Probe \/ ListCollections \/ Registered \/ AddCollection
           \/ ListContexts \/ InOrder \/ OutOfOrder \/ EndSync \/ Schedule \/ Exit
  <2>1. contexts' = contexts
    BY <1>4 DEF Load, Probe, ListCollections, Registered, AddCollection, ListContexts, InOrder,
                OutOfOrder, EndSync, Schedule, Exit, store
  <2> QED BY <1>1, <2>1
<1> QED
  BY <1>2, <1>3, <1>4 DEF Next

\* For all configurations, and whatever commands fail or have their effect in
\* spite of it, the context that the only collection of a path asks for is never
\* removed or replaced once it is in place (syncCollectionContexts).
THEOREM InPlaceCorrect == Spec => InPlaceUntouched
<1>1. Init => Foresight
  BY DEF Init, Foresight
<1> QED
  BY <1>1, InitTypeInv, StepTypeInv, StepForesight, StepInPlace, PTL DEF Spec, InPlaceUntouched

-----------------------------------------------------------------------------
(* Convergence                                                             *)

\* The first m collections are registered.
Reg(m) == \A k \in 1 .. m : collections[cfg.cols[k].name] # None

\* Among the first m collections, k is the last one with a context for its path.
DecidesIn(k, m) ==
    /\ ~IsBlank(cfg.cols[k].context)
    /\ \A l \in k + 1 .. m :
           cfg.cols[l].path = cfg.cols[k].path => IsBlank(cfg.cols[l].context)

Has(k) == contexts[cfg.cols[k].path] = cfg.cols[k].context

\* How far a start without failures has come with the collections,
RegInv ==
    /\ pc \in {"register", "context"} => \A n \in listed : collections[n] # None
    /\ clean =>
          /\ pc = "register" => Reg(i - 1)
          /\ pc = "context" => Reg(i)
          /\ pc \in {"sync", "remove", "replace", "schedule", "ready"} => Reg(Len(cfg.cols))

\* and with their contexts: while it works on a path, it knows the others.
SyncInv ==
    clean =>
        /\ pc = "sync" =>
              /\ \A p \in Paths : contextMap[p] = contexts[p]
              /\ \A k \in 1 .. i - 1 : DecidesIn(k, i - 1) => Has(k)
        /\ pc \in {"remove", "replace"} =>
              /\ ~IsBlank(cfg.cols[i].context)
              /\ \A p \in Paths : p # cfg.cols[i].path => contextMap[p] = contexts[p]
              /\ \A k \in 1 .. i - 1 :
                    (cfg.cols[k].path # cfg.cols[i].path /\ DecidesIn(k, i - 1)) => Has(k)
        /\ pc \in {"schedule", "ready"} =>
              \A k \in 1 .. Len(cfg.cols) : DecidesIn(k, Len(cfg.cols)) => Has(k)

\* Collections are never taken from qmd, and every step that moves on without a
\* failure has found or registered the one at hand (EnsureCollections).
LEMMA StepRegInv == TypeInv /\ RegInv /\ [Next]_vars => RegInv'
<1> SUFFICES ASSUME TypeInv, RegInv, [Next]_vars PROVE RegInv'
  OBVIOUS
<1>a. /\ TypeOK /\ Placed /\ cfg \in Settings /\ i \in Nat /\ 1 <= i
      /\ collections \in [Names -> Paths \union {None}] /\ listed \subseteq Names
  BY DEF TypeInv, TypeOK
<1>b. Len(cfg.cols) \in Nat
  BY <1>a, SettingsType
<1>c. \A k \in 1 .. Len(cfg.cols) : cfg.cols[k].path \in Paths /\ cfg.cols[k].name \in Names
  BY <1>a, ColType
<1>1. CASE Load \/ Probe \/ Exit
  <2>1. pc' \in {"down", "probe", "list"}
    BY <1>1 DEF Load, Probe, Exit
  <2> QED BY <2>1 DEF RegInv
<1>2. CASE ListCollections
  <2>1. /\ pc' = "register" /\ i' = 1 /\ UNCHANGED <<collections, cfg>>
        /\ \A n \in listed' : collections[n] # None
    BY <1>2 DEF ListCollections, CollectionList, RegisteredNames, store
  <2> QED BY <2>1 DEF RegInv, Reg
<1>3. CASE Registered
  <2>1. /\ pc = "register" /\ pc' = "register" /\ i <= Len(cfg.cols) /\ i' = i + 1
        /\ UNCHANGED <<collections, cfg, listed, clean>>
        /\ cfg.cols[i].name \in listed
    BY <1>3 DEF Registered, More, Continue, Col, store
  <2>2. clean => Reg(i)
    BY <1>a, <2>1 DEF RegInv, Reg
  <2> QED BY <1>a, <2>1, <2>2 DEF RegInv, Reg
<1>4. CASE AddCollection
  <2>1. /\ pc = "register" /\ i \in 1 .. Len(cfg.cols) /\ UNCHANGED <<cfg, listed>>
        /\ \/ pc' = "context" /\ i' = i
           \/ pc' = "register" /\ i' = i + 1
        /\ collections' \in {collections, [collections EXCEPT ![cfg.cols[i].name] = cfg.cols[i].path]}
        /\ clean' => clean /\ collections' = [collections EXCEPT ![cfg.cols[i].name] = cfg.cols[i].path]
    <3>1. pc = "register" /\ i \in 1 .. Len(cfg.cols) /\ UNCHANGED <<cfg, listed>>
      BY <1>4, <1>a, <1>b DEF AddCollection, More
    <3>2. \/ pc' = "context" /\ i' = i
          \/ pc' = "register" /\ i' = i + 1
      BY <1>4 DEF AddCollection, Continue
    <3>3. collections' \in {collections, [collections EXCEPT ![Col.name] = Col.path]}
      BY <1>4 DEF AddCollection
    <3>4. clean' => clean /\ collections' = [collections EXCEPT ![Col.name] = Col.path]
      BY <1>4, Zenon DEF AddCollection, Outcome
    <3> QED BY <3>1, <3>2, <3>3, <3>4 DEF Col
  <2>2. \A n \in Names : collections[n] # None => collections'[n] # None
    BY <1>a, <1>c, <2>1, StartupAssumption
  <2>3. \A n \in listed' : collections'[n] # None
    BY <1>a, <2>1, <2>2 DEF RegInv
  <2>4. ASSUME clean' PROVE \A k \in 1 .. i : collections'[cfg.cols[k].name] # None
    <3> TAKE k \in 1 .. i
    <3>1. CASE k = i
      BY <1>a, <1>c, <2>1, <2>4, <3>1, StartupAssumption
    <3>2. CASE k # i
      <4>1. k \in 1 .. i - 1 /\ k \in 1 .. Len(cfg.cols)
        BY <2>1, <3>2
      <4> QED BY <1>c, <2>1, <2>2, <2>4, <4>1 DEF RegInv, Reg
    <3> QED BY <3>1, <3>2
  <2> QED BY <1>a, <2>1, <2>3, <2>4 DEF RegInv, Reg
<1>5. CASE AddContext
  <2>1. /\ pc = "context" /\ pc' = "register" /\ i' = i + 1 /\ UNCHANGED <<collections, cfg, listed>>
        /\ clean' => clean
    BY <1>5 DEF AddContext, ContextAdd, Continue, Outcome
  <2> QED BY <1>a, <2>1 DEF RegInv, Reg
<1>6. CASE ListContexts
  <2>1. /\ pc = "register" /\ i > Len(cfg.cols) /\ pc' \in {"sync", "schedule"}
        /\ UNCHANGED <<collections, cfg>> /\ (clean' => clean)
    <3>1. clean' => clean
      BY <1>6, Zenon DEF ListContexts, Outcome
    <3>2. pc = "register" /\ pc' \in {"sync", "schedule"} /\ UNCHANGED <<collections, cfg>>
      BY <1>6 DEF ListContexts, store
    <3>3. ~(i <= Len(cfg.cols))
      BY <1>6 DEF ListContexts, More
    <3> QED BY <1>a, <1>b, <3>1, <3>2, <3>3
  <2>2. clean => Reg(Len(cfg.cols))
    BY <1>a, <1>b, <2>1 DEF RegInv, Reg
  <2> QED BY <2>1, <2>2 DEF RegInv, Reg
<1>7. CASE InOrder \/ OutOfOrder \/ RemoveContext \/ ReplaceContext \/ EndSync \/ Schedule
  <2>1. /\ pc \in {"sync", "remove", "replace", "schedule"}
        /\ pc' \in {"sync", "remove", "replace", "schedule", "ready"}
        /\ UNCHANGED <<collections, cfg>> /\ (clean' => clean)
    <3>1. CASE InOrder \/ OutOfOrder \/ EndSync \/ Schedule
      BY <3>1 DEF InOrder, OutOfOrder, EndSync, Schedule, Continue, store
    <3>2. CASE RemoveContext
      BY <3>2 DEF RemoveContext, Continue, Outcome
    <3>3. CASE ReplaceContext
      BY <3>3 DEF ReplaceContext, ContextAdd, Continue, Outcome
    <3> QED BY <1>7, <3>1, <3>2, <3>3
  <2> QED BY <2>1 DEF RegInv, Reg
<1>8. CASE UNCHANGED vars
  BY <1>8 DEF vars, store, RegInv, Reg
<1> QED
  BY <1>1, <1>2, <1>3, <1>4, <1>5, <1>6, <1>7, <1>8 DEF Next

\* A step without a failure brings the path at hand in order and touches no other
\* one (syncCollectionContexts).
LEMMA StepSyncInv == TypeInv /\ SyncInv /\ [Next]_vars => SyncInv'
<1> SUFFICES ASSUME TypeInv, SyncInv, [Next]_vars, clean' PROVE SyncInv'
  BY DEF SyncInv
<1>a. /\ TypeOK /\ Placed /\ cfg \in Settings /\ i \in Nat /\ 1 <= i /\ i <= Len(cfg.cols) + 1
      /\ contexts \in [Paths -> Contexts \union {None}]
      /\ contextMap \in [Paths -> Contexts \union {None}]
  BY DEF TypeInv, TypeOK
<1>b. Len(cfg.cols) \in Nat
  BY <1>a, SettingsType
<1>c. \A k \in 1 .. Len(cfg.cols) : cfg.cols[k].path \in Paths /\ cfg.cols[k].context \in Contexts
  BY <1>a, ColType
<1>1. CASE Load \/ Probe \/ ListCollections \/ Registered \/ AddCollection \/ AddContext \/ Exit
  <2>1. pc' \in {"down", "probe", "list", "register", "context"}
    BY <1>1 DEF Load, Probe, ListCollections, Registered, AddCollection, AddContext, Exit, Continue
  <2> QED BY <2>1 DEF SyncInv
<1>2. CASE ListContexts
  <2>1. contextMap' = contexts /\ pc' = "sync" /\ i' = 1 /\ UNCHANGED <<contexts, cfg>>
    BY <1>2, Zenon DEF ListContexts, Outcome, store
  <2> QED BY <2>1 DEF SyncInv
<1>3. CASE InOrder
  <2>1. /\ pc = "sync" /\ pc' = "sync" /\ i' = i + 1 /\ i \in 1 .. Len(cfg.cols)
        /\ UNCHANGED <<contexts, contextMap, cfg, clean>>
        /\ (IsBlank(cfg.cols[i].context) \/ contextMap[cfg.cols[i].path] = cfg.cols[i].context)
    <3>1. i \in 1 .. Len(cfg.cols)
      BY <1>3, <1>a, <1>b DEF InOrder, More
    <3>2. IsBlank(cfg.cols[i].context) \/ contextMap[cfg.cols[i].path] = cfg.cols[i].context
      BY <1>3 DEF InOrder, Col
    <3> QED BY <1>3, <3>1, <3>2 DEF InOrder, Continue, store
  <2>2. /\ \A p \in Paths : contextMap[p] = contexts[p]
        /\ \A k \in 1 .. i - 1 : DecidesIn(k, i - 1) => Has(k)
    BY <2>1 DEF SyncInv
  <2>3. ASSUME NEW k \in 1 .. i, DecidesIn(k, i) PROVE Has(k)
    <3>1. CASE k = i
      BY <1>c, <2>1, <2>2, <2>3, <3>1 DEF DecidesIn, Has
    <3>2. CASE k \in 1 .. i - 1
      <4>1. DecidesIn(k, i - 1)
        BY <2>3, <1>a DEF DecidesIn
      <4> QED BY <2>2, <3>2, <4>1
    <3> QED BY <1>a, <3>1, <3>2
  <2>4. \A k \in 1 .. i' - 1 : DecidesIn(k, i - 1)' => Has(k)'
    BY <1>a, <2>1, <2>3 DEF DecidesIn, Has
  <2> QED BY <2>1, <2>2, <2>4 DEF SyncInv
<1>4. CASE OutOfOrder
  <2>1. /\ pc = "sync" /\ pc' \in {"remove", "replace"} /\ ~IsBlank(cfg.cols[i].context)
        /\ UNCHANGED <<contexts, contextMap, cfg, clean, i>>
    BY <1>4 DEF OutOfOrder, Col, store
  <2> QED BY <2>1 DEF SyncInv, DecidesIn, Has
<1>5. CASE RemoveContext
  <2>1. /\ pc = "remove" /\ i \in 1 .. Len(cfg.cols) /\ UNCHANGED <<contextMap, cfg>>
    BY <1>5, <1>a, <1>b DEF RemoveContext, Placed
  <2>2. contexts' \in {contexts, [contexts EXCEPT ![cfg.cols[i].path] = None]}
    BY <1>5 DEF RemoveContext, Col
  <2>3. clean /\ pc' \in {"remove", "replace"} /\ i' = i
    BY <1>5 DEF RemoveContext, Outcome
  <2>4. \A p \in Paths : p # cfg.cols[i].path => contexts'[p] = contexts[p]
    BY <1>a, <2>2
  <2>5. \A k \in 1 .. i - 1 : (cfg.cols[k].path # cfg.cols[i].path /\ Has(k)) => Has(k)'
    BY <1>a, <1>b, <1>c, <2>1, <2>4 DEF Has
  <2> QED BY <2>1, <2>3, <2>4, <2>5 DEF SyncInv, DecidesIn
<1>6. CASE ReplaceContext
  <2>1. /\ pc = "replace" /\ i \in 1 .. Len(cfg.cols) /\ pc' = "sync" /\ i' = i + 1 /\ cfg' = cfg
    BY <1>6, <1>a, <1>b DEF ReplaceContext, Continue, Placed
  <2>2. /\ clean
        /\ contexts' = [contexts EXCEPT ![cfg.cols[i].path] = cfg.cols[i].context]
        /\ contextMap' = [contextMap EXCEPT ![cfg.cols[i].path] = cfg.cols[i].context]
    <3>1. PICK ok \in BOOLEAN :
            /\ ContextAdd(Col.path, Col.context, ok)
            /\ contextMap' = IF ok THEN [contextMap EXCEPT ![Col.path] = Col.context] ELSE contextMap
            /\ Outcome(ok)
      BY <1>6 DEF ReplaceContext
    <3>2. ok /\ clean
      BY <3>1, Zenon DEF Outcome
    <3>3. contexts' = [contexts EXCEPT ![Col.path] = Col.context]
      BY <3>1, <3>2 DEF ContextAdd
    <3> QED BY <3>1, <3>2, <3>3 DEF Col
  <2>3. \A p \in Paths : contextMap'[p] = contexts'[p]
    BY <1>a, <1>c, <2>1, <2>2 DEF SyncInv
  <2>4. ASSUME NEW k \in 1 .. i, DecidesIn(k, i)
        PROVE  contexts'[cfg.cols[k].path] = cfg.cols[k].context
    <3>1. CASE k = i
      BY <1>a, <1>c, <2>1, <2>2, <3>1
    <3>2. CASE k \in 1 .. i - 1
      <4>1. cfg.cols[k].path # cfg.cols[i].path
        BY <2>1, <2>2, <2>4, <3>2, <1>a DEF DecidesIn, SyncInv
      <4>2. DecidesIn(k, i - 1)
        BY <2>4, <1>a DEF DecidesIn
      <4>3. Has(k)
        BY <2>1, <2>2, <3>2, <4>1, <4>2 DEF SyncInv
      <4> QED BY <1>a, <1>b, <1>c, <2>1, <2>2, <3>2, <4>1, <4>3 DEF Has
    <3> QED BY <1>a, <3>1, <3>2
  <2>5. \A k \in 1 .. i' - 1 : DecidesIn(k, i - 1)' => Has(k)'
    BY <1>a, <2>1, <2>4 DEF DecidesIn, Has
  <2> QED BY <2>1, <2>3, <2>5 DEF SyncInv
<1>7. CASE EndSync
  <2>1. /\ pc = "sync" /\ ~(i <= Len(cfg.cols)) /\ pc' = "schedule"
        /\ UNCHANGED <<contexts, cfg, clean>>
    BY <1>7 DEF EndSync, More, store
  <2>2. i - 1 = Len(cfg.cols)
    BY <1>a, <1>b, <2>1
  <2> QED BY <2>1, <2>2 DEF SyncInv, DecidesIn, Has
<1>8. CASE Schedule
  <2>1. pc = "schedule" /\ pc' = "ready" /\ UNCHANGED <<contexts, cfg, clean>>
    BY <1>8 DEF Schedule, store
  <2> QED BY <2>1 DEF SyncInv, DecidesIn, Has
<1>9. CASE UNCHANGED vars
  BY <1>9 DEF vars, store, SyncInv, DecidesIn, Has
<1> QED
  BY <1>1, <1>2, <1>3, <1>4, <1>5, <1>6, <1>7, <1>8, <1>9 DEF Next

\* For all configurations and whatever earlier starts have left in qmd, a start in
\* which no operation fails ends with every collection registered and every path
\* described as its last collection says (EnsureCollections).
THEOREM StartCorrect == Spec => []StartConverges
<1>1. Init => RegInv /\ SyncInv
  BY DEF Init, RegInv, SyncInv
<1>2. TypeInv /\ RegInv /\ SyncInv => StartConverges
  BY DEF RegInv, Reg, SyncInv, StartConverges, Decides, DecidesIn, Has
<1> QED
  BY <1>1, <1>2, InitTypeInv, StepTypeInv, StepRegInv, StepSyncInv, PTL DEF Spec
=============================================================================
