----------------------- MODULE SearchAdmissionProofs ------------------------
(***************************************************************************)
(* The token accounting of SearchAdmission, for any number of calls and    *)
(* any limits.  Coherent ties the program point of a call to what it holds;*)
(* with it every step moves each limiter in one of three ways, from which  *)
(* the accounting and the refinement of Semaphore follow.                  *)
(***************************************************************************)
EXTENDS SearchAdmission, FiniteSetTheorems, TLAPS

Holding == {"slot", "start", "run", "reap", "freeSlot", "freeToken"}

Coherent ==
    \A s \in Searches :
        /\ token[s] => pc[s] \in Holding
        /\ pc[s] \in {"slot", "freeSlot"} => mode[s] = "query"
        /\ proc[s] \in {"running", "killed"} => pc[s] \in {"run", "reap"}

SlotLimit == SlotsLimited => queryTokens <= QueryMaxConcurrency

IInv == TypeOK /\ Coherent /\ TokensAccounted /\ SlotLimit

\* The three things a step may do to a channel and to its holders.
Keeps(n, n1, H, H1) == n1 = n /\ H1 = H
Takes(n, n1, H, H1, cap) ==
    \E s \in Searches : s \notin H /\ n < cap /\ n1 = n + 1 /\ H1 = H \union {s}
Gives(n, n1, H, H1) ==
    \E s \in Searches : s \in H /\ n1 = Receive(n) /\ H1 = H \ {s}

TokenMove ==
    \/ Keeps(searchTokens, searchTokens', TokenHolders, TokenHolders')
    \/ Takes(searchTokens, searchTokens', TokenHolders, TokenHolders', TokenCap)
    \/ Gives(searchTokens, searchTokens', TokenHolders, TokenHolders')
SlotMove ==
    \/ Keeps(queryTokens, queryTokens', SlotHolders, SlotHolders')
    \/ Takes(queryTokens, queryTokens', SlotHolders, SlotHolders', QueryMaxConcurrency)
    \/ Gives(queryTokens, queryTokens', SlotHolders, SlotHolders')

\* The channel of the orchestrator has room for a token, whatever is configured.
LEMMA CapPositive == TokenCap \in Nat /\ TokenCap > 0
  BY LimitsAssumption DEF TokenCap

\* Where the switch of execSearch leads; only a deep query goes for a slot.
LEMMA DispatchPoint ==
    ASSUME NEW m \in Modes
    PROVE  /\ Dispatch(m) \in Points /\ Dispatch(m) \in Holding
           /\ Dispatch(m) = "slot" => m = "query"
           /\ Dispatch(m) \notin {"freeSlot", "run", "reap"}
           /\ Dispatch(m) = "start" => m # "query"
  BY DEF Dispatch, Points, Holding, Modes

\* No call runs at first and both channels are empty (New, NewCLI).
LEMMA InitIInv == Init => IInv
  <1> SUFFICES ASSUME Init PROVE IInv
    OBVIOUS
  <1>1. TypeOK
    <2>1. overloaded \in BOOLEAN
      BY Zenon DEF Init
    <2>2. token \in [Searches -> BOOLEAN] /\ ctxDone \in [Searches -> BOOLEAN]
      BY DEF Init
    <2>3. /\ pc \in [Searches -> Points] /\ mode \in [Searches -> Modes]
          /\ proc \in [Searches -> Processes]
      BY DEF Init, Points, Modes, Processes
    <2>4. searchTokens \in 0..TokenCap /\ queryTokens \in Nat /\ abandoned \in 0..MaxAbandoned
      BY CapPositive, LimitsAssumption DEF Init
    <2> QED
      BY <2>1, <2>2, <2>3, <2>4 DEF TypeOK
  <1>2. Coherent
    BY DEF Init, Coherent
  <1>3. TokenHolders = {} /\ SlotHolders = {}
    BY DEF Init, TokenHolders, SlotHolders
  <1>4. TokensAccounted
    BY <1>3, FS_EmptySet DEF TokensAccounted, Init
  <1>5. SlotLimit
    BY LimitsAssumption DEF SlotLimit, SlotsLimited, Init
  <1> QED
    BY <1>1, <1>2, <1>4, <1>5 DEF IInv

-----------------------------------------------------------------------------
(* Types and coherence                                                     *)

\* Every step keeps the types, and ties what a call holds to where it stands.
LEMMA StepTypeCoherent ==
    ASSUME TypeOK, Coherent, [Next]_vars
    PROVE  TypeOK' /\ Coherent'
  <1> USE DEF TypeOK, Coherent, Points, Processes, Holding
  <1>1. ASSUME NEW s \in Searches, NEW m \in Modes, Begin(s, m)
        PROVE  TypeOK' /\ Coherent'
    BY <1>1 DEF Begin
  <1>2. ASSUME NEW s \in Searches, CheckOverload(s) PROVE TypeOK' /\ Coherent'
    BY <1>2, DispatchPoint DEF CheckOverload
  <1>3. ASSUME NEW s \in Searches, TakeToken(s) PROVE TypeOK' /\ Coherent'
    BY <1>3, DispatchPoint, CapPositive DEF TakeToken
  <1>4. ASSUME NEW s \in Searches, QueueBusy(s) PROVE TypeOK' /\ Coherent'
    BY <1>4 DEF QueueBusy
  <1>5. ASSUME NEW s \in Searches, TakeSlot(s) PROVE TypeOK' /\ Coherent'
    BY <1>5 DEF TakeSlot
  <1>6. ASSUME NEW s \in Searches, SlotBusy(s) PROVE TypeOK' /\ Coherent'
    BY <1>6 DEF SlotBusy
  <1>7. ASSUME NEW s \in Searches, StartProcess(s) PROVE TypeOK' /\ Coherent'
    BY <1>7 DEF StartProcess, Return
  <1>8. ASSUME NEW s \in Searches, ProcessExit(s) PROVE TypeOK' /\ Coherent'
    BY <1>8 DEF ProcessExit
  <1>9. ASSUME NEW s \in Searches, Collect(s) PROVE TypeOK' /\ Coherent'
    BY <1>9 DEF Collect, Return
  <1>10. ASSUME NEW s \in Searches, Kill(s) PROVE TypeOK' /\ Coherent'
    BY <1>10 DEF Kill
  <1>11. ASSUME NEW s \in Searches, Abandon(s) PROVE TypeOK' /\ Coherent'
    BY <1>11, LimitsAssumption DEF Abandon, Return
  <1>12. CASE AbandonedExit
    BY <1>12, LimitsAssumption DEF AbandonedExit
  <1>13. ASSUME NEW s \in Searches, ReleaseSlot(s) PROVE TypeOK' /\ Coherent'
    BY <1>13 DEF ReleaseSlot, Receive
  <1>14. ASSUME NEW s \in Searches, ReleaseToken(s) PROVE TypeOK' /\ Coherent'
    BY <1>14, CapPositive DEF ReleaseToken, Receive
  <1>15. CASE SwitchOverload
    BY <1>15 DEF SwitchOverload
  <1>16. ASSUME NEW s \in Searches, EndContext(s) PROVE TypeOK' /\ Coherent'
    BY <1>16 DEF EndContext
  <1>17. CASE UNCHANGED vars
    BY <1>17 DEF vars
  <1> QED
    BY <1>1, <1>2, <1>3, <1>4, <1>5, <1>6, <1>7, <1>8, <1>9, <1>10, <1>11, <1>12,
       <1>13, <1>14, <1>15, <1>16, <1>17 DEF Next, Step, Cancel, Timeout

-----------------------------------------------------------------------------
(* How a step moves the limiters                                           *)

\* A step leaves the search tokens and their holders, takes one, or gives one back.
LEMMA StepTokenMove ==
    ASSUME TypeOK, Coherent, [Next]_vars
    PROVE  TokenMove
  <1> USE DEF TypeOK, TokenHolders
  <1>1. ASSUME NEW s \in Searches, TakeToken(s) PROVE TokenMove
    <2>1. s \notin TokenHolders
      BY <1>1 DEF TakeToken, Coherent, Holding
    <2>2. TokenHolders' = TokenHolders \union {s}
      BY <1>1 DEF TakeToken
    <2> QED
      BY <1>1, <2>1, <2>2 DEF TakeToken, TokenMove, Takes
  <1>2. ASSUME NEW s \in Searches, ReleaseToken(s) PROVE TokenMove
    <2>1. CASE token[s]
      <3>1. s \in TokenHolders /\ TokenHolders' = TokenHolders \ {s}
        BY <1>2, <2>1 DEF ReleaseToken
      <3> QED
        BY <1>2, <2>1, <3>1 DEF ReleaseToken, TokenMove, Gives
    <2>2. CASE ~token[s]
      <3>1. TokenHolders' = TokenHolders
        BY <1>2, <2>2 DEF ReleaseToken
      <3> QED
        BY <1>2, <2>2, <3>1 DEF ReleaseToken, TokenMove, Keeps
    <2> QED
      BY <2>1, <2>2
  <1>3. CASE UNCHANGED <<searchTokens, token>>
    BY <1>3 DEF TokenMove, Keeps
  <1>4. ASSUME NEW s \in Searches,
               Step(s) \/ TakeSlot(s) \/ ProcessExit(s) \/ Cancel(s) \/ Timeout(s)
        PROVE  UNCHANGED <<searchTokens, token>> \/ ReleaseToken(s)
    BY <1>4 DEF Step, CheckOverload, QueueBusy, SlotBusy, StartProcess, Collect, Kill,
         Abandon, ReleaseSlot, TakeSlot, ProcessExit, Cancel, Timeout, EndContext
  <1>5. ASSUME AbandonedExit \/ SwitchOverload
                 \/ \E s \in Searches, m \in Modes : Begin(s, m)
        PROVE  UNCHANGED <<searchTokens, token>>
    BY <1>5 DEF AbandonedExit, SwitchOverload, Begin
  <1>6. CASE UNCHANGED vars
    BY <1>3, <1>6 DEF vars
  <1> QED
    BY <1>1, <1>2, <1>3, <1>4, <1>5, <1>6 DEF Next

\* The same of the query slots.
LEMMA StepSlotMove ==
    ASSUME TypeOK, Coherent, [Next]_vars
    PROVE  SlotMove
  <1> USE DEF TypeOK, SlotHolders
  <1>1. ASSUME NEW s \in Searches, TakeSlot(s) PROVE SlotMove
    <2>1. CASE SlotsLimited
      <3>1. s \notin SlotHolders /\ SlotHolders' = SlotHolders \union {s}
        BY <1>1, <2>1 DEF TakeSlot, Coherent
      <3> QED
        BY <1>1, <2>1, <3>1 DEF TakeSlot, SlotMove, Takes
    <2>2. CASE ~SlotsLimited
      BY <1>1, <2>2 DEF TakeSlot, SlotMove, Keeps
    <2> QED
      BY <2>1, <2>2
  <1>2. ASSUME NEW s \in Searches, ReleaseSlot(s) PROVE SlotMove
    <2>1. CASE SlotsLimited
      <3>1. s \in SlotHolders /\ SlotHolders' = SlotHolders \ {s}
        BY <1>2, <2>1 DEF ReleaseSlot, Coherent
      <3> QED
        BY <1>2, <2>1, <3>1 DEF ReleaseSlot, SlotMove, Gives
    <2>2. CASE ~SlotsLimited
      BY <1>2, <2>2 DEF ReleaseSlot, SlotMove, Keeps
    <2> QED
      BY <2>1, <2>2
  <1>3. ASSUME queryTokens' = queryTokens, SlotHolders' = SlotHolders PROVE SlotMove
    BY <1>3 DEF SlotMove, Keeps
  <1>4. ASSUME NEW s \in Searches, CheckOverload(s) \/ TakeToken(s) PROVE SlotMove
    <2>1. /\ pc' = [pc EXCEPT ![s] = pc'[s]]
          /\ mode' = mode /\ queryTokens' = queryTokens
          /\ pc[s] \in {"check", "queue"} /\ pc'[s] \in {"queue", Dispatch(mode[s])}
      BY <1>4 DEF CheckOverload, TakeToken
    <2>2. mode[s] = "query" => pc'[s] \in {"queue", "slot", "freeToken"}
      BY <2>1 DEF Dispatch
    <2> QED
      BY <1>3, <2>1, <2>2
  <1>5. ASSUME NEW s \in Searches, QueueBusy(s) \/ SlotBusy(s) \/ ReleaseToken(s)
        PROVE  SlotMove
    <2>1. SlotHolders' = SlotHolders /\ queryTokens' = queryTokens
      BY <1>5 DEF QueueBusy, SlotBusy, ReleaseToken
    <2> QED
      BY <1>3, <2>1
  <1>6. ASSUME NEW s \in Searches,
               StartProcess(s) \/ Collect(s) \/ Kill(s) \/ Abandon(s)
        PROVE  SlotMove
    <2>1. SlotHolders' = SlotHolders /\ queryTokens' = queryTokens
      BY <1>6 DEF StartProcess, Collect, Kill, Abandon, Return
    <2> QED
      BY <1>3, <2>1
  <1>7. ASSUME NEW s \in Searches, NEW m \in Modes, Begin(s, m) PROVE SlotMove
    <2>1. SlotHolders' = SlotHolders /\ queryTokens' = queryTokens
      BY <1>7 DEF Begin
    <2> QED
      BY <1>3, <2>1
  <1>8. ASSUME NEW s \in Searches, ProcessExit(s) \/ EndContext(s) PROVE SlotMove
    BY <1>3, <1>8 DEF ProcessExit, EndContext
  <1>9. CASE AbandonedExit \/ SwitchOverload \/ UNCHANGED vars
    BY <1>3, <1>9 DEF AbandonedExit, SwitchOverload, vars
  <1> QED
    BY <1>1, <1>2, <1>4, <1>5, <1>6, <1>7, <1>8, <1>9 DEF Next, Step, Cancel, Timeout

\* A move keeps the channel equal to the number of its holders.
LEMMA MoveKeepsCount ==
    ASSUME NEW H, NEW H1, IsFiniteSet(H), NEW n, NEW n1, NEW cap, n = Cardinality(H),
           \/ Keeps(n, n1, H, H1)
           \/ Takes(n, n1, H, H1, cap)
           \/ Gives(n, n1, H, H1)
    PROVE  n1 = Cardinality(H1)
  <1>1. n \in Nat
    BY FS_CardinalityType
  <1>2. CASE Keeps(n, n1, H, H1)
    BY <1>2 DEF Keeps
  <1>3. CASE Takes(n, n1, H, H1, cap)
    BY <1>3, FS_AddElement DEF Takes
  <1>4. CASE Gives(n, n1, H, H1)
    <2>1. PICK s \in Searches : s \in H /\ n1 = Receive(n) /\ H1 = H \ {s}
      BY <1>4 DEF Gives
    <2>2. Cardinality(H1) = n - 1
      BY <2>1, FS_RemoveElement
    <2>3. n > 0
      BY <2>1, <1>1, FS_EmptySet
    <2> QED
      BY <1>1, <2>1, <2>2, <2>3 DEF Receive
  <1> QED
    BY <1>2, <1>3, <1>4

\* Both sets of holders are finite, so that their members can be counted.
LEMMA HoldersFinite == IsFiniteSet(TokenHolders) /\ IsFiniteSet(SlotHolders)
  BY SearchesAssumption, FS_Subset DEF TokenHolders, SlotHolders

\* Every step keeps the inductive invariant.
LEMMA StepIInv == IInv /\ [Next]_vars => IInv'
  <1> SUFFICES ASSUME IInv, [Next]_vars PROVE IInv'
    OBVIOUS
  <1>1. TypeOK' /\ Coherent'
    BY StepTypeCoherent DEF IInv
  <1>2. TokenMove /\ SlotMove
    BY StepTokenMove, StepSlotMove DEF IInv
  <1>3. searchTokens' = Cardinality(TokenHolders')
    BY <1>2, HoldersFinite, MoveKeepsCount DEF IInv, TokensAccounted, TokenMove
  <1>4. queryTokens' = Cardinality(SlotHolders')
    BY <1>2, HoldersFinite, MoveKeepsCount DEF IInv, TokensAccounted, SlotMove
  <1>5. SlotLimit'
    BY <1>2, LimitsAssumption
       DEF IInv, TypeOK, SlotLimit, SlotMove, Keeps, Takes, Gives, Receive, SlotsLimited
  <1> QED
    BY <1>1, <1>3, <1>4, <1>5 DEF IInv, TokensAccounted

\* The inductive invariant of execSearch, Query and run: what a call holds follows
\* from where it stands, and the channels count it.
THEOREM Invariant == Spec => []IInv
  BY InitIInv, StepIInv, PTL DEF Spec

-----------------------------------------------------------------------------
(* The theorems                                                            *)

\* The state of the calls and of the channels is well typed in every reachable
\* state; in particular the channel of execSearch never exceeds its capacity.
THEOREM TypeCorrect == Spec => []TypeOK
  <1>1. IInv => TypeOK
    BY DEF IInv
  <1> QED
    BY <1>1, Invariant, PTL

\* No path out of execSearch or Query leaks a token or gives back one it did not
\* take, for any number of concurrent calls and any limits.
THEOREM AccountingCorrect == Spec => []TokensAccounted
  <1>1. IInv => TokensAccounted
    BY DEF IInv
  <1> QED
    BY <1>1, Invariant, PTL

\* The deep queries a call waits for stay within query_max_concurrency.
THEOREM WaitedQueriesCorrect == Spec => []WaitedQueriesBounded
  <1>1. IInv => WaitedQueriesBounded
    <2> SUFFICES ASSUME IInv, SlotsLimited
                 PROVE  Cardinality(WaitedFor) <= QueryMaxConcurrency
      BY DEF WaitedQueriesBounded
    <2>1. WaitedFor \subseteq SlotHolders
      BY DEF IInv, Coherent, WaitedFor, SlotHolders
    <2>2. /\ Cardinality(WaitedFor) <= Cardinality(SlotHolders)
          /\ Cardinality(WaitedFor) \in Nat /\ Cardinality(SlotHolders) \in Nat
      BY <2>1, HoldersFinite, FS_Subset, FS_CardinalityType
    <2> QED
      BY <2>2, LimitsAssumption DEF IInv, TokensAccounted, SlotLimit
  <1> QED
    BY <1>1, Invariant, PTL

\* The channel of the orchestrator implements a semaphore of TokenCap permits.
THEOREM TokensRefineSemaphore == Spec => TokensAreSemaphore
  <1>1. Init => TokenSemaphore!Init
    BY DEF Init, TokenHolders, TokenSemaphore!Init
  <1>2. IInv /\ [Next]_vars => [TokenSemaphore!Next]_TokenHolders
    <2> SUFFICES ASSUME IInv, [Next]_vars
                 PROVE  [TokenSemaphore!Next]_TokenHolders
      OBVIOUS
    <2>1. TokenMove
      BY StepTokenMove DEF IInv
    <2>2. searchTokens = Cardinality(TokenHolders)
      BY DEF IInv, TokensAccounted
    <2>3. CASE Keeps(searchTokens, searchTokens', TokenHolders, TokenHolders')
      BY <2>3 DEF Keeps
    <2>4. CASE Takes(searchTokens, searchTokens', TokenHolders, TokenHolders', TokenCap)
      <3>1. PICK s \in Searches : /\ s \notin TokenHolders /\ searchTokens < TokenCap
                                  /\ TokenHolders' = TokenHolders \union {s}
        BY <2>4 DEF Takes
      <3>2. TokenSemaphore!Cardinality(TokenHolders) < TokenCap
        BY <2>2, <3>1 DEF TokenSemaphore!Cardinality, Cardinality
      <3>3. TokenSemaphore!Acquire(s)
        BY <3>1, <3>2, Zenon DEF TokenSemaphore!Acquire
      <3> QED
        BY <3>3 DEF TokenSemaphore!Next
    <2>5. CASE Gives(searchTokens, searchTokens', TokenHolders, TokenHolders')
      <3>1. \E s \in Searches : TokenSemaphore!Release(s)
        BY <2>5 DEF Gives, TokenSemaphore!Release
      <3> QED
        BY <3>1 DEF TokenSemaphore!Next
    <2> QED
      BY <2>1, <2>3, <2>4, <2>5 DEF TokenMove
  <1> QED
    BY <1>1, <1>2, Invariant, PTL DEF Spec, TokensAreSemaphore, TokenSemaphore!Spec

\* The channel of the executor implements a semaphore of query_max_concurrency
\* permits.
THEOREM SlotsRefineSemaphore == Spec => SlotsAreSemaphore
  <1>1. Init => SlotSemaphore!Init
    BY DEF Init, SlotHolders, SlotSemaphore!Init
  <1>2. IInv /\ [Next]_vars => [SlotSemaphore!Next]_SlotHolders
    <2> SUFFICES ASSUME IInv, [Next]_vars
                 PROVE  [SlotSemaphore!Next]_SlotHolders
      OBVIOUS
    <2>1. SlotMove
      BY StepSlotMove DEF IInv
    <2>2. queryTokens = Cardinality(SlotHolders)
      BY DEF IInv, TokensAccounted
    <2>3. CASE Keeps(queryTokens, queryTokens', SlotHolders, SlotHolders')
      BY <2>3 DEF Keeps
    <2>4. CASE Takes(queryTokens, queryTokens', SlotHolders, SlotHolders', QueryMaxConcurrency)
      <3>1. PICK s \in Searches : /\ s \notin SlotHolders /\ queryTokens < QueryMaxConcurrency
                                  /\ SlotHolders' = SlotHolders \union {s}
        BY <2>4 DEF Takes
      <3>2. SlotSemaphore!Cardinality(SlotHolders) < QueryMaxConcurrency
        BY <2>2, <3>1 DEF SlotSemaphore!Cardinality, Cardinality
      <3>3. SlotSemaphore!Acquire(s)
        BY <3>1, <3>2, Zenon DEF SlotSemaphore!Acquire
      <3> QED
        BY <3>3 DEF SlotSemaphore!Next
    <2>5. CASE Gives(queryTokens, queryTokens', SlotHolders, SlotHolders')
      <3>1. \E s \in Searches : SlotSemaphore!Release(s)
        BY <2>5 DEF Gives, SlotSemaphore!Release
      <3> QED
        BY <3>1 DEF SlotSemaphore!Next
    <2> QED
      BY <2>1, <2>3, <2>4, <2>5 DEF SlotMove
  <1> QED
    BY <1>1, <1>2, Invariant, PTL DEF Spec, SlotsAreSemaphore, SlotSemaphore!Spec
=============================================================================
