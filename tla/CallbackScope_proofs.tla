------------------------ MODULE CallbackScope_proofs ------------------------
(***************************************************************************)
(* Proofs about CallbackScope, for every finite set of callback threads    *)
(* and any number of sessions.                                             *)
(***************************************************************************)
EXTENDS CallbackScope, FiniteSetTheorems, TLAPS

IInv ==
    /\ TypeOK
    /\ DepthCountsScopes
    /\ ShuttingDownWhileReleasing
    /\ NoCallbackDuringTeardown

-----------------------------------------------------------------------------
\* Flags are only ever assigned truth values.
LEMMA FlagsTyped ==
    ASSUME FlagTypes, [Next]_vars
    PROVE  FlagTypes'
<1> USE DEF FlagTypes, flags, mainVars
<1>1. CASE UNCHANGED vars
  BY <1>1 DEF vars
<1>2. CASE CallInit
  BY <1>2 DEF CallInit
<1>3. CASE CallClose
  BY <1>3 DEF CallClose
<1>4. CASE MainStep
  <2>1. CASE DrainTimeout
    BY <2>1, Zenon DEF DrainTimeout
  <2>2. CASE MainStep /\ ~DrainTimeout
    BY <2>2, Zenon DEF MainStep, ResetFlags, Create, StopPlayer, SetExpired,
       SetShuttingDown, DrainFastPath, DrainPredicate, DrainSleep, DrainWake, Clear
  <2>. QED
    BY <1>4, <2>1, <2>2
<1>5. ASSUME NEW c \in Callbacks, Deliver(c) \/ CallbackStep(c)
      PROVE  FlagTypes'
  <2>1. CASE Notify(c)
    BY <2>1, Zenon DEF Notify
  <2>2. CASE Deliver(c) \/ EntryTest(c) \/ FirstTest(c) \/ Count(c)
               \/ SecondTest(c) \/ Abort(c) \/ Leave(c)
    BY <2>2, Zenon DEF Deliver, EntryTest, FirstTest, Count, SecondTest, Abort, Leave
  <2>. QED
    BY <1>5, <2>1, <2>2 DEF CallbackStep
<1>. QED
  BY <1>1, <1>2, <1>3, <1>4, <1>5 DEF Next

\* The counter and the threads' places.  The one case that is not plain typing
\* is Abort, whose fetch_sub relies on the count being exact.
LEMMA ThreadsTyped ==
    ASSUME ThreadTypes, DepthCountsScopes, [Next]_vars
    PROVE  ThreadTypes'
<1> USE DEF ThreadTypes
<1>1. CASE UNCHANGED vars
  BY <1>1 DEF vars
<1>2. CASE CallInit
  <2>1. UNCHANGED << callbackDepth, callback >> /\ main' \in MainPlaces
    BY <1>2 DEF CallInit, MainPlaces
  <2>2. sessions < MaxSessions /\ sessions' = sessions + 1
    BY <1>2 DEF CallInit
  <2>. QED
    BY <2>1, <2>2, SessionsAssumption
<1>3. CASE CallClose
  BY <1>3 DEF CallClose, MainPlaces
<1>4. CASE MainStep
  <2>1. UNCHANGED << callbackDepth, callback, sessions >>
    BY <1>4 DEF MainStep, ResetFlags, Create, StopPlayer, SetExpired,
       SetShuttingDown, DrainFastPath, DrainPredicate, DrainSleep, DrainWake,
       DrainTimeout, Clear
  <2>2. main' \in MainPlaces
    BY <1>4 DEF MainStep, MainGoes, MainPlaces, ResetFlags, Create, StopPlayer,
       SetExpired, SetShuttingDown, DrainFastPath, DrainPredicate, DrainSleep,
       DrainWake, DrainTimeout, Clear
  <2>. QED
    BY <2>1, <2>2
<1>5. ASSUME NEW c \in Callbacks, Deliver(c) \/ CallbackStep(c)
      PROVE  ThreadTypes'
  <2>1. UNCHANGED << main, sessions >>
    BY <1>5, Zenon DEF Deliver, CallbackStep, EntryTest, FirstTest, Count,
       SecondTest, Abort, Leave, Notify, mainVars
  <2>2. callback' \in [Callbacks -> CallbackPlaces]
    BY <1>5 DEF Deliver, CallbackStep, EntryTest, FirstTest, Count, SecondTest,
       Abort, Leave, AfterLeave, Notify, CallbackGoes, CallbackPlaces
  <2>3. callbackDepth' \in Nat
    <3>1. CASE Abort(c)
      <4>1. c \in InScope
        BY <3>1 DEF Abort, CallbackGoes, InScope
      <4>2. IsFiniteSet(InScope)
        BY CallbacksAssumption, FS_Subset DEF InScope
      <4>3. callbackDepth # 0
        BY <4>1, <4>2, FS_EmptySet DEF DepthCountsScopes
      <4>. QED
        BY <3>1, <4>3 DEF Abort
    <3>2. CASE Count(c)
      BY <3>2 DEF Count, Incremented
    <3>3. CASE Leave(c)
      BY <3>3 DEF Leave, Decremented
    <3>4. CASE Deliver(c) \/ EntryTest(c) \/ FirstTest(c) \/ SecondTest(c) \/ Notify(c)
      BY <3>4 DEF Deliver, EntryTest, FirstTest, SecondTest, Notify
    <3>. QED
      BY <1>5, <3>1, <3>2, <3>3, <3>4 DEF CallbackStep
  <2>. QED
    BY <2>1, <2>2, <2>3
<1>. QED
  BY <1>1, <1>2, <1>3, <1>4, <1>5 DEF Next

\* The threads in scope after a callback moves: one more, one fewer, or the
\* same ones.
LEMMA ScopeOfMove ==
    ASSUME TypeOK, NEW c \in Callbacks, NEW from, NEW to, CallbackGoes(c, from, to)
    PROVE  /\ IsFiniteSet(InScope)
           /\ to \in {"counted", "aborting", "inside"} => InScope' = InScope \cup {c}
           /\ to \notin {"counted", "aborting", "inside"} => InScope' = InScope \ {c}
           /\ from \in {"counted", "aborting", "inside"} <=> c \in InScope
<1>1. IsFiniteSet(InScope)
  BY CallbacksAssumption, FS_Subset DEF InScope
<1>2. /\ callback' = [callback EXCEPT ![c] = to]
      /\ callback[c] = from
      /\ callback \in [Callbacks -> CallbackPlaces]
  BY DEF CallbackGoes, TypeOK, ThreadTypes
<1>3. \A d \in Callbacks : callback'[d] = IF d = c THEN to ELSE callback[d]
  BY <1>2
<1>. QED
  BY <1>1, <1>2, <1>3 DEF InScope

\* callbackDepth stays equal to the number of threads in scope.
LEMMA DepthPreserved ==
    ASSUME TypeOK, DepthCountsScopes, [Next]_vars
    PROVE  DepthCountsScopes'
<1> USE DEF DepthCountsScopes
<1>1. CASE UNCHANGED << callback, callbackDepth >>
  BY <1>1 DEF InScope
<1>2. ASSUME NEW c \in Callbacks, Deliver(c) \/ CallbackStep(c)
      PROVE  DepthCountsScopes'
  <2>1. IsFiniteSet(InScope)
    BY CallbacksAssumption, FS_Subset DEF InScope
  <2>2. ASSUME NEW from, NEW to, CallbackGoes(c, from, to),
               from \in {"counted", "aborting", "inside"}
                 <=> to \in {"counted", "aborting", "inside"},
               callbackDepth' = callbackDepth
        PROVE  DepthCountsScopes'
    <3>1. InScope' = InScope
      BY <2>2, ScopeOfMove
    <3>. QED
      BY <2>2, <3>1
  <2>3. ASSUME NEW from, NEW to, CallbackGoes(c, from, to),
               from \in {"aborting", "inside"},
               to \notin {"counted", "aborting", "inside"}
        PROVE  /\ callbackDepth \in Nat \ {0}
               /\ callbackDepth' = callbackDepth - 1 => DepthCountsScopes'
    <3>1. c \in InScope /\ InScope' = InScope \ {c}
      BY <2>3, ScopeOfMove
    <3>2. Cardinality(InScope') = Cardinality(InScope) - 1
      BY <2>1, <3>1, FS_RemoveElement
    <3>3. callbackDepth # 0
      BY <2>1, <3>1, FS_EmptySet
    <3>. QED
      BY <3>2, <3>3 DEF TypeOK, ThreadTypes
  <2>4. CASE Deliver(c)
    BY <2>2, <2>4 DEF Deliver
  <2>5. CASE EntryTest(c)
    BY <2>2, <2>5 DEF EntryTest
  <2>6. CASE FirstTest(c)
    BY <2>2, <2>6 DEF FirstTest
  <2>7. CASE Count(c)
    <3>1. c \notin InScope /\ InScope' = InScope \cup {c}
      BY <2>7, ScopeOfMove DEF Count
    <3>2. Cardinality(InScope') = Cardinality(InScope) + 1
      BY <2>1, <3>1, FS_AddElement
    <3>. QED
      BY <2>7, <3>2 DEF Count, Incremented
  <2>8. CASE SecondTest(c)
    BY <2>2, <2>8 DEF SecondTest
  <2>9. CASE Abort(c)
    BY <2>3, <2>9 DEF Abort
  <2>10. CASE Leave(c)
    <3>1. CallbackGoes(c, "inside", AfterLeave(callbackDepth))
          /\ AfterLeave(callbackDepth) \notin {"counted", "aborting", "inside"}
      BY <2>10 DEF Leave, AfterLeave
    <3>. QED
      BY <2>3, <2>10, <3>1 DEF Leave, Decremented
  <2>11. CASE Notify(c)
    BY <2>2, <2>11 DEF Notify
  <2>. QED
    BY <1>2, <2>4, <2>5, <2>6, <2>7, <2>8, <2>9, <2>10, <2>11 DEF CallbackStep
<1>3. CASE UNCHANGED vars \/ CallInit \/ CallClose \/ MainStep
  BY <1>1, <1>3
  DEF vars, flags, CallInit, CallClose, MainStep, MainGoes, ResetFlags, Create,
      StopPlayer, SetExpired, SetShuttingDown, DrainFastPath, DrainPredicate,
      DrainSleep, DrainWake, DrainTimeout, Clear
<1>. QED
  BY <1>2, <1>3 DEF Next

\* Only the main thread moves shuttingDown, in the order of the release.
LEMMA FlagPreserved ==
    ASSUME ShuttingDownWhileReleasing, [Next]_vars
    PROVE  ShuttingDownWhileReleasing'
<1> USE DEF ShuttingDownWhileReleasing
<1>1. CASE UNCHANGED << main, shuttingDown >>
  BY <1>1
<1>2. CASE CallInit \/ CallClose
  BY <1>2 DEF CallInit, CallClose
<1>3. CASE ResetFlags
  BY <1>3 DEF ResetFlags, MainGoes
<1>4. CASE SetShuttingDown
  BY <1>4 DEF SetShuttingDown, MainGoes
<1>5. CASE MainStep /\ ~ResetFlags /\ ~SetShuttingDown
  <2>1. UNCHANGED shuttingDown
    BY <1>5, Zenon DEF MainStep, Create, StopPlayer, SetExpired, DrainFastPath,
       DrainPredicate, DrainSleep, DrainWake, DrainTimeout, Clear, flags
  <2>2. \/ main = "creating" /\ main' \in {"open", "stopping"}
        \/ main \in {"stopping", "expiring"} /\ main' \in {"expiring", "flagging"}
        \/ /\ main \in {"draining", "testing", "falling asleep", "asleep"}
           /\ main' \in {"testing", "falling asleep", "asleep", "clearing"}
        \/ main = "clearing" /\ main' \in {"resetting", "closed"}
    BY <1>5 DEF MainStep, Create, StopPlayer, SetExpired, DrainFastPath, MainGoes,
       DrainPredicate, DrainSleep, DrainWake, DrainTimeout, Clear
  <2>. QED
    BY <2>1, <2>2
<1>6. ASSUME NEW c \in Callbacks, Deliver(c) \/ CallbackStep(c)
      PROVE  UNCHANGED << main, shuttingDown >>
  BY <1>6, Zenon DEF Deliver, CallbackStep, EntryTest, FirstTest, Count, SecondTest,
     Abort, Leave, Notify, flags, mainVars
<1>. QED
  BY <1>1, <1>2, <1>3, <1>4, <1>5, <1>6 DEF Next, vars

\* The drain saw a zero count, so nobody was inside; and with shuttingDown up
\* a callback that is counted later is refused by the second test.
LEMMA TeardownPreserved ==
    ASSUME IInv, [Next]_vars
    PROVE  NoCallbackDuringTeardown'
<1> USE DEF IInv, NoCallbackDuringTeardown, TornDown
<1>1. callbackDepth = 0 => \A c \in Callbacks : callback[c] # "inside"
  <2>1. IsFiniteSet(InScope)
    BY CallbacksAssumption, FS_Subset DEF InScope
  <2>. QED
    BY <2>1, FS_EmptySet DEF DepthCountsScopes, InScope
<1>2. CASE UNCHANGED vars
  BY <1>2 DEF vars
<1>3. CASE CallInit \/ CallClose
  BY <1>3 DEF CallInit, CallClose, flags, ShuttingDownWhileReleasing
<1>4. CASE MainStep
  <2>1. UNCHANGED callback
    BY <1>4 DEF MainStep, MainGoes, ResetFlags, Create, StopPlayer, SetExpired,
                SetShuttingDown, DrainFastPath, DrainPredicate, DrainSleep,
                DrainWake, DrainTimeout, Clear
  <2>2. CASE DrainFastPath \/ DrainPredicate \/ DrainTimeout
    BY <1>1, <2>1, <2>2 DEF DrainFastPath, DrainPredicate, DrainTimeout, MainGoes, flags
  <2>3. CASE Clear
    BY <2>1, <2>3 DEF Clear, flags
  <2>4. CASE ResetFlags \/ Create \/ StopPlayer \/ SetExpired \/ SetShuttingDown
               \/ DrainSleep \/ DrainWake
    BY <2>4 DEF ResetFlags, Create, StopPlayer, SetExpired, SetShuttingDown,
                DrainSleep, DrainWake, MainGoes
  <2>. QED
    BY <1>4, <2>2, <2>3, <2>4 DEF MainStep
<1>5. ASSUME NEW c \in Callbacks, Deliver(c) \/ CallbackStep(c)
      PROVE  NoCallbackDuringTeardown'
  <2>1. UNCHANGED << main, shuttingDown, timedOut >>
    BY <1>5 DEF Deliver, CallbackStep, EntryTest, FirstTest, Count, SecondTest,
                Abort, Leave, Notify, flags, mainVars
  <2>2. ASSUME shuttingDown, NEW d \in Callbacks, callback'[d] = "inside"
        PROVE  callback[d] = "inside"
    BY <1>5, <2>2 DEF Deliver, CallbackStep, EntryTest, FirstTest, Count,
       SecondTest, Abort, Leave, Notify, CallbackGoes, RefusedAfterCount,
       AfterLeave, TypeOK, ThreadTypes
  <2>. QED
    BY <2>1, <2>2
<1>. QED
  BY <1>2, <1>3, <1>4, <1>5 DEF Next

\* No step of any thread breaks the strengthened invariant.
LEMMA Inductive == IInv /\ [Next]_vars => IInv'
BY FlagsTyped, ThreadsTyped, DepthPreserved, FlagPreserved, TeardownPreserved DEF IInv, TypeOK

\* It holds of an object just constructed.
LEMMA Initial == Init => IInv
<1> SUFFICES ASSUME Init PROVE IInv
  OBVIOUS
<1>1. TypeOK
  <2>1. FlagTypes
    BY Zenon DEF Init, FlagTypes
  <2>2. ThreadTypes
    BY SessionsAssumption DEF Init, ThreadTypes, CallbackPlaces, MainPlaces
  <2>. QED
    BY <2>1, <2>2 DEF TypeOK
<1>2. InScope = {}
  BY DEF Init, InScope
<1>3. DepthCountsScopes
  BY <1>2, FS_EmptySet DEF Init, DepthCountsScopes
<1>. QED
  BY <1>1, <1>3 DEF Init, IInv, ShuttingDownWhileReleasing, NoCallbackDuringTeardown, TornDown

\* So it holds in every reachable state: the count is exact, shuttingDown is up
\* throughout a release, and nobody is inside while resources go.
THEOREM Invariance == Spec => []IInv
BY Initial, Inductive, PTL DEF Spec

-----------------------------------------------------------------------------
\* The types of all variables: among them that callbackDepth, a uint32_t in the
\* code, never drops below zero.
THEOREM TypeInvariant == Spec => []TypeOK
BY Invariance, PTL DEF IInv

\* callbackDepth is exactly the number of threads in scope.
THEOREM DepthIsExact == Spec => []DepthCountsScopes
BY Invariance, PTL DEF IInv

\* No callback is inside a component while the release clears the session's
\* resources, nor afterwards until init(), unless the drain timed out.
THEOREM TeardownIsExclusive == Spec => []NoCallbackDuringTeardown
BY Invariance, PTL DEF IInv
=============================================================================
