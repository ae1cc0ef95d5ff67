------------------------- MODULE HalLifecycle_proofs -------------------------
(* What holds of the worker threads and initialize() for every number of     *)
(* sub-HALs, of batches and of restarts.                                     *)
EXTENDS HalLifecycle, FiniteSetTheorems, TLAPS

(***************************************************************************)
(* Posts in flight: past areThreadsRunning() and not yet in the queues.    *)
(***************************************************************************)
InFlight == {h \in SubHals : post[h] \in {"passed", "pushing"}}

\* The posts in flight are at most as many as there are sub-HALs.
LEMMA InFlightBounded ==
  /\ IsFiniteSet(SubHals) /\ Cardinality(SubHals) = NumSubHals
  /\ IsFiniteSet(InFlight) /\ Cardinality(InFlight) \in 0..NumSubHals
<1>1. IsFiniteSet(SubHals) /\ Cardinality(SubHals) = NumSubHals
  BY FS_Interval, LifecycleAssumption DEF SubHals
<1>2. InFlight \subseteq SubHals
  BY DEF InFlight
<1>3. IsFiniteSet(InFlight) /\ Cardinality(InFlight) <= NumSubHals
  BY <1>1, <1>2, FS_Subset
<1>. QED BY <1>1, <1>3, FS_CardinalityType

\* A post that ends is one less in flight.
LEMMA EndPushInFlight ==
  ASSUME TypeOK, NEW h \in SubHals, EndPush(h)
  PROVE  Cardinality(InFlight') = Cardinality(InFlight) - 1
<1>1. h \in InFlight
  BY DEF EndPush, InFlight
<1>2. InFlight' = InFlight \ {h}
  BY DEF EndPush, InFlight, TypeOK
<1>. QED BY <1>1, <1>2, InFlightBounded, FS_RemoveElement

\* Once the pending queue is cleared only the posts in flight can reach it.
LEMMA ClearedInFlight ==
  ASSUME ClearAndReplace
  PROVE  StaleBatchesBounded'
<1>1. InFlight' = InFlight /\ pending' = 0
  BY DEF ClearAndReplace, PendingCleared, InFlight, subHalVars
<1>2. Cardinality(InFlight') \in 0..NumSubHals
  BY <1>1, InFlightBounded
<1>3. pending' + Cardinality(InFlight') <= NumSubHals
  BY <1>1, <1>2, LifecycleAssumption
<1>. QED BY <1>3 DEF StaleBatchesBounded, InFlight

\* initialize() goes through the list of sub-HALs one by one.
LEMMA InitializedNext ==
  ASSUME BinderInStep, InitializeSubHal
  PROVE  /\ initialized' \subseteq SubHals
         /\ \E n \in 0..NumSubHals :
              initialized' = 1..n /\ (binder' = "initializing" => n < NumSubHals)
         /\ binder' \in {"idle", "initializing"}
<1>1. PICK n \in 0..NumSubHals : initialized = 1..n /\ n < NumSubHals
  BY DEF BinderInStep, InitializeSubHal
<1>2. Cardinality(initialized) = n
  BY <1>1, FS_Interval
<1>3. initialized' = 1..n + 1 /\ n + 1 \in 0..NumSubHals
  BY <1>1, <1>2, LifecycleAssumption DEF InitializeSubHal
<1>4. binder' = IF n + 1 = NumSubHals THEN "idle" ELSE "initializing"
  BY <1>2 DEF InitializeSubHal
<1>. QED BY <1>1, <1>3, <1>4, LifecycleAssumption DEF SubHals
-----------------------------------------------------------------------------
\* The invariant holds at the start.
LEMMA InvInit == Init => IInv
<1> SUFFICES ASSUME Init PROVE IInv
  OBVIOUS
<1>1. TypeOK
  <2>1. posts \in 0..MaxPosts /\ inits \in 0..MaxInits
    BY LifecycleAssumption DEF Init
  <2>2. post \in [SubHals -> {"idle", "called", "passed", "pushing"}]
    BY DEF Init
  <2>. QED BY <2>1, <2>2 DEF Init, TypeOK, WorkerState, BinderStates
<1>2. 0 \in 0..NumSubHals /\ initialized = 1..0
  BY LifecycleAssumption DEF Init
<1>3. BinderInStep
  BY <1>2 DEF Init, BinderInStep
<1>4. WorkersJoined /\ WorkersInStep /\ StaleBatchesBounded
  BY DEF Init, WorkersJoined, WorkersInStep, StaleBatchesBounded
<1>5. MutexExclusive
  BY DEF Init, MutexExclusive
<1>. QED BY <1>1, <1>3, <1>4, <1>5 DEF IInv

\* A step of a sub-HAL's thread, or the activation of its sensor, keeps it.
LEMMA SubHalStep ==
  ASSUME IInv, NEW h \in SubHals, Activate(h) \/ SubHal(h)
  PROVE  IInv'
<1> USE LifecycleAssumption
<1>1. CASE Activate(h)
  BY <1>1 DEF Activate, IInv, TypeOK, WorkersJoined, BinderInStep, MutexExclusive, WorkersInStep,
              StaleBatchesBounded, HasMutex, workerVars, queueVars
<1>2. CASE Generate(h)
  <2>1. TypeOK' /\ WorkersJoined' /\ BinderInStep' /\ MutexExclusive' /\ WorkersInStep'
    BY <1>2 DEF Generate, IInv, TypeOK, WorkersJoined, BinderInStep, MutexExclusive, WorkersInStep,
                HasMutex, workerVars, queueVars
  <2>2. InFlight' = InFlight
    BY <1>2 DEF Generate, InFlight, IInv, TypeOK
  <2>. QED BY <1>2, <2>1, <2>2 DEF Generate, IInv, StaleBatchesBounded, InFlight, workerVars, queueVars
<1>3. CASE TestThreadsRunning(h)
  <2>1. TypeOK' /\ WorkersJoined' /\ BinderInStep' /\ MutexExclusive' /\ WorkersInStep'
    BY <1>3 DEF TestThreadsRunning, IInv, TypeOK, WorkersJoined, BinderInStep, MutexExclusive,
                WorkersInStep, HasMutex, workerVars, queueVars
  <2>2. binder = "starting" => InFlight' = InFlight
    BY <1>3 DEF TestThreadsRunning, InFlight, IInv, TypeOK, BinderInStep
  <2>. QED BY <1>3, <2>1, <2>2 DEF TestThreadsRunning, IInv, StaleBatchesBounded, InFlight, queueVars
<1>4. CASE BeginPush(h)
  <2>1. TypeOK'
    BY <1>4 DEF BeginPush, IInv, TypeOK, Notified, WorkerState
  <2>2. WorkersJoined' /\ BinderInStep'
    BY <1>4 DEF BeginPush, IInv, TypeOK, WorkersJoined, BinderInStep, Notified
  <2>3. MutexExclusive' /\ WorkersInStep'
    BY <1>4 DEF BeginPush, IInv, TypeOK, MutexExclusive, WorkersInStep, EventMutexFree, HasMutex, Notified
  <2>4. InFlight' = InFlight
    BY <1>4 DEF BeginPush, InFlight, IInv, TypeOK
  <2>. QED BY <1>4, <2>1, <2>2, <2>3, <2>4 DEF BeginPush, IInv, StaleBatchesBounded, InFlight
<1>5. CASE EndPush(h)
  <2>1. TypeOK'
    BY <1>5 DEF EndPush, IInv, TypeOK, Notified, WorkerState
  <2>2. WorkersJoined' /\ BinderInStep'
    BY <1>5 DEF EndPush, IInv, TypeOK, WorkersJoined, BinderInStep, Notified
  <2>3. MutexExclusive' /\ WorkersInStep'
    BY <1>5 DEF EndPush, IInv, TypeOK, MutexExclusive, WorkersInStep, HasMutex, Notified
  <2>4. Cardinality(InFlight') = Cardinality(InFlight) - 1
    BY <1>5, EndPushInFlight DEF IInv
  <2>5. pending' \in Nat /\ pending' <= pending + 1
    BY <1>5 DEF EndPush, IInv, TypeOK
  <2>6. StaleBatchesBounded'
    BY <1>5, <2>4, <2>5, InFlightBounded DEF EndPush, IInv, TypeOK, StaleBatchesBounded, InFlight
  <2>. QED BY <2>1, <2>2, <2>3, <2>6 DEF IInv
<1>. QED BY <1>1, <1>2, <1>3, <1>4, <1>5 DEF SubHal

\* A step of a worker keeps it.
LEMMA WorkerStep ==
  ASSUME IInv, WritesThread \/ WakelockThread
  PROVE  IInv'
<1> USE LifecycleAssumption DEF IInv, TypeOK, WorkersJoined, BinderInStep, MutexExclusive, WorkersInStep,
        StaleBatchesBounded, HasMutex, EventMutexFree, WorkerState, writesFrame, wakelockFrame, subHalVars
<1>1. CASE WritesLock
  BY <1>1 DEF WritesLock
<1>2. CASE WritesTest
  BY <1>2 DEF WritesTest
<1>3. CASE WritesBlock
  BY <1>3 DEF WritesBlock
<1>4. CASE WritesPop
  <2>1. pending' \in Nat /\ pending' <= pending
    BY <1>4 DEF WritesPop
  <2>. QED BY <1>4, <2>1 DEF WritesPop
<1>5. CASE WakelockLock
  BY <1>5 DEF WakelockLock
<1>6. CASE WakelockTest
  BY <1>6 DEF WakelockTest
<1>7. CASE WakelockBlock
  BY <1>7 DEF WakelockBlock
<1>8. CASE WakelockDecrement
  BY <1>8 DEF WakelockDecrement
<1>. QED BY <1>1, <1>2, <1>3, <1>4, <1>5, <1>6, <1>7, <1>8 DEF WritesThread, WakelockThread

\* A step of initialize() keeps it.
LEMMA BinderStep ==
  ASSUME IInv, StoreThreadsRun \/ InitializeSteps
  PROVE  IInv'
<1> USE LifecycleAssumption DEF IInv, TypeOK, WorkersJoined, BinderInStep, MutexExclusive, WorkersInStep,
        StaleBatchesBounded, HasMutex, Notified, WorkerState, BinderStates, binderFrame, workerVars,
        queueVars, subHalVars
<1>1. CASE StoreThreadsRun
  <2>1. TypeOK'
    <3>1. inits' \in 0..MaxInits
      BY <1>1 DEF StoreThreadsRun
    <3>. QED BY <1>1, <3>1 DEF StoreThreadsRun
  <2>2. BinderInStep'
    BY <1>1 DEF StoreThreadsRun
  <2>. QED BY <1>1, <2>1, <2>2 DEF StoreThreadsRun
<1>2. CASE NotifyWakelockThread
  BY <1>2 DEF NotifyWakelockThread
<1>3. CASE NotifyWritesThread
  BY <1>3 DEF NotifyWritesThread, WritesThreadNotified
<1>4. CASE JoinThreads
  BY <1>4 DEF JoinThreads, Joined
<1>5. CASE DisableAllSensors
  BY <1>5 DEF DisableAllSensors
<1>6. CASE ClearAndReplace
  <2>1. 0 \in 0..NumSubHals /\ initialized' = 1..0
    BY <1>6 DEF ClearAndReplace
  <2>2. BinderInStep'
    BY <1>6, <2>1 DEF ClearAndReplace
  <2>3. StaleBatchesBounded'
    BY <1>6, ClearedInFlight
  <2>. QED BY <1>6, <2>2, <2>3 DEF ClearAndReplace, PendingCleared
<1>7. CASE StartThreads
  BY <1>7 DEF StartThreads
<1>8. CASE InitializeSubHal
  <2>1. BinderInStep' /\ initialized' \subseteq SubHals /\ binder' \in {"idle", "initializing"}
    BY <1>8, InitializedNext
  <2>. QED BY <1>8, <2>1 DEF InitializeSubHal
<1>. QED BY <1>1, <1>2, <1>3, <1>4, <1>5, <1>6, <1>7, <1>8 DEF InitializeSteps

\* Every step keeps it.
LEMMA InvStep == IInv /\ [Next]_vars => IInv'
<1> SUFFICES ASSUME IInv, [Next]_vars PROVE IInv'
  OBVIOUS
<1>1. CASE Next
  BY <1>1, SubHalStep, WorkerStep, BinderStep DEF Next
<1>2. CASE UNCHANGED vars
  BY <1>2 DEF vars, workerVars, queueVars, subHalVars, IInv, TypeOK, WorkersJoined, BinderInStep,
              MutexExclusive, WorkersInStep, StaleBatchesBounded, HasMutex
<1>. QED BY <1>1, <1>2

\* The inductive invariant holds of initialize() and the worker threads.
THEOREM Inductive == Spec => []IInv
<1>. QED BY InvInit, InvStep, PTL DEF Spec

\* Every reachable state has its types.
THEOREM TypeCorrect == Spec => []TypeOK
<1>1. IInv => TypeOK
  BY DEF IInv
<1>. QED BY Inductive, <1>1, PTL

\* While initializeCommon frees and replaces what they use, no worker runs.
THEOREM ReplacedWhileJoined == Spec => []WorkersJoined
<1>1. IInv => WorkersJoined
  BY DEF IInv
<1>. QED BY Inductive, <1>1, PTL

\* No worker sleeps over a pending batch or a wake lock reference.
THEOREM NothingMissed == Spec => []PostsNeverMissed
<1>1. IInv => PostsNeverMissed
  BY DEF IInv, WorkersInStep, PostsNeverMissed, TypeOK
<1>. QED BY Inductive, <1>1, PTL

\* A restart lets at most one batch of each sub-HAL into the new queues.
THEOREM FewStaleBatches == Spec => []StaleBatchesBounded
<1>1. IInv => StaleBatchesBounded
  BY DEF IInv
<1>. QED BY Inductive, <1>1, PTL
=============================================================================
