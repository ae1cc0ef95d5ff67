------------------------ MODULE SharedWakelock_proofs ------------------------
(* What holds of the shared wake lock for every number of sub-HAL threads,  *)
(* every batch size and every number of restarts.                           *)
EXTENDS SharedWakelock, FiniteSetTheorems, TLAPS

(***************************************************************************)
(* Types.  That the accounts stay natural numbers needs AcksAccounted: no  *)
(* acknowledgement is for more events than are in them.                    *)
(***************************************************************************)
TypeInv == TypeOK /\ AcksAccounted

\* Giving back references leaves a natural number of them.
LEMMA DecrementType ==
  ASSUME TypeOK, NEW delta \in Nat, NEW timeoutStart, DecrementRefCount(delta, timeoutStart)
  PROVE  mWakelockRefCount' \in Nat /\ wakeLockHeld' \in BOOLEAN
<1>1. mWakelockRefCount' \in Nat
  BY DEF DecrementRefCount, AtMost, TypeOK, refVars
<1>2. wakeLockHeld' \in BOOLEAN
  BY Zenon DEF DecrementRefCount, TypeOK, refVars
<1>. QED BY <1>1, <1>2

\* Settling events that are in the accounts keeps them natural numbers, and
\* takes exactly those events out.
LEMMA SettleEventsType ==
  ASSUME TypeOK, NEW settled \in Nat, NEW delta \in Nat, NEW running \in BOOLEAN,
         settled <= outstanding + unreferenced,
         SettleEvents(settled, delta, running)
  PROVE  /\ mWakelockRefCount' \in Nat /\ wakeLockHeld' \in BOOLEAN
         /\ counted' \in Nat /\ outstanding' \in Nat /\ unreferenced' \in Nat
         /\ stranded' \in Nat /\ overReleased' \in BOOLEAN
         /\ outstanding' + unreferenced' = outstanding + unreferenced - settled
<1> DEFINE late == AtMost(settled, unreferenced)
           own  == settled - late
<1>1. late \in Nat /\ late <= unreferenced /\ own \in Nat /\ own <= outstanding
  BY DEF TypeOK, AtMost
<1>2. outstanding' = outstanding - own /\ unreferenced' = unreferenced - late /\ counted' = counted
  BY DEF SettleEvents
<1>3. /\ mWakelockRefCount' \in Nat /\ wakeLockHeld' \in BOOLEAN
      /\ stranded' \in Nat /\ overReleased' \in BOOLEAN
  <2>1. CASE running
    <3>1. mWakelockRefCount' \in Nat /\ wakeLockHeld' \in BOOLEAN
      BY <2>1, DecrementType DEF SettleEvents
    <3>2. stranded' \in Nat
      BY <2>1 DEF SettleEvents, TypeOK
    <3>3. overReleased' \in BOOLEAN
      BY <2>1, Zenon DEF SettleEvents, TypeOK
    <3>. QED BY <3>1, <3>2, <3>3
  <2>2. CASE ~running
    BY <1>1, <2>2 DEF SettleEvents, TypeOK, refVars
  <2>. QED BY <2>1, <2>2
<1>. QED BY <1>1, <1>2, <1>3 DEF TypeOK

\* A reset keeps the types.
LEMMA ResetSharedWakelockType ==
  ASSUME TypeOK, ResetSharedWakelock
  PROVE  /\ mWakelockRefCount' \in Nat /\ wakeLockHeld' \in BOOLEAN
         /\ now' \in Nat /\ mWakelockTimeoutStartTime' \in Nat
         /\ mWakelockTimeoutResetTime' \in Nat
         /\ counted' = 0 /\ outstanding' = 0 /\ stranded' \in Nat /\ overReleased' \in BOOLEAN
<1>1. mWakelockRefCount' \in Nat /\ wakeLockHeld' \in BOOLEAN
  BY DecrementType DEF ResetSharedWakelock, TypeOK, refVars
<1>2. overReleased' \in BOOLEAN
  BY Zenon DEF ResetSharedWakelock
<1>. QED BY <1>1, <1>2 DEF ResetSharedWakelock, ResetTime, TypeOK

\* Every step of the system keeps TypeInv.
LEMMA TypeInvStep == TypeInv /\ [Next]_vars => TypeInv'
<1> SUFFICES ASSUME TypeInv, [Next]_vars PROVE TypeInv'
  OBVIOUS
<1> USE NumbersAssumption DEF TypeInv, TypeOK, AcksAccounted, ClientStates, vars, clockVars,
        refVars, ackVars, workerVars, clientVars, initVars, ghostVars
<1>1. ASSUME NEW c \in Clients, NEW w \in 0..MaxWake, CreateScopedWakelock(c, w) PROVE TypeInv'
  BY <1>1 DEF CreateScopedWakelock, Goto
<1>2. ASSUME NEW c \in Clients, AcquireScopedWakelock(c) PROVE TypeInv'
  BY <1>2 DEF AcquireScopedWakelock, IncrementRefCount, Goto
<1>3. ASSUME NEW c \in Clients, PostEvents(c) PROVE TypeInv'
  BY <1>3 DEF PostEvents, Goto
<1>4. ASSUME NEW c \in Clients, LockEventQueue(c) PROVE TypeInv'
  BY <1>4 DEF LockEventQueue, Goto
<1>5. ASSUME NEW c \in Clients, CountWakeupEvents(c) PROVE TypeInv'
  BY <1>5 DEF CountWakeupEvents, IncrementRefCount, Goto
<1>6. ASSUME NEW c \in Clients, NEW d \in 0..MaxWake, WriteEvents(c, d) PROVE TypeInv'
  BY <1>6 DEF WriteEvents, Goto
<1>7. ASSUME NEW c \in Clients, DestroyScopedWakelock(c) PROVE TypeInv'
  <2>1. locked' \in [Clients -> BOOLEAN]
    BY <1>7, Zenon DEF DestroyScopedWakelock, Finish
  <2>2. stranded' \in Nat
    BY <1>7 DEF DestroyScopedWakelock
  <2>. QED BY <1>7, <2>1, <2>2 DEF DestroyScopedWakelock, Finish, Goto
<1>8. ASSUME NEW c \in Clients, ReleaseScopedWakelock(c) PROVE TypeInv'
  <2>1. mWakelockRefCount' \in Nat /\ wakeLockHeld' \in BOOLEAN
    BY <1>8, DecrementType DEF ReleaseScopedWakelock
  <2>2. locked' \in [Clients -> BOOLEAN]
    BY <1>8, Zenon DEF ReleaseScopedWakelock, Finish
  <2>. QED BY <1>8, <2>1, <2>2 DEF ReleaseScopedWakelock, Finish, Goto
<1>9. ASSUME NEW d \in 0..MaxWake, NEW delta \in d..MaxWake, NEW running \in BOOLEAN,
             DropPendingEvents(d, delta, running)
      PROVE TypeInv'
  <2>1. SettleEvents(d, delta, running) /\ d <= outstanding + unreferenced
    BY <1>9 DEF DropPendingEvents
  <2>. QED BY <1>9, <2>1, SettleEventsType DEF DropPendingEvents
<1>10. ASSUME NEW k \in 1..unacked, FrameworkAck(k) PROVE TypeInv'
  BY <1>10 DEF FrameworkAck
<1>11. CASE WaitForAcks
  BY <1>11 DEF WaitForAcks
<1>12. CASE TimeoutSharedWakelock
  BY <1>12, ResetSharedWakelockType DEF TimeoutSharedWakelock
<1>13. ASSUME NEW k \in 1..mWakeLockQueue, ReadAcks(k) PROVE TypeInv'
  <2> DEFINE running == mThreadsRun
  <2>1. SettleEvents(k, k, running)
    BY <1>13, Zenon DEF ReadAcks
  <2>2. k \in Nat /\ k <= outstanding + unreferenced
    BY <1>13 DEF ReadAcks
  <2>3. running \in BOOLEAN
    OBVIOUS
  <2> HIDE DEF running
  <2>4. /\ mWakelockRefCount' \in Nat /\ wakeLockHeld' \in BOOLEAN
        /\ counted' \in Nat /\ outstanding' \in Nat /\ unreferenced' \in Nat
        /\ stranded' \in Nat /\ overReleased' \in BOOLEAN
        /\ outstanding' + unreferenced' = outstanding + unreferenced - k
    BY <2>1, <2>2, <2>3, SettleEventsType
  <2>5. /\ mWakeLockQueue' = mWakeLockQueue - k /\ k <= mWakeLockQueue
        /\ wakelockThread' = "waiting" /\ readDeadline' = 0
        /\ UNCHANGED <<clockVars, unacked, clientVars, initVars>>
    BY <1>13, Zenon DEF ReadAcks
  <2>6. AcksAccounted' /\ mWakeLockQueue' \in Nat
    <3>1. unacked' = unacked /\ mWakeLockQueue' = mWakeLockQueue - k
      BY <2>5
    <3>2. mWakeLockQueue' \in Nat
      BY <2>2, <2>5, <3>1
    <3>3. unacked + (mWakeLockQueue - k) = outstanding + unreferenced - k
      BY <2>2
    <3>. QED BY <2>4, <3>1, <3>2, <3>3
  <2>7. mThreadsRun' \in BOOLEAN /\ writerRuns' \in BOOLEAN
    BY <2>5
  <2>. QED BY <2>2, <2>4, <2>5, <2>6, <2>7
<1>14. CASE ReadTimeout
  BY <1>14 DEF ReadTimeout, AfterReadTimeout
<1>15. ASSUME NEW k \in 0..mWakeLockQueue, WakelockThreadExit(k) PROVE TypeInv'
  BY <1>15, ResetSharedWakelockType DEF WakelockThreadExit
<1>16. CASE StopThreads
  <2>1. mThreadsRun' \in BOOLEAN
    BY <1>16, Zenon DEF StopThreads
  <2>. QED BY <1>16, <2>1 DEF StopThreads, MayMissStop
<1>17. CASE ResetStopped
  BY <1>17, ResetSharedWakelockType DEF ResetStopped
<1>18. ASSUME NEW kept \in 0..unacked, ReplaceQueues(kept) PROVE TypeInv'
  <2> DEFINE lost == unacked + mWakeLockQueue - kept
  <2>1. lost \in Nat /\ lost <= outstanding + unreferenced
    OBVIOUS
  <2>2. SettleEvents(lost, 0, FALSE)
    BY <1>18 DEF ReplaceQueues
  <2>3. outstanding' + unreferenced' = outstanding + unreferenced - lost
    BY <2>1, <2>2, SettleEventsType
  <2>4. /\ mWakelockRefCount' \in Nat /\ wakeLockHeld' \in BOOLEAN
        /\ counted' \in Nat /\ outstanding' \in Nat /\ unreferenced' \in Nat
        /\ stranded' \in Nat /\ overReleased' \in BOOLEAN
    BY <2>1, <2>2, SettleEventsType
  <2>. QED BY <1>18, <2>3, <2>4 DEF ReplaceQueues
<1>19. CASE StartThreads
  BY <1>19 DEF StartThreads
<1>20. CASE Tick
  BY <1>20 DEF Tick
<1>21. CASE PendingWritesExit
  <2>1. writerRuns' \in BOOLEAN
    BY <1>21, Zenon DEF PendingWritesExit
  <2>. QED BY <1>21, <2>1 DEF PendingWritesExit
<1>22. CASE UNCHANGED vars
  BY <1>22
<1>. QED
  BY <1>1, <1>2, <1>3, <1>4, <1>5, <1>6, <1>7, <1>8, <1>9, <1>10, <1>11, <1>12, <1>13, <1>14,
     <1>15, <1>16, <1>17, <1>18, <1>19, <1>20, <1>21, <1>22
  DEF Next, Client, PendingWrites, Framework, WakelockThread, InitializeSteps

LEMMA TypeInvInit == Init => TypeInv
<1> SUFFICES ASSUME Init PROVE TypeInv
  OBVIOUS
<1>1. wakeLockHeld \in BOOLEAN /\ mThreadsRun \in BOOLEAN /\ overReleased \in BOOLEAN
      /\ writerRuns \in BOOLEAN
  BY Zenon DEF Init
<1>2. locked \in [Clients -> BOOLEAN]
  BY Zenon DEF Init
<1>3. wakeups \in [Clients -> 0..MaxWake]
  BY NumbersAssumption DEF Init
<1>. QED BY <1>1, <1>2, <1>3 DEF Init, TypeInv, TypeOK, AcksAccounted, ClientStates

\* Every variable keeps its type: in particular no account of references or
\* of events ever goes below zero (sensors/HalProxy.cpp, size_t counters).
THEOREM TypeCorrect == Spec => []TypeOK
<1>1. TypeInv => TypeOK
  BY DEF TypeInv
<1>. QED BY <1>1, TypeInvInit, TypeInvStep, PTL DEF Spec

(***************************************************************************)
(* The kernel's wake lock.  An increment by zero from a count of zero      *)
(* would leave it held for nothing: the shape of the clients' code rules   *)
(* that out.                                                               *)
(***************************************************************************)
LockInv == TypeInv /\ ClientsInStep /\ HeldIffCounted

LEMMA LockInvInit == Init => LockInv
<1> SUFFICES ASSUME Init PROVE LockInv
  OBVIOUS
<1>1. ClientsInStep
  BY ClientsAssumption DEF Init, ClientsInStep
<1>2. HeldIffCounted
  BY DEF Init, HeldIffCounted
<1>. QED BY <1>1, <1>2, TypeInvInit DEF LockInv

\* Both sections of the counter keep the lock and the count together.
LEMMA DecrementKeepsHeld ==
  ASSUME TypeOK, HeldIffCounted, NEW delta \in Nat, NEW timeoutStart,
         DecrementRefCount(delta, timeoutStart)
  PROVE  HeldIffCounted'
<1>1. CASE mWakelockRefCount = 0 \/ timeoutStart < mWakelockTimeoutResetTime
  BY <1>1, Zenon DEF DecrementRefCount, Outdated, refVars, HeldIffCounted
<1>2. CASE ~(mWakelockRefCount = 0 \/ timeoutStart < mWakelockTimeoutResetTime)
  <2>1. mWakelockRefCount > 0 /\ (mWakelockRefCount' # 0 <=> mWakelockRefCount' > 0)
    BY <1>2, DecrementType DEF TypeOK
  <2>. QED BY <1>2, <2>1, Zenon DEF DecrementRefCount, Outdated, HeldIffCounted
<1>. QED BY <1>1, <1>2

LEMMA IncrementKeepsHeld ==
  ASSUME TypeOK, HeldIffCounted, NEW delta \in Nat, delta > 0, IncrementRefCount(delta)
  PROVE  HeldIffCounted'
<1>1. (mWakelockRefCount > 0 \/ mWakelockRefCount = 0) /\ mWakelockRefCount' > 0
  BY DEF IncrementRefCount, TypeOK
<1>. QED BY <1>1, Zenon DEF IncrementRefCount, Acquires, HeldIffCounted

LEMMA SettleKeepsHeld ==
  ASSUME TypeOK, HeldIffCounted, NEW settled \in Nat, NEW delta \in Nat, NEW running \in BOOLEAN,
         SettleEvents(settled, delta, running)
  PROVE  HeldIffCounted' /\ counted' = counted
<1>1. CASE running
  BY <1>1, DecrementKeepsHeld DEF SettleEvents
<1>2. CASE ~running
  BY <1>2 DEF SettleEvents, HeldIffCounted, refVars
<1>3. counted' = counted
  BY DEF SettleEvents
<1>. QED BY <1>1, <1>2, <1>3

LEMMA ResetKeepsHeld ==
  ASSUME TypeOK, HeldIffCounted, ResetSharedWakelock
  PROVE  HeldIffCounted' /\ counted' = 0
<1>1. CASE mThreadsRun
  BY <1>1, DecrementKeepsHeld DEF ResetSharedWakelock, TypeOK
<1>2. CASE ~mThreadsRun
  BY <1>2 DEF ResetSharedWakelock, HeldIffCounted, refVars
<1>3. counted' = 0
  BY DEF ResetSharedWakelock
<1>. QED BY <1>1, <1>2, <1>3

\* A step of anyone but a client leaves the clients where they are.
LEMMA ClientsInStepFrame ==
  ASSUME ClientsInStep, UNCHANGED clientVars, counted' \in {0, counted}
  PROVE  ClientsInStep'
BY DEF ClientsInStep, clientVars

LEMMA LockInvStep == LockInv /\ [Next]_vars => ClientsInStep' /\ HeldIffCounted'
<1> SUFFICES ASSUME LockInv, [Next]_vars PROVE ClientsInStep' /\ HeldIffCounted'
  OBVIOUS
<1> USE ClientsAssumption, NumbersAssumption DEF LockInv, TypeInv
<1>1. ASSUME NEW c \in Clients, Client(c) PROVE ClientsInStep' /\ HeldIffCounted'
  <2> USE DEF TypeOK, ClientStates, Goto
  <2>1. ASSUME NEW w \in 0..MaxWake, CreateScopedWakelock(c, w)
        PROVE  ClientsInStep' /\ HeldIffCounted'
    BY <2>1 DEF CreateScopedWakelock, ClientsInStep, HeldIffCounted, refVars, ghostVars
  <2>2. CASE AcquireScopedWakelock(c)
    <3>1. HeldIffCounted'
      BY <2>2, IncrementKeepsHeld DEF AcquireScopedWakelock
    <3>2. ClientsInStep'
      BY <2>2 DEF AcquireScopedWakelock, ClientsInStep, ghostVars
    <3>. QED BY <3>1, <3>2
  <2>3. CASE PostEvents(c)
    BY <2>3 DEF PostEvents, ClientsInStep, HeldIffCounted, refVars, ghostVars
  <2>4. CASE LockEventQueue(c)
    BY <2>4 DEF LockEventQueue, ClientsInStep, HeldIffCounted, refVars, ghostVars
  <2>5. CASE CountWakeupEvents(c)
    <3>1. wakeups[c] \in Nat /\ wakeups[c] > 0
      BY <2>5 DEF CountWakeupEvents, ClientsInStep
    <3>2. HeldIffCounted'
      BY <2>5, <3>1, IncrementKeepsHeld DEF CountWakeupEvents
    <3>3. ClientsInStep'
      BY <2>5 DEF CountWakeupEvents, ClientsInStep
    <3>. QED BY <3>2, <3>3
  <2>6. ASSUME NEW d \in 0..MaxWake, WriteEvents(c, d)
        PROVE  ClientsInStep' /\ HeldIffCounted'
    BY <2>6 DEF WriteEvents, ClientsInStep, HeldIffCounted, refVars
  <2>7. CASE DestroyScopedWakelock(c)
    BY <2>7 DEF DestroyScopedWakelock, Finish, ClientsInStep, HeldIffCounted, refVars
  <2>8. CASE ReleaseScopedWakelock(c)
    <3>1. HeldIffCounted'
      BY <2>8, DecrementKeepsHeld DEF ReleaseScopedWakelock
    <3>2. ClientsInStep'
      BY <2>8 DEF ReleaseScopedWakelock, Finish, ClientsInStep, ghostVars
    <3>. QED BY <3>1, <3>2
  <2>. QED BY <1>1, <2>1, <2>2, <2>3, <2>4, <2>5, <2>6, <2>7, <2>8 DEF Client
<1>2. ASSUME NEW d \in 0..MaxWake, NEW delta \in d..MaxWake, NEW running \in BOOLEAN,
             DropPendingEvents(d, delta, running)
      PROVE  ClientsInStep' /\ HeldIffCounted'
  BY <1>2, SettleKeepsHeld, ClientsInStepFrame DEF DropPendingEvents
<1>3. ASSUME NEW k \in 1..unacked, FrameworkAck(k) PROVE ClientsInStep' /\ HeldIffCounted'
  BY <1>3, ClientsInStepFrame DEF FrameworkAck, HeldIffCounted, refVars, ghostVars
<1>4. CASE WaitForAcks \/ ReadTimeout
  BY <1>4, ClientsInStepFrame DEF WaitForAcks, ReadTimeout, HeldIffCounted, refVars, ghostVars
<1>5. CASE TimeoutSharedWakelock
  BY <1>5, ResetKeepsHeld, ClientsInStepFrame DEF TimeoutSharedWakelock
<1>6. ASSUME NEW k \in 1..mWakeLockQueue, ReadAcks(k) PROVE ClientsInStep' /\ HeldIffCounted'
  <2>1. k \in Nat /\ mThreadsRun \in BOOLEAN
    BY DEF TypeOK
  <2>. QED BY <1>6, <2>1, SettleKeepsHeld, ClientsInStepFrame DEF ReadAcks
<1>7. ASSUME NEW k \in 0..mWakeLockQueue, WakelockThreadExit(k)
      PROVE  ClientsInStep' /\ HeldIffCounted'
  BY <1>7, ResetKeepsHeld, ClientsInStepFrame DEF WakelockThreadExit
<1>8. CASE StopThreads
  BY <1>8, ClientsInStepFrame DEF StopThreads, HeldIffCounted, refVars, ghostVars
<1>9. CASE ResetStopped
  BY <1>9, ResetKeepsHeld, ClientsInStepFrame DEF ResetStopped
<1>10. CASE StartThreads \/ PendingWritesExit
  BY <1>10, ClientsInStepFrame
  DEF StartThreads, PendingWritesExit, HeldIffCounted, refVars, ghostVars
<1>11. CASE Tick \/ UNCHANGED vars
  BY <1>11, ClientsInStepFrame DEF Tick, vars, HeldIffCounted, refVars, ghostVars
<1>12. ASSUME NEW kept \in 0..unacked, ReplaceQueues(kept) PROVE ClientsInStep' /\ HeldIffCounted'
  <2>1. unacked + mWakeLockQueue - kept \in Nat
    BY DEF TypeOK
  <2>. QED BY <1>12, <2>1, SettleKeepsHeld, ClientsInStepFrame DEF ReplaceQueues
<1>. QED
  BY <1>1, <1>2, <1>3, <1>4, <1>5, <1>6, <1>7, <1>8, <1>9, <1>10, <1>11, <1>12
  DEF Next, PendingWrites, Framework, WakelockThread, InitializeSteps

\* For every number of threads, batches and restarts, the kernel wake lock is
\* held exactly while mWakelockRefCount is positive
\* (incrementRefCount..., decrementRefCount..., resetSharedWakelock).
THEOREM LockFollowsCount == Spec => []HeldIffCounted
<1>1. LockInv /\ [Next]_vars => LockInv'
  BY TypeInvStep, LockInvStep DEF LockInv
<1>2. LockInv => HeldIffCounted
  BY DEF LockInv
<1>. QED BY <1>1, <1>2, LockInvInit, PTL DEF Spec

(***************************************************************************)
(* The accounts of references.                                             *)
(***************************************************************************)
RefInv == LockInv /\ TimesPast /\ RefsAccounted /\ BinderInStep

\* The scoped references in the count are finitely many.
LEMMA FreshFinite == IsFiniteSet(Fresh) /\ Cardinality(Fresh) \in Nat
<1>1. Fresh \in SUBSET Clients
  BY DEF Fresh
<1>2. IsFiniteSet(Fresh)
  BY <1>1, ClientsAssumption, FS_Subset
<1>. QED BY <1>2, FS_CardinalityType

LEMMA RefInvInit == Init => RefInv
<1> SUFFICES ASSUME Init PROVE RefInv
  OBVIOUS
<1>1. Fresh = {}
  BY DEF Init, Fresh
<1>2. Cardinality(Fresh) = 0
  BY <1>1, FS_EmptySet
<1>3. RefsAccounted
  BY <1>2 DEF Init, RefsAccounted
<1>4. TimesPast /\ BinderInStep
  BY DEF Init, TimesPast, BinderInStep
<1>. QED BY <1>3, <1>4, LockInvInit DEF RefInv

\* Who is fresh changes only with the scoped locks and the reset time.
LEMMA FreshFrame ==
  ASSUME UNCHANGED <<locked, createdAt, mWakelockTimeoutResetTime>>
  PROVE  Cardinality(Fresh)' = Cardinality(Fresh)
<1>1. Fresh' = Fresh
  BY DEF Fresh
<1>. QED BY <1>1

\* A reset makes every scoped reference stale and leaves exactly the stranded ones.
LEMMA ResetKeepsAccounts ==
  ASSUME TypeOK, TimesPast, ResetSharedWakelock, UNCHANGED <<locked, createdAt>>
  PROVE  Fresh' = {} /\ RefsAccounted' /\ TimesPast'
<1>1. Fresh' = {}
  BY DEF Fresh, ResetSharedWakelock, ResetTime, TimesPast, TypeOK
<1>2. Cardinality(Fresh)' = 0
  BY <1>1, FS_EmptySet
<1>3. mWakelockRefCount' \in Nat
  BY ResetSharedWakelockType
<1>4. RefsAccounted'
  <2>1. counted' = 0 /\ outstanding' = 0 /\ stranded' = mWakelockRefCount'
    BY DEF ResetSharedWakelock
  <2>2. \A n \in Nat : n = 0 + 0 + 0 + n
    OBVIOUS
  <2>3. mWakelockRefCount' = 0 + 0 + 0 + mWakelockRefCount'
    BY <1>3, <2>2, Zenon
  <2>4. mWakelockRefCount' = Cardinality(Fresh)' + counted' + outstanding' + stranded'
    BY <1>2, <2>1, <2>3, Zenon
  <2>. QED BY <2>4, Zenon DEF RefsAccounted
<1>5. TimesPast'
  BY DEF ResetSharedWakelock, ResetTime, TimesPast, TypeOK
<1>. QED BY <1>1, <1>4, <1>5

\* Settling gives back the references of the events settled, or says so.
LEMMA SettleKeepsAccounts ==
  ASSUME TypeOK, RefsAccounted, UNCHANGED <<locked, createdAt, mWakelockTimeoutResetTime>>,
         NEW settled \in Nat, NEW delta \in Nat, NEW running \in BOOLEAN,
         running => settled <= delta,
         settled <= outstanding + unreferenced, SettleEvents(settled, delta, running)
  PROVE  RefsAccounted'
<1> DEFINE late == AtMost(settled, unreferenced)
           own  == settled - late
           fresh == Cardinality(Fresh)
<1> HIDE DEF fresh
<1>1. own \in Nat /\ own <= outstanding /\ (running => own <= delta)
  BY DEF TypeOK, AtMost
<1>2. outstanding' = outstanding - own /\ counted' = counted /\ Cardinality(Fresh)' = fresh
  BY FreshFrame DEF SettleEvents, fresh
<1>3. fresh \in Nat
  BY FreshFinite DEF fresh
<1> SUFFICES ASSUME ~overReleased'
             PROVE  mWakelockRefCount' = fresh + counted' + outstanding' + stranded'
  BY <1>2 DEF RefsAccounted
<1>4. CASE running
  <2>1. ~overReleased /\ (mWakelockRefCount > 0 => ~(delta > own)) /\ stranded' = stranded
    BY <1>4, Zenon DEF SettleEvents
  <2>2. mWakelockRefCount = fresh + counted + outstanding + stranded
    BY <2>1 DEF RefsAccounted, fresh
  <2>3. DecrementRefCount(delta, mWakelockTimeoutResetTime)
    BY <1>4 DEF SettleEvents
  <2>4. mWakelockRefCount' = mWakelockRefCount - own
    <3>1. CASE mWakelockRefCount = 0
      BY <1>1, <1>3, <2>2, <2>3, <3>1 DEF DecrementRefCount, Outdated, refVars, TypeOK
    <3>2. CASE mWakelockRefCount > 0
      <4>1. delta = own
        BY <1>1, <1>4, <2>1, <3>2
      <4>2. mWakelockRefCount' = mWakelockRefCount - AtMost(mWakelockRefCount, delta)
        BY <2>3, <3>2 DEF DecrementRefCount, Outdated, TypeOK
      <4>3. own <= mWakelockRefCount
        BY <1>1, <1>3, <2>2 DEF TypeOK
      <4>. QED BY <1>1, <4>1, <4>2, <4>3 DEF AtMost, TypeOK
    <3>. QED BY <3>1, <3>2 DEF TypeOK
  <2>. QED BY <1>1, <1>2, <1>3, <2>1, <2>2, <2>4 DEF TypeOK
<1>5. CASE ~running
  <2>1. ~overReleased /\ stranded' = stranded + own /\ mWakelockRefCount' = mWakelockRefCount
    BY <1>5 DEF SettleEvents, refVars
  <2>2. mWakelockRefCount = fresh + counted + outstanding + stranded
    BY <2>1 DEF RefsAccounted, fresh
  <2>. QED BY <1>1, <1>2, <1>3, <2>1, <2>2 DEF TypeOK
<1>. QED BY <1>4, <1>5

\* A step of a client keeps the accounts.
LEMMA ClientKeepsAccounts ==
  ASSUME RefInv, NEW c \in Clients, Client(c)
  PROVE  TimesPast' /\ RefsAccounted'
<1> USE DEF RefInv, LockInv, TypeInv, TypeOK
<1> DEFINE fresh == Cardinality(Fresh)
<1>0. fresh \in Nat
  BY FreshFinite
<1> HIDE DEF fresh
<1>1. ASSUME NEW w \in 0..MaxWake, CreateScopedWakelock(c, w) PROVE TimesPast' /\ RefsAccounted'
  BY <1>1, FreshFrame DEF CreateScopedWakelock, clockVars, refVars, ghostVars, TimesPast, RefsAccounted
<1>2. CASE AcquireScopedWakelock(c)
  <2>1. TimesPast'
    BY <1>2 DEF AcquireScopedWakelock, IncrementRefCount, TimesPast
  <2>2. c \notin Fresh /\ Fresh' = Fresh \cup {c}
    BY <1>2 DEF AcquireScopedWakelock, IncrementRefCount, ClientsInStep, TimesPast, Fresh
  <2>3. Cardinality(Fresh)' = fresh + 1
    BY <2>2, FreshFinite, FS_AddElement DEF fresh
  <2>4. /\ mWakelockRefCount' = mWakelockRefCount + 1
        /\ UNCHANGED ghostVars
    BY <1>2 DEF AcquireScopedWakelock, IncrementRefCount
  <2>. QED BY <1>0, <2>1, <2>3, <2>4 DEF RefsAccounted, ghostVars, fresh
<1>3. CASE PostEvents(c)
  BY <1>3, FreshFrame DEF PostEvents, clockVars, refVars, ghostVars, TimesPast, RefsAccounted
<1>4. CASE LockEventQueue(c)
  BY <1>4, FreshFrame DEF LockEventQueue, clockVars, refVars, ghostVars, TimesPast, RefsAccounted
<1>5. CASE CountWakeupEvents(c)
  <2>1. TimesPast' /\ Cardinality(Fresh)' = fresh
    BY <1>5, FreshFrame DEF CountWakeupEvents, IncrementRefCount, TimesPast, fresh
  <2>2. counted = 0
    BY <1>5, ClientsAssumption DEF CountWakeupEvents, ClientsInStep
  <2>3. /\ mWakelockRefCount' = mWakelockRefCount + wakeups[c] /\ counted' = wakeups[c]
        /\ UNCHANGED <<outstanding, stranded, overReleased>> /\ wakeups[c] \in Nat
    BY <1>5 DEF CountWakeupEvents, IncrementRefCount
  <2>. QED BY <1>0, <2>1, <2>2, <2>3 DEF RefsAccounted, fresh
<1>6. ASSUME NEW d \in 0..MaxWake, WriteEvents(c, d) PROVE TimesPast' /\ RefsAccounted'
  <2>1. TimesPast' /\ Cardinality(Fresh)' = fresh
    BY <1>6, FreshFrame DEF WriteEvents, clockVars, TimesPast, fresh
  <2>2. counted > 0 => counted = wakeups[c]
    BY <1>6, ClientsAssumption DEF WriteEvents, ClientsInStep
  <2>3. counted' + outstanding' + stranded' = counted + outstanding + stranded
    BY <1>6, <2>2, NumbersAssumption DEF WriteEvents
  <2>4. UNCHANGED <<mWakelockRefCount, overReleased>>
    BY <1>6 DEF WriteEvents, refVars
  <2>5. counted' \in Nat /\ outstanding' \in Nat /\ stranded' \in Nat
    BY <1>6, NumbersAssumption DEF WriteEvents
  <2>6. ASSUME mWakelockRefCount = fresh + counted + outstanding + stranded
        PROVE  mWakelockRefCount' = Cardinality(Fresh)' + counted' + outstanding' + stranded'
    <3> DEFINE a == counted'
               b == outstanding'
               d1 == stranded'
    <3>1. a \in Nat /\ b \in Nat /\ d1 \in Nat /\ a + b + d1 = counted + outstanding + stranded
      BY <2>3, <2>5
    <3> HIDE DEF a, b, d1
    <3>2. mWakelockRefCount = fresh + a + b + d1
      BY <1>0, <2>6, <3>1
    <3>. QED BY <2>1, <2>4, <3>2 DEF a, b, d1
  <2>. QED BY <2>1, <2>4, <2>6, Zenon DEF RefsAccounted, fresh
<1>7. CASE DestroyScopedWakelock(c)
  <2>1. TimesPast' /\ UNCHANGED <<mWakelockRefCount, overReleased, counted, outstanding>>
    BY <1>7 DEF DestroyScopedWakelock, Finish, clockVars, refVars, TimesPast
  <2>2. CASE locked[c] /\ mThreadsRun
    <3>1. UNCHANGED <<locked, createdAt, mWakelockTimeoutResetTime, stranded>>
      BY <1>7, <2>2 DEF DestroyScopedWakelock, clockVars
    <3>. QED BY <2>1, <3>1, FreshFrame DEF RefsAccounted
  <2>3. CASE ~(locked[c] /\ mThreadsRun)
    <3>1. Fresh' = Fresh \ {c} /\ stranded' = stranded + (IF c \in Fresh THEN 1 ELSE 0)
      BY <1>7, <2>3 DEF DestroyScopedWakelock, Finish, clockVars, Fresh
    <3>2. Cardinality(Fresh)' = IF c \in Fresh THEN fresh - 1 ELSE fresh
      BY <3>1, FreshFinite, FS_RemoveElement DEF fresh
    <3>. QED BY <1>0, <2>1, <3>1, <3>2 DEF RefsAccounted, fresh
  <2>. QED BY <2>2, <2>3
<1>8. CASE ReleaseScopedWakelock(c)
  <2>1. TimesPast' /\ UNCHANGED ghostVars
    BY <1>8 DEF ReleaseScopedWakelock, Finish, clockVars, TimesPast
  <2>2. Fresh' = Fresh \ {c}
    BY <1>8 DEF ReleaseScopedWakelock, Finish, clockVars, Fresh
  <2>3. Cardinality(Fresh)' = IF c \in Fresh THEN fresh - 1 ELSE fresh
    BY <2>2, FreshFinite, FS_RemoveElement DEF fresh
  <2>4. CASE c \in Fresh
    <3>1. fresh > 0
      BY <2>4, <1>0, FreshFinite, FS_EmptySet DEF fresh
    <3>2. ~overReleased => mWakelockRefCount' = mWakelockRefCount - 1
      BY <1>0, <1>8, <2>4, <3>1 DEF ReleaseScopedWakelock, DecrementRefCount, Outdated, AtMost, Fresh,
         RefsAccounted, fresh
    <3>. QED BY <1>0, <2>1, <2>3, <2>4, <3>2 DEF RefsAccounted, ghostVars, fresh
  <2>5. CASE c \notin Fresh
    <3>1. createdAt[c] < mWakelockTimeoutResetTime
      BY <1>8, <2>5 DEF ReleaseScopedWakelock, ClientsInStep, Fresh
    <3>2. mWakelockRefCount' = mWakelockRefCount
      BY <1>8, <3>1 DEF ReleaseScopedWakelock, DecrementRefCount, Outdated, refVars
    <3>. QED BY <1>0, <2>1, <2>3, <2>5, <3>2 DEF RefsAccounted, ghostVars, fresh
  <2>. QED BY <2>4, <2>5
<1>. QED BY <1>1, <1>2, <1>3, <1>4, <1>5, <1>6, <1>7, <1>8 DEF Client, Client

LEMMA RefInvStep == RefInv /\ [Next]_vars => TimesPast' /\ RefsAccounted'
<1> SUFFICES ASSUME RefInv, [Next]_vars PROVE TimesPast' /\ RefsAccounted'
  OBVIOUS
<1> USE NumbersAssumption DEF RefInv, LockInv, TypeInv
<1>1. ASSUME NEW c \in Clients, Client(c) PROVE TimesPast' /\ RefsAccounted'
  BY <1>1, ClientKeepsAccounts
<1>2. ASSUME NEW d \in 0..MaxWake, NEW delta \in d..MaxWake, NEW running \in BOOLEAN,
             DropPendingEvents(d, delta, running)
      PROVE  TimesPast' /\ RefsAccounted'
  <2>1. TimesPast'
    BY <1>2 DEF DropPendingEvents, clockVars, clientVars, TimesPast
  <2>2. SettleEvents(d, delta, running) /\ d <= outstanding + unreferenced
    BY <1>2 DEF DropPendingEvents, AcksAccounted, TypeOK
  <2>3. UNCHANGED <<locked, createdAt, mWakelockTimeoutResetTime>>
    BY <1>2 DEF DropPendingEvents, clientVars, clockVars
  <2>. QED BY <2>1, <2>2, <2>3, SettleKeepsAccounts
<1>3. ASSUME NEW k \in 1..mWakeLockQueue, ReadAcks(k) PROVE TimesPast' /\ RefsAccounted'
  <2>1. TimesPast'
    BY <1>3 DEF ReadAcks, clockVars, clientVars, TimesPast
  <2>2. SettleEvents(k, k, mThreadsRun)
    BY <1>3, Zenon DEF ReadAcks
  <2>4. mThreadsRun \in BOOLEAN
    BY DEF TypeOK
  <2>5. k \in Nat /\ k <= outstanding + unreferenced
    BY <1>3 DEF ReadAcks, AcksAccounted, TypeOK
  <2>3. UNCHANGED <<locked, createdAt, mWakelockTimeoutResetTime>>
    BY <1>3 DEF ReadAcks, clientVars, clockVars
  <2>. QED BY <2>1, <2>2, <2>3, <2>4, <2>5, SettleKeepsAccounts
<1>4. CASE TimeoutSharedWakelock
  BY <1>4, ResetKeepsAccounts DEF TimeoutSharedWakelock, clientVars
<1>5. ASSUME NEW k \in 0..mWakeLockQueue, WakelockThreadExit(k) PROVE TimesPast' /\ RefsAccounted'
  BY <1>5, ResetKeepsAccounts DEF WakelockThreadExit, clientVars
<1>6. CASE ResetStopped
  BY <1>6, ResetKeepsAccounts DEF ResetStopped, clientVars
<1>7. ASSUME NEW kept \in 0..unacked, ReplaceQueues(kept) PROVE TimesPast' /\ RefsAccounted'
  <2> DEFINE lost == unacked + mWakeLockQueue - kept
  <2>1. TimesPast'
    BY <1>7 DEF ReplaceQueues, clockVars, clientVars, TimesPast
  <2>2. SettleEvents(lost, 0, FALSE)
    BY <1>7, Zenon DEF ReplaceQueues
  <2>4. lost \in Nat /\ lost <= outstanding + unreferenced
    BY DEF AcksAccounted, TypeOK
  <2>3. UNCHANGED <<locked, createdAt, mWakelockTimeoutResetTime>>
    BY <1>7 DEF ReplaceQueues, clientVars, clockVars
  <2>. QED BY <2>1, <2>2, <2>3, <2>4, SettleKeepsAccounts
<1>8. CASE \/ WaitForAcks \/ ReadTimeout \/ StopThreads \/ StartThreads \/ PendingWritesExit
           \/ UNCHANGED vars
  <2>1. UNCHANGED <<clockVars, refVars, clientVars, ghostVars>>
    BY <1>8 DEF WaitForAcks, ReadTimeout, StopThreads, StartThreads, PendingWritesExit, vars
  <2>. QED BY <2>1, FreshFrame DEF clockVars, refVars, clientVars, ghostVars, TimesPast, RefsAccounted
<1>9. ASSUME NEW k \in 1..unacked, FrameworkAck(k) PROVE TimesPast' /\ RefsAccounted'
  BY <1>9, FreshFrame DEF FrameworkAck, clockVars, refVars, clientVars, ghostVars, TimesPast, RefsAccounted
<1>10. CASE Tick
  BY <1>10, FreshFrame DEF Tick, refVars, clientVars, ghostVars, TimesPast, RefsAccounted, TypeOK
<1>. QED
  BY <1>1, <1>2, <1>3, <1>4, <1>5, <1>6, <1>7, <1>8, <1>9, <1>10
  DEF Next, PendingWrites, Framework, WakelockThread, InitializeSteps

LEMMA BinderInStepStep == BinderInStep /\ [Next]_vars => BinderInStep'
BY DEF BinderInStep, Next, Client, PendingWritesExit, IncrementRefCount, PendingWrites, Framework, WakelockThread, InitializeSteps,
   CreateScopedWakelock, AcquireScopedWakelock, PostEvents, LockEventQueue, CountWakeupEvents,
   WriteEvents, DestroyScopedWakelock, ReleaseScopedWakelock, DropPendingEvents, FrameworkAck,
   WaitForAcks, TimeoutSharedWakelock, ReadAcks, ReadTimeout, WakelockThreadExit, StopThreads,
   ResetStopped, ReplaceQueues, StartThreads, Tick, vars, initVars

\* The invariant TLC checks on the small instances holds for all of them.
THEOREM Inductive == Spec => []IInv
<1>1. RefInv /\ [Next]_vars => RefInv'
  BY TypeInvStep, LockInvStep, RefInvStep, BinderInStepStep DEF RefInv, LockInv
<1>2. RefInv => IInv
  BY DEF RefInv, LockInv, TypeInv, IInv
<1>. QED BY <1>1, <1>2, RefInvInit, PTL DEF Spec

\* Until references are given back twice, every unit of mWakelockRefCount is
\* owned: a scoped lock newer than the last reset, an unacknowledged wake-up
\* event, or a reference stranded by a stop or a drop.
THEOREM ReferencesOwned == Spec => []RefsAccounted
<1>1. IInv => RefsAccounted
  BY DEF IInv
<1>. QED BY <1>1, Inductive, PTL

\* A wake-up event whose reference was taken is never waiting for the framework
\* while the kernel wake lock is released.
THEOREM WakeEventsProtected == Spec => []WakeEventsCovered
<1>1. IInv => WakeEventsCovered
  <2> SUFFICES ASSUME IInv, ~overReleased, Fresh # {} \/ counted > 0 \/ outstanding > 0
               PROVE  wakeLockHeld
    BY DEF WakeEventsCovered
  <2>1. Fresh # {} => Cardinality(Fresh) > 0
    BY FreshFinite, FS_EmptySet
  <2>2. mWakelockRefCount > 0
    BY <2>1, FreshFinite DEF IInv, RefsAccounted, TypeOK
  <2>. QED BY <2>2 DEF IInv, HeldIffCounted
<1>. QED BY <1>1, Inductive, PTL

\* A step that lets go of the wake lock before the timeout takes no reference
\* away from a posted event.
LEMMA ReleaseKeepsReferences ==
  ASSUME IInv, [Next]_vars, wakeLockHeld, ~wakeLockHeld', ~TimedOut
  PROVE  unreferenced' <= unreferenced
<1> USE DEF IInv, TypeOK
<1>1. ASSUME NEW c \in Clients, Client(c) PROVE unreferenced' <= unreferenced
  <2>1. CASE AcquireScopedWakelock(c) \/ CountWakeupEvents(c)
    BY <2>1 DEF AcquireScopedWakelock, CountWakeupEvents, IncrementRefCount
  <2>2. CASE ReleaseScopedWakelock(c)
    BY <2>2 DEF ReleaseScopedWakelock, ghostVars
  <2>3. ASSUME NEW w \in 0..MaxWake, CreateScopedWakelock(c, w) \/ WriteEvents(c, w) PROVE FALSE
    BY <2>3 DEF CreateScopedWakelock, WriteEvents, refVars
  <2>4. CASE PostEvents(c) \/ LockEventQueue(c) \/ DestroyScopedWakelock(c)
    BY <2>4 DEF PostEvents, LockEventQueue, DestroyScopedWakelock, refVars
  <2>. QED BY <1>1, <2>1, <2>2, <2>3, <2>4 DEF Client
<1>2. ASSUME NEW d, NEW delta, NEW running, DropPendingEvents(d, delta, running), d \in Nat
      PROVE unreferenced' <= unreferenced
  BY <1>2 DEF DropPendingEvents, SettleEvents, AtMost
<1>3. ASSUME NEW k \in 1..mWakeLockQueue, ReadAcks(k) PROVE unreferenced' <= unreferenced
  BY <1>3 DEF ReadAcks, SettleEvents, AtMost
<1>4. ASSUME NEW k, FrameworkAck(k) \/ WakelockThreadExit(k) PROVE FALSE
  BY <1>4 DEF FrameworkAck, WakelockThreadExit, ResetSharedWakelock, refVars
<1>5. CASE ResetStopped
  BY <1>5 DEF ResetStopped, ResetSharedWakelock, BinderInStep, refVars
<1>6. CASE TimeoutSharedWakelock
  BY <1>6 DEF TimeoutSharedWakelock
<1>7. CASE \/ WaitForAcks \/ ReadTimeout \/ StopThreads \/ StartThreads \/ PendingWritesExit
           \/ Tick \/ UNCHANGED vars
  BY <1>7 DEF WaitForAcks, ReadTimeout, StopThreads, StartThreads, PendingWritesExit, Tick, vars, refVars
<1>8. ASSUME NEW kept, ReplaceQueues(kept) PROVE FALSE
  BY <1>8 DEF ReplaceQueues, SettleEvents, refVars
<1>. QED
  BY <1>1, <1>2, <1>3, <1>4, <1>5, <1>6, <1>7, <1>8, NumbersAssumption
  DEF Next, PendingWrites, Framework, WakelockThread, InitializeSteps

\* The kernel wake lock is let go only when all it protects is handled, when the
\* timeout has passed since the last increment, or after an over-release.
THEOREM ReleaseDue == Spec => ReleasedOnlyWhenDue
<1>1. IInv /\ IInv' /\ [Next]_vars =>
        [wakeLockHeld /\ ~wakeLockHeld' =>
           \/ TimedOut
           \/ overReleased'
           \/ /\ Fresh' = {} /\ counted' = 0 /\ outstanding' = 0
              /\ unreferenced' <= unreferenced]_vars
  <2> SUFFICES ASSUME IInv, IInv', [Next]_vars, wakeLockHeld, ~wakeLockHeld', ~TimedOut,
                      ~overReleased'
               PROVE  /\ Fresh' = {} /\ counted' = 0 /\ outstanding' = 0
                      /\ unreferenced' <= unreferenced
    OBVIOUS
  <2>1. mWakelockRefCount' = 0
    BY DEF IInv, HeldIffCounted, TypeOK
  <2>2. mWakelockRefCount' = Cardinality(Fresh)' + counted' + outstanding' + stranded'
    BY DEF IInv, RefsAccounted
  <2>3. FreshFinite'
    BY FreshFinite, PTL
  <2>4. Cardinality(Fresh)' = 0 /\ counted' = 0 /\ outstanding' = 0
    <3>1. \A a, b, d, e \in Nat : a + b + d + e = 0 => a = 0 /\ b = 0 /\ d = 0
      OBVIOUS
    <3>2. counted' \in Nat /\ outstanding' \in Nat /\ stranded' \in Nat
      BY DEF IInv, TypeOK
    <3>. QED BY <2>1, <2>2, <2>3, <3>1, <3>2, Zenon
  <2>5. Fresh' = {}
    BY <2>3, <2>4, FS_EmptySet
  <2>. QED BY <2>4, <2>5, ReleaseKeepsReferences
<1>. QED BY <1>1, Inductive, PTL DEF Spec, ReleasedOnlyWhenDue
=============================================================================
