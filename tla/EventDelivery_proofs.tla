------------------------ MODULE EventDelivery_proofs ------------------------
(* What holds of the event path and the shared wake lock together, for every *)
(* number of sub-HAL threads, every batch and every number of restarts.      *)
EXTENDS EventDelivery, EventQueue_proofs

(***************************************************************************)
(* How many wake-up events are in a sequence of events.                    *)
(***************************************************************************)

\* The wake-up events of two sequences add up.
LEMMA WakeupEventsConcat ==
  ASSUME NEW S, NEW s \in Seq(S), NEW t \in Seq(S)
  PROVE  WakeupEvents(s \o t) = WakeupEvents(s) + WakeupEvents(t)
<1>1. PICK st, m, n : st = s \o t /\ m = Len(s) /\ n = Len(t)
  OBVIOUS
<1>2. /\ st \in Seq(S) /\ Len(st) = m + n /\ m \in Nat /\ n \in Nat
      /\ \A i \in 1..m + n : st[i] = IF i <= m THEN s[i] ELSE t[i - m]
  BY <1>1, ConcatProperties
<1>3. PICK A, B, C : /\ A = {i \in 1..m : s[i].wake} /\ B = {i \in 1..n : t[i].wake}
                     /\ C = {m + i : i \in B}
  OBVIOUS
<1>4. {i \in 1..Len(st) : st[i].wake} = A \cup C
  <2>1. ASSUME NEW i \in 1..m + n, st[i].wake PROVE i \in A \cup C
    <3>1. CASE i <= m
      BY <1>2, <1>3, <2>1, <3>1
    <3>2. CASE ~(i <= m)
      <4>1. i - m \in 1..n /\ st[i] = t[i - m] /\ i = m + (i - m)
        BY <1>2, <3>2
      <4>2. i - m \in B
        BY <1>3, <2>1, <4>1, Zenon
      <4>. QED BY <1>3, <4>1, <4>2, Zenon
    <3>. QED BY <3>1, <3>2
  <2>2. ASSUME NEW i \in A PROVE i \in 1..m + n /\ st[i].wake
    BY <1>2, <1>3
  <2>3. ASSUME NEW i \in C PROVE i \in 1..m + n /\ st[i].wake
    <3>1. PICK k \in B : i = m + k
      BY <1>3
    <3>2. k \in 1..n /\ t[k].wake
      BY <1>3
    <3>3. i \in 1..m + n /\ ~(i <= m) /\ i - m = k
      BY <1>2, <3>1, <3>2
    <3>4. st[i] = t[k]
      BY <1>2, <3>3, Zenon
    <3>. QED BY <3>2, <3>3, <3>4
  <2>. QED BY <1>2, <2>1, <2>2, <2>3
<1>5. IsFiniteSet(A) /\ IsFiniteSet(B)
  <2>1. IsFiniteSet(1..m) /\ IsFiniteSet(1..n)
    <3>1. \A a, b \in Int : IsFiniteSet(a..b)
      BY ONLY FS_Interval
    <3>2. 1 \in Int /\ m \in Int /\ n \in Int
      BY <1>2
    <3>. QED BY ONLY <3>1, <3>2, Zenon
  <2>2. A \subseteq 1..m /\ B \subseteq 1..n
    BY <1>3
  <2>. QED BY <2>1, <2>2, FS_Subset
<1>6. IsFiniteSet(C) /\ Cardinality(C) = Cardinality(B)
  <2> DEFINE f == [i \in B |-> m + i]
  <2>1. B \subseteq Int
    BY <1>2, <1>3
  <2>2. f \in Bijection(B, C)
    <3>1. f \in [B -> C]
      BY <1>3
    <3>2. \A x, y \in B : f[x] = f[y] => x = y
      BY <1>2, <2>1
    <3>3. \A y \in C : \E x \in B : f[x] = y
      BY <1>3
    <3>4. f \in Injection(B, C)
      BY <3>1, <3>2, Zenon DEF Injection, IsInjective
    <3>5. f \in Surjection(B, C)
      BY <3>1, <3>3, Zenon DEF Surjection
    <3>. QED BY <3>4, <3>5, Zenon DEF Bijection
  <2>3. ExistsBijection(B, C)
    BY <2>2 DEF ExistsBijection
  <2>. QED BY <1>5, <2>3, FS_Bijection, FS_SameCardinalityBij
<1>7. A \cap C = {}
  BY <1>2, <1>3
<1>8. Cardinality(A \cup C) = Cardinality(A) + Cardinality(B)
  <2>1. Cardinality(A) \in Nat /\ Cardinality(B) \in Nat /\ Cardinality(A \cap C) = 0
    BY <1>5, <1>7, FS_CardinalityType, FS_EmptySet
  <2>2. Cardinality(A \cup C) = Cardinality(A) + Cardinality(C) - Cardinality(A \cap C)
    BY <1>5, <1>6, FS_Union
  <2>. QED BY <1>6, <2>1, <2>2
<1>. QED BY <1>1, <1>3, <1>4, <1>8 DEF WakeupEvents

\* So do those of the two parts of a sequence.
LEMMA WakeupEventsCut ==
  ASSUME NEW S, NEW s \in Seq(S), NEW n \in 0..Len(s)
  PROVE  /\ WakeupEvents(SubSeq(s, 1, n)) \in 0..n /\ WakeupEvents(Drop(s, n)) \in Nat
         /\ WakeupEvents(s) = WakeupEvents(SubSeq(s, 1, n)) + WakeupEvents(Drop(s, n))
<1>1. PICK a, b : a = SubSeq(s, 1, n) /\ b = Drop(s, n)
  OBVIOUS
<1>2. a \in Seq(S) /\ Len(a) = n /\ b \in Seq(S) /\ a \o b = s
  BY <1>1, CutLaws, Zenon
<1>3. WakeupEvents(a) \in 0..Len(a) /\ WakeupEvents(b) \in 0..Len(b)
  BY <1>2, WakeupEventsBounded, Zenon
<1>4. WakeupEvents(s) = WakeupEvents(a) + WakeupEvents(b)
  BY <1>2, WakeupEventsConcat, Zenon
<1>5. WakeupEvents(b) \in Nat
  BY <1>3
<1>. QED BY <1>1, <1>2, <1>3, <1>4, <1>5, Zenon

LEMMA WakeupEventsEmpty == WakeupEvents(<<>>) = 0
<1>1. <<>> \in Seq(Event) /\ Len(<<>>) = 0
  OBVIOUS
<1>2. WakeupEvents(<<>>) \in 0..Len(<<>>)
  BY <1>1, WakeupEventsBounded, Zenon
<1>. QED BY <1>1, <1>2

\* A new batch has the wake-up events its sub-HAL took the wake lock for.
LEMMA WakesOfNewEvents ==
  ASSUME NEW wakes \in Seq(BOOLEAN)
  PROVE  WakeupEvents(NewEvents(wakes)) = Wakes(wakes)
<1>1. PICK events : events = NewEvents(wakes)
  OBVIOUS
<1>2. Len(wakes) \in Nat
  OBVIOUS
<1>3. Len(events) = Len(wakes) /\ \A i \in 1..Len(wakes) : events[i].wake = wakes[i]
  BY <1>1, <1>2 DEF NewEvents
<1>4. {i \in 1..Len(events) : events[i].wake} = {i \in 1..Len(wakes) : wakes[i]}
  BY <1>3
<1>. QED BY <1>1, <1>4, Zenon DEF WakeupEvents, Wakes

\* There are no more of them than the batch is long.
LEMMA WakesBounded ==
  ASSUME NEW wakes \in Seq(BOOLEAN), Len(wakes) \in 1..MaxBatch
  PROVE  Wakes(wakes) \in 0..MaxBatch
<1>1. PICK n : n = Len(wakes)
  OBVIOUS
<1>2. n \in 1..MaxBatch /\ n \in Int /\ 1 \in Int /\ MaxBatch \in Nat
  BY <1>1, QueueAssumption
<1>3. IsFiniteSet(1..n) /\ Cardinality(1..n) = n
  <2>1. \A a, b \in Int : IsFiniteSet(a..b) /\ (a <= b => Cardinality(a..b) = b - a + 1)
    BY FS_Interval
  <2>. QED BY <1>2, <2>1
<1>4. PICK woken : woken = {i \in 1..n : wakes[i]}
  OBVIOUS
<1>5. Cardinality(woken) \in Nat /\ Cardinality(woken) <= n
  <2>1. woken \subseteq 1..n
    BY <1>4
  <2>2. IsFiniteSet(woken) /\ Cardinality(woken) <= Cardinality(1..n)
    BY <1>3, <2>1, FS_Subset
  <2>. QED BY <1>3, <2>2, FS_CardinalityType
<1>6. Wakes(wakes) = Cardinality(woken)
  BY <1>1, <1>4, Zenon DEF Wakes
<1>. QED BY <1>2, <1>5, <1>6

(***************************************************************************)
(* The wake lock's module and its proofs are about the same steps, so that *)
(* what is proved there holds here.                                        *)
(***************************************************************************)
WakelockProofs == INSTANCE SharedWakelock_proofs
                    WITH MaxWake <- MaxBatch, binder <- WakelockBinder, writerRuns <- WriterRuns

\* The assumptions of SharedWakelock.
LEMMA WakelockNumbers ==
  /\ WakelockProofs!IsFiniteSet(Clients) /\ NoClient \notin Clients
  /\ {kWakelockTimeout, MaxBatch, MaxPosts, MaxInits} \subseteq Nat
<1>1. WakelockProofs!IsFiniteSet(Clients)
  BY WakelockAssumption DEF WakelockProofs!IsFiniteSet, IsFiniteSet
<1>. QED BY <1>1, WakelockAssumption, QueueAssumption

LEMMA SameVars == WakelockProofs!vars = Wakelock!vars
BY DEF
   Wakelock!vars, WakelockProofs!vars, Wakelock!clockVars, WakelockProofs!clockVars,
   Wakelock!refVars, WakelockProofs!refVars, Wakelock!ackVars, WakelockProofs!ackVars,
   Wakelock!workerVars, WakelockProofs!workerVars, Wakelock!clientVars, WakelockProofs!clientVars,
   Wakelock!initVars, WakelockProofs!initVars, Wakelock!ghostVars, WakelockProofs!ghostVars

LEMMA SameInit == WakelockProofs!Init <=> Wakelock!Init
BY DEF Wakelock!Init, WakelockProofs!Init

LEMMA SameNext == WakelockProofs!Next <=> Wakelock!Next
BY DEF
   Wakelock!vars, WakelockProofs!vars, Wakelock!clockVars, WakelockProofs!clockVars,
   Wakelock!refVars, WakelockProofs!refVars, Wakelock!ackVars, WakelockProofs!ackVars,
   Wakelock!workerVars, WakelockProofs!workerVars, Wakelock!clientVars, WakelockProofs!clientVars,
   Wakelock!initVars, WakelockProofs!initVars, Wakelock!ghostVars, WakelockProofs!ghostVars,
   Wakelock!Next, WakelockProofs!Next, Wakelock!Client, WakelockProofs!Client,
   Wakelock!PendingWrites, WakelockProofs!PendingWrites, Wakelock!Framework,
   WakelockProofs!Framework, Wakelock!WakelockThread, WakelockProofs!WakelockThread,
   Wakelock!InitializeSteps, WakelockProofs!InitializeSteps, Wakelock!CreateScopedWakelock,
   WakelockProofs!CreateScopedWakelock, Wakelock!AcquireScopedWakelock,
   WakelockProofs!AcquireScopedWakelock, Wakelock!PostEvents, WakelockProofs!PostEvents,
   Wakelock!LockEventQueue, WakelockProofs!LockEventQueue, Wakelock!CountWakeupEvents,
   WakelockProofs!CountWakeupEvents, Wakelock!WriteEvents, WakelockProofs!WriteEvents,
   Wakelock!DestroyScopedWakelock, WakelockProofs!DestroyScopedWakelock,
   Wakelock!ReleaseScopedWakelock, WakelockProofs!ReleaseScopedWakelock,
   Wakelock!DropPendingEvents, WakelockProofs!DropPendingEvents, Wakelock!FrameworkAck,
   WakelockProofs!FrameworkAck, Wakelock!WaitForAcks, WakelockProofs!WaitForAcks,
   Wakelock!TimeoutSharedWakelock, WakelockProofs!TimeoutSharedWakelock, Wakelock!ReadAcks,
   WakelockProofs!ReadAcks, Wakelock!ReadTimeout, WakelockProofs!ReadTimeout,
   Wakelock!WakelockThreadExit, WakelockProofs!WakelockThreadExit, Wakelock!StopThreads,
   WakelockProofs!StopThreads, Wakelock!ResetStopped, WakelockProofs!ResetStopped,
   Wakelock!ReplaceQueues, WakelockProofs!ReplaceQueues, Wakelock!StartThreads,
   WakelockProofs!StartThreads, Wakelock!Tick, WakelockProofs!Tick, Wakelock!Goto,
   WakelockProofs!Goto, Wakelock!Finish, WakelockProofs!Finish, Wakelock!IncrementRefCount,
   WakelockProofs!IncrementRefCount, Wakelock!DecrementRefCount, WakelockProofs!DecrementRefCount,
   Wakelock!Acquires, WakelockProofs!Acquires, Wakelock!Outdated, WakelockProofs!Outdated,
   Wakelock!AtMost, WakelockProofs!AtMost, Wakelock!Fresh, WakelockProofs!Fresh,
   Wakelock!ResetSharedWakelock, WakelockProofs!ResetSharedWakelock, Wakelock!ResetTime,
   WakelockProofs!ResetTime, Wakelock!SettleEvents, WakelockProofs!SettleEvents,
   Wakelock!TimedOut, WakelockProofs!TimedOut, Wakelock!AfterReadTimeout,
   WakelockProofs!AfterReadTimeout, Wakelock!PendingWritesExit, WakelockProofs!PendingWritesExit,
   Wakelock!MayMissStop, WakelockProofs!MayMissStop

LEMMA WakelockProofsStep ==
  [Wakelock!Next]_(Wakelock!vars) => [WakelockProofs!Next]_(WakelockProofs!vars)
<1>1. SameVars'
  BY SameVars, PTL
<1>2. Wakelock!vars' = Wakelock!vars => WakelockProofs!vars' = WakelockProofs!vars
  BY <1>1, SameVars, Zenon
<1>. QED BY <1>2, SameNext, Zenon

\* The types of the wake lock's variables, and that no acknowledgement is for
\* more events than are in its accounts, are kept by its steps.
LEMMA WakelockTypesInit == Wakelock!Init => WakelockProofs!TypeInv
BY WakelockNumbers, SameInit, WakelockProofs!TypeInvInit, Zenon

LEMMA WakelockTypesStep ==
  WakelockProofs!TypeInv /\ [Wakelock!Next]_(Wakelock!vars) => WakelockProofs!TypeInv'
BY WakelockNumbers, WakelockProofsStep, WakelockProofs!TypeInvStep, Zenon

LEMMA WakelockTypes ==
  ASSUME WakelockProofs!TypeInv
  PROVE  /\ mWakelockRefCount \in Nat /\ wakeLockHeld \in BOOLEAN
         /\ unacked \in Nat /\ mWakeLockQueue \in Nat
         /\ outstanding \in Nat /\ unreferenced \in Nat /\ stranded \in Nat
         /\ overReleased \in BOOLEAN
         /\ pc \in [Clients -> WakelockProofs!ClientStates] /\ wakeups \in [Clients -> 0..MaxBatch]
BY DEF WakelockProofs!TypeInv, WakelockProofs!TypeOK

(***************************************************************************)
(* The invariant.                                                          *)
(***************************************************************************)

\* A waiting batch counts at least the wake-up events that are left of it: the
\* rest of a batch written in part keeps the count of the whole.
CountsCover ==
  \A b \in 1..Len(mPendingWriteEventsQueue) :
    WakeupEvents(mPendingWriteEventsQueue[b].events) <= mPendingWriteEventsQueue[b].numWakeupEvents

\* From the wake lock it takes until the write, a client has its batch, and
\* the wake lock's module counts the wake-up events of that batch.
HasBatch(c) == pc[c] \in {"creating", "created", "posting", "counting", "writing"}

BatchesHeld ==
  /\ batch \in [Clients -> Seq(BOOLEAN)]
  /\ \A c \in Clients :
       HasBatch(c) => Len(batch[c]) \in 1..MaxBatch /\ wakeups[c] = Wakes(batch[c])

\* The wake-up events the framework has to acknowledge, or will have.
Owed == readWake + WakeupEvents(OnTheWay)

\* It owes no more acknowledgements than the wake lock's module counts, and
\* exactly as many unless the threads were stopped and the queues not yet
\* replaced: a restart loses events whose acknowledgements stay expected.
AcksOwed ==
  /\ readWake \in Nat /\ Owed <= unacked
  /\ mThreadsRun \/ binder = "starting" => Owed = unacked

\* The binder thread is in initialize() only while the threads are stopped.
RunsWhenIdle == mThreadsRun => binder = "idle"

DeliveryInv ==
  /\ QueueInv /\ WakelockProofs!TypeInv
  /\ CountsCover /\ BatchesHeld /\ AcksOwed /\ RunsWhenIdle

\* To the event path, every step is one of its own or a post of some batch.
LEMMA QueuePart ==
  ASSUME BatchesHeld, [Next]_vars
  PROVE  \/ [QueueNext]_queueVars
         \/ \E wakes \in Seq(BOOLEAN) : \E direct :
              Len(wakes) \in 1..MaxBatch /\ PostEventsToMessageQueue(wakes, direct)
<1> USE DEF pathVars, queueVars, runVars, Wakelock!initVars
<1>1. ASSUME NEW c \in Clients, NEW wakes \in BatchKinds, Create(c, wakes)
      PROVE  UNCHANGED queueVars
  BY <1>1 DEF Create, Wakelock!CreateScopedWakelock
\* The first reference taken notifies the wake lock thread.
<1>2. ASSUME NEW c \in Clients, ClientStep(c) PROVE [QueueNext]_queueVars
  <2>1. CASE Wakelock!AcquireScopedWakelock(c) \/ Wakelock!CountWakeupEvents(c)
    <3>1. /\ asleep' = asleep \/ asleep' = asleep \ {"wakelock"}
          /\ UNCHANGED <<pathVars, mThreadsRun, inits>>
      BY <1>2, <2>1 DEF ClientStep, Wakelock!AcquireScopedWakelock, Wakelock!CountWakeupEvents,
         Wakelock!IncrementRefCount
    <3>2. CASE asleep' = asleep
      BY <3>1, <3>2
    <3>3. CASE asleep' # asleep
      <4>1. "wakelock" \in asleep /\ asleep' = asleep \ {"wakelock"}
        BY <3>1, <3>3
      <4>2. WakelockThreadNotified
        BY <3>1, <4>1 DEF WakelockThreadNotified
      <4>. QED BY <4>2, Zenon DEF QueueNext
    <3>. QED BY <3>2, <3>3
  <2>2. CASE ~(Wakelock!AcquireScopedWakelock(c) \/ Wakelock!CountWakeupEvents(c))
    BY <1>2, <2>2 DEF ClientStep, Wakelock!PostEvents, Wakelock!LockEventQueue,
       Wakelock!DestroyScopedWakelock, Wakelock!ReleaseScopedWakelock
  <2>. QED BY <2>1, <2>2
<1>3. ASSUME NEW c \in Clients, NEW direct, Write(c, direct)
      PROVE  \E wakes \in Seq(BOOLEAN) : \E d :
               Len(wakes) \in 1..MaxBatch /\ PostEventsToMessageQueue(wakes, d)
  <2>1. batch[c] \in Seq(BOOLEAN) /\ Len(batch[c]) \in 1..MaxBatch
    BY <1>3 DEF Write, Wakelock!WriteEvents, BatchesHeld, HasBatch
  <2>. QED BY <1>3, <2>1, Zenon DEF Write
<1>4. CASE PendingWritesStep \/ DropFailedWrite
  BY <1>4, Zenon DEF PendingWritesStep, DropFailedWrite, QueueNext, PendingWritesThread
<1>5. ASSUME NEW n \in 1..QuantumCount, Read(n) PROVE QueueNext
  BY <1>5, Zenon DEF Read, QueueNext
<1>6. ASSUME NEW k \in 1..readWake, Acknowledge(k) PROVE UNCHANGED queueVars
  BY <1>6 DEF Acknowledge, Wakelock!FrameworkAck
<1>7. CASE WakelockStep
  BY <1>7 DEF WakelockStep, Wakelock!WakelockThread, Wakelock!WaitForAcks,
     Wakelock!TimeoutSharedWakelock, Wakelock!ReadAcks, Wakelock!ReadTimeout,
     Wakelock!WakelockThreadExit, Wakelock!Tick
<1>8. CASE Stop
  BY <1>8, Zenon DEF Stop, QueueNext
<1>9. CASE Initialize
  BY <1>9, Zenon DEF Initialize, QueueNext, InitializeSteps
<1>10. CASE UNCHANGED vars
  BY <1>10 DEF vars
<1>. QED BY <1>1, <1>2, <1>3, <1>4, <1>5, <1>6, <1>7, <1>8, <1>9, <1>10, Zenon DEF Next

LEMMA QueuePartKeepsInv ==
  ASSUME QueueInv, BatchesHeld, [Next]_vars
  PROVE  QueueInv'
<1>1. CASE [QueueNext]_queueVars
  BY <1>1, QueueInvStep, Zenon
<1>2. ASSUME NEW wakes \in Seq(BOOLEAN), NEW direct, Len(wakes) \in 1..MaxBatch,
             PostEventsToMessageQueue(wakes, direct)
      PROVE  QueueInv'
  BY <1>2, PostKeepsInv, Zenon
<1>. QED BY <1>1, <1>2, QueuePart, Zenon

(***************************************************************************)
(* To the wake lock, every step is one of its own.                         *)
(***************************************************************************)

\* A failed write gives back the references of the events it loses, or more: a
\* batch that was written in part has the references of all its events counted.
LEMMA FailedWriteReferences ==
  ASSUME QueueInv, CountsCover, DropFailed,
         NEW lost, lost = WakeupEvents(SubSeq(FrontBatch.events, 1, numToWrite))
  PROVE  /\ FrontBatch.numWakeupEvents \in 0..MaxBatch
         /\ lost \in 0..MaxBatch /\ ReferencesOfFailedWrite \in lost..MaxBatch
         /\ FrontBatch.numWakeupEvents = 0 => lost = 0
         /\ lost <= WakeupEvents(FrontBatch.events)
         /\ ReferencesOfFailedWrite # lost =>
              /\ lost = WakeupEvents(FrontBatch.events)
              /\ ReferencesOfFailedWrite = FrontBatch.numWakeupEvents
<1>1. pendingWritesThread \in {"writing", "failed", "written"}
  BY DEF DropFailed
<1>2. /\ mPendingWriteEventsQueue # <<>> /\ numToWrite \in 0..Len(FrontBatch.events)
      /\ numToWrite = IF Len(FrontBatch.events) > QuantumCount THEN QuantumCount
                                                               ELSE Len(FrontBatch.events)
  BY <1>1, WriterLaws
<1>3. PICK front, count, n : front = FrontBatch.events /\ count = FrontBatch.numWakeupEvents /\ n = numToWrite
  OBVIOUS
<1>4. FrontBatch \in Batch /\ front \in Seq(Event) /\ count \in 0..MaxBatch
  <2>1. FrontBatch \in Batch
    BY <1>2, FrontLaws
  <2>. QED BY <1>3, <2>1 DEF Batch
<1>5. WakeupEvents(front) <= count
  <2>1. 1 \in 1..Len(mPendingWriteEventsQueue) /\ FrontBatch = mPendingWriteEventsQueue[1]
    BY <1>2 DEF QueueInv, QueueTypeOK, FrontBatch
  <2>. QED BY <1>3, <2>1, Zenon DEF CountsCover
<1>6. n \in 0..Len(front)
  BY <1>2, <1>3
<1>7. /\ WakeupEvents(SubSeq(front, 1, n)) \in 0..n /\ WakeupEvents(Drop(front, n)) \in Nat
      /\ WakeupEvents(front) = WakeupEvents(SubSeq(front, 1, n)) + WakeupEvents(Drop(front, n))
  BY <1>4, <1>6, WakeupEventsCut, Zenon
<1>8. lost = WakeupEvents(SubSeq(front, 1, n))
  BY <1>3, Zenon
<1>9. lost \in Nat /\ lost <= WakeupEvents(front) /\ WakeupEvents(front) \in Nat
  BY <1>7, <1>8
<1>10. CASE Len(front) > QuantumCount
  <2>1. ReferencesOfFailedWrite = lost
    BY <1>2, <1>3, <1>8, <1>10, Zenon DEF ReferencesOfFailedWrite
  <2>. QED BY <1>3, <1>4, <1>5, <1>9, <2>1, QueueAssumption
<1>11. CASE ~(Len(front) > QuantumCount)
  <2>1. ReferencesOfFailedWrite = count /\ n = Len(front)
    BY <1>2, <1>3, <1>11 DEF ReferencesOfFailedWrite
  <2>2. lost = WakeupEvents(front)
    <3>1. SubSeq(front, 1, Len(front)) = front
      BY <1>4
    <3>. QED BY <1>8, <2>1, <3>1, Zenon
  <2>. QED BY <1>3, <1>4, <1>5, <1>9, <2>1, <2>2, QueueAssumption
<1>. QED BY <1>10, <1>11

\* To settle nothing changes nothing.
LEMMA DropOfNothing ==
  ASSUME WakelockProofs!TypeInv, NEW running, Wakelock!DropPendingEvents(0, 0, running),
         UNCHANGED runVars
  PROVE  UNCHANGED Wakelock!vars
<1>1. /\ mWakelockRefCount \in Nat /\ wakeLockHeld \in BOOLEAN /\ unacked \in Nat
      /\ outstanding \in Nat /\ unreferenced \in Nat /\ stranded \in Nat /\ overReleased \in BOOLEAN
  BY WakelockTypes
<1>2. Wakelock!AtMost(0, unreferenced) = 0 /\ Wakelock!AtMost(mWakelockRefCount, 0) = 0
  BY <1>1 DEF Wakelock!AtMost
<1>3. unacked' = unacked /\ unreferenced' = unreferenced /\ outstanding' = outstanding /\ counted' = counted
  BY <1>1, <1>2 DEF Wakelock!DropPendingEvents, Wakelock!SettleEvents
<1>4. mWakelockRefCount' = mWakelockRefCount /\ stranded' = stranded
  BY <1>1, <1>2 DEF Wakelock!DropPendingEvents, Wakelock!SettleEvents, Wakelock!DecrementRefCount,
     Wakelock!refVars
<1>5. wakeLockHeld' = wakeLockHeld
  <2>1. CASE running /\ mWakelockRefCount # 0
    <3>1. UNCHANGED Wakelock!refVars \/ wakeLockHeld' = (wakeLockHeld /\ mWakelockRefCount' # 0)
      BY <2>1, Zenon DEF Wakelock!DropPendingEvents, Wakelock!SettleEvents, Wakelock!DecrementRefCount
    <3>2. wakeLockHeld' = (wakeLockHeld /\ mWakelockRefCount' # 0) => wakeLockHeld' = wakeLockHeld
      BY <1>1, <1>4, <2>1, Zenon
    <3>. QED BY <3>1, <3>2 DEF Wakelock!refVars
  <2>2. CASE ~(running /\ mWakelockRefCount # 0)
    BY <2>2 DEF Wakelock!DropPendingEvents, Wakelock!SettleEvents, Wakelock!DecrementRefCount,
       Wakelock!refVars
  <2>. QED BY <2>1, <2>2
<1>6. overReleased' = overReleased
  <2>1. ~(0 > 0 - Wakelock!AtMost(0, unreferenced))
    BY <1>2
  <2>2. overReleased' = overReleased \/ overReleased' = (overReleased \/ FALSE)
    BY <2>1, Zenon DEF Wakelock!DropPendingEvents, Wakelock!SettleEvents
  <2>. QED BY <1>1, <2>2, Zenon
<1>. QED BY <1>3, <1>4, <1>5, <1>6 DEF Wakelock!DropPendingEvents, runVars, Wakelock!vars,
     Wakelock!clockVars, Wakelock!refVars, Wakelock!ackVars, Wakelock!workerVars,
     Wakelock!clientVars, Wakelock!initVars, Wakelock!ghostVars

\* The events of a batch for which there is no room are the last of it.
LEMMA LostOfBatch ==
  ASSUME QueueTypeOK, NEW wakes \in Seq(BOOLEAN), Len(wakes) \in 1..MaxBatch,
         posted + Len(wakes) <= MaxEvents,
         NEW direct, NEW m, m = Kept(NewEvents(wakes), direct), m \in 0..Len(wakes)
  PROVE  /\ WakeupEvents(Lost(NewEvents(wakes), direct)) \in 0..Wakes(wakes)
         /\ WakeupEvents(SubSeq(NewEvents(wakes), 1, m)) \in Nat
         /\ WakeupEvents(SubSeq(NewEvents(wakes), 1, m)) + WakeupEvents(Lost(NewEvents(wakes), direct))
              = Wakes(wakes)
<1>1. PICK events : events = NewEvents(wakes)
  OBVIOUS
<1>2. events \in Seq(Event) /\ Len(events) = Len(wakes) /\ m \in 0..Len(events)
  BY <1>1, NewEventsLaws
<1>3. Lost(events, direct) = Drop(events, m)
  <2>1. CASE Overflows(Len(Drop(events, direct)))
    BY <1>1, <2>1, Zenon DEF Kept, Lost
  <2>2. CASE ~Overflows(Len(Drop(events, direct)))
    <3>1. m = Len(events) /\ Lost(events, direct) = <<>>
      BY <1>1, <2>2, Zenon DEF Kept, Lost
    <3>2. Drop(events, Len(events)) = <<>>
      BY <1>2 DEF Drop
    <3>. QED BY <3>1, <3>2, Zenon
  <2>. QED BY <2>1, <2>2
<1>4. /\ WakeupEvents(SubSeq(events, 1, m)) \in 0..m /\ WakeupEvents(Drop(events, m)) \in Nat
      /\ WakeupEvents(events) = WakeupEvents(SubSeq(events, 1, m)) + WakeupEvents(Drop(events, m))
  BY <1>2, WakeupEventsCut, Zenon
<1>5. WakeupEvents(events) = Wakes(wakes)
  BY <1>1, WakesOfNewEvents, Zenon
<1>. QED BY <1>1, <1>3, <1>4, <1>5

\* What a write does to the events, and to the accounts of the wake lock.
LEMMA WriteLaws ==
  ASSUME DeliveryInv, NEW c \in Clients, NEW direct, Write(c, direct)
  PROVE  \E wakes \in Seq(BOOLEAN), m \in Nat, dropped \in 0..MaxBatch :
           /\ wakes = batch[c] /\ wakeups[c] = Wakes(wakes) /\ Len(wakes) \in 1..MaxBatch
           /\ PostEventsToMessageQueue(wakes, direct) /\ Wakelock!WriteEvents(c, dropped)
           /\ m \in 0..Len(wakes) /\ OnTheWay' = OnTheWay \o SubSeq(NewEvents(wakes), 1, m)
           /\ SubSeq(NewEvents(wakes), 1, m) \in Seq(Event)
           /\ WakeupEvents(SubSeq(NewEvents(wakes), 1, m)) + dropped = Wakes(wakes)
           /\ WakeupEvents(SubSeq(NewEvents(wakes), 1, m)) \in Nat
<1>1. PICK wakes \in Seq(BOOLEAN) :
        wakes = batch[c] /\ wakeups[c] = Wakes(wakes) /\ Len(wakes) \in 1..MaxBatch
  BY DEF DeliveryInv, BatchesHeld, HasBatch, Write, Wakelock!WriteEvents
<1>2. /\ PostEventsToMessageQueue(wakes, direct) /\ QueueInv /\ QueueTypeOK
      /\ Wakelock!WriteEvents(c, WakeupEvents(Lost(NewEvents(wakes), direct)))
  BY <1>1, Zenon DEF Write, DeliveryInv, QueueInv
<1>3. PICK m \in Nat : m = Kept(NewEvents(wakes), direct) /\ m \in 0..Len(wakes)
  <2>1. Kept(NewEvents(wakes), direct) \in 0..Len(wakes)
    BY <1>1, <1>2, PostExtendsTheWay, Zenon
  <2>. QED BY <2>1
<1>4. OnTheWay' = OnTheWay \o SubSeq(NewEvents(wakes), 1, m)
  BY <1>1, <1>2, <1>3, PostExtendsTheWay, Zenon
<1>5. posted + Len(wakes) <= MaxEvents
  BY <1>2 DEF PostEventsToMessageQueue
<1>6. SubSeq(NewEvents(wakes), 1, m) \in Seq(Event)
  <2>1. NewEvents(wakes) \in Seq(Event) /\ Len(NewEvents(wakes)) = Len(wakes)
    BY <1>2, <1>5, NewEventsLaws
  <2>2. m \in 0..Len(NewEvents(wakes))
    BY <1>3, <2>1
  <2>. QED BY <2>1, <2>2, CutLaws, Zenon
<1>7. PICK kept, dropped : kept = WakeupEvents(SubSeq(NewEvents(wakes), 1, m))
                           /\ dropped = WakeupEvents(Lost(NewEvents(wakes), direct))
  OBVIOUS
<1>8. dropped \in 0..Wakes(wakes) /\ kept \in Nat /\ kept + dropped = Wakes(wakes)
  BY <1>1, <1>2, <1>3, <1>5, <1>7, LostOfBatch, Zenon
<1>9. dropped \in 0..MaxBatch
  <2>1. Wakes(wakes) \in 0..MaxBatch
    BY <1>1, WakesBounded
  <2>. QED BY <1>8, <2>1, QueueAssumption
<1>. QED BY <1>1, <1>2, <1>3, <1>4, <1>6, <1>7, <1>8, <1>9, Zenon

LEMMA WayLaws ==
  ASSUME QueueInv
  PROVE  /\ WakeupEvents(OnTheWay) \in Nat /\ WakeupEvents(OnTheWay)' = WakeupEvents(OnTheWay')
         /\ WakeupEvents(mEventQueue) \in Nat /\ WakeupEvents(Waiting) \in Nat
         /\ WakeupEvents(OnTheWay) = WakeupEvents(mEventQueue) + WakeupEvents(Waiting)
<1>1. mEventQueue \in Seq(Event) /\ Waiting \in Seq(Event)
  BY OnTheWayType
<1>2. WakeupEvents(OnTheWay) = WakeupEvents(mEventQueue) + WakeupEvents(Waiting)
  BY <1>1, WakeupEventsConcat, Zenon DEF OnTheWay
<1>3. /\ WakeupEvents(mEventQueue) \in 0..Len(mEventQueue)
      /\ WakeupEvents(Waiting) \in 0..Len(Waiting)
  BY <1>1, WakeupEventsBounded, Zenon
<1>4. WakeupEvents(mEventQueue) \in Nat /\ WakeupEvents(Waiting) \in Nat
  BY <1>3
<1>5. WakeupEvents(OnTheWay)' = WakeupEvents(OnTheWay')
  BY Zenon DEF WakeupEvents
<1>. QED BY <1>2, <1>4, <1>5

LEMMA WayNat == QueueInv => WakeupEvents(OnTheWay) \in Nat
BY WayLaws

\* What the new event FMQ finds waiting was posted since the restart, and is owed.
LEMMA KeptAreOwed ==
  ASSUME DeliveryInv, ReplaceQueues
  PROVE  Waiting = PendingEvents /\ WakeupEvents(PendingEvents) \in 0..unacked
<1>1. QueueInv /\ AcksOwed /\ unacked \in Nat
  BY WakelockTypes DEF DeliveryInv
<1>2. Waiting = PendingEvents
  BY <1>1 DEF ReplaceQueues, QueueInv, WriterJoined, Waiting
<1>3. PICK q, w : q = WakeupEvents(mEventQueue) /\ w = WakeupEvents(Waiting)
  OBVIOUS
<1>4. q \in Nat /\ w \in Nat /\ WakeupEvents(OnTheWay) = q + w
  BY <1>1, <1>3, WayLaws
<1>5. w \in 0..unacked
  BY <1>1, <1>4 DEF AcksOwed, Owed
<1>. QED BY <1>2, <1>3, <1>5, Zenon

\* A wake lock step of its own, or nothing.
LEMMA WakelockPart ==
  ASSUME DeliveryInv, [Next]_vars
  PROVE  [Wakelock!Next]_(Wakelock!vars)
<1> USE DEF lockVars, runVars, Wakelock!vars, Wakelock!clockVars, Wakelock!refVars, Wakelock!ackVars,
        Wakelock!workerVars, Wakelock!clientVars, Wakelock!initVars, Wakelock!ghostVars,
        WakelockBinder, WriterRuns
<1>1. ASSUME NEW c \in Clients, NEW wakes \in BatchKinds, Create(c, wakes)
      PROVE  Wakelock!Next
  <2>1. Wakes(wakes) \in 0..MaxBatch
    BY BatchKindsAssumption, WakesBounded
  <2>. QED BY <1>1, <2>1, Zenon DEF Create, Wakelock!Next, Wakelock!Client
<1>2. ASSUME NEW c \in Clients, ClientStep(c) PROVE Wakelock!Next
  BY <1>2, Zenon DEF ClientStep, Wakelock!Next, Wakelock!Client
<1>3. ASSUME NEW c \in Clients, NEW direct, Write(c, direct) PROVE Wakelock!Next
  BY <1>3, WriteLaws, Zenon DEF Wakelock!Next, Wakelock!Client
<1>4. CASE PendingWritesStep
  <2>1. CASE PendingWritesExit
    <3>1. Wakelock!PendingWritesExit
      BY <1>4, <2>1 DEF PendingWritesStep, PendingWritesExit, Wakelock!PendingWritesExit
    <3>. QED BY <3>1, Zenon DEF Wakelock!Next
  <2>2. CASE ~PendingWritesExit
    BY <1>4, <2>2 DEF PendingWritesStep, TakeFrontBatch, WritePending, WriteFails, PopWritten
  <2>. QED BY <2>1, <2>2
<1>5. CASE DropFailedWrite
  <2>1. DropFailed /\ UNCHANGED <<runVars, WriterRuns>>
    BY <1>5 DEF DropFailedWrite, DropFailed, AfterFailedWrite
  <2>2. PICK lost, delta : /\ lost = WakeupEvents(SubSeq(FrontBatch.events, 1, numToWrite))
                           /\ delta = ReferencesOfFailedWrite
    OBVIOUS
  <2>3. lost \in 0..MaxBatch /\ delta \in lost..MaxBatch
    BY <2>1, <2>2, FailedWriteReferences DEF DeliveryInv
  <2>4. CASE FrontBatch.numWakeupEvents > 0
    <3>1. PICK running \in {mThreadsRun, TRUE} : Wakelock!DropPendingEvents(lost, delta, running)
      BY <1>5, <2>2, <2>4, Zenon DEF DropFailedWrite
    <3>2. CASE delta > 0
      <4>1. running \in BOOLEAN
        BY DEF DeliveryInv, QueueInv, QueueTypeOK
      <4>. QED BY <2>3, <3>1, <3>2, <4>1, Zenon DEF Wakelock!Next, Wakelock!PendingWrites
    <3>3. CASE ~(delta > 0)
      <4>1. lost = 0 /\ delta = 0
        BY <2>3, <3>3, QueueAssumption
      <4>2. WakelockProofs!TypeInv
        BY DEF DeliveryInv
      <4>. QED BY <2>1, <3>1, <4>1, <4>2, DropOfNothing, Zenon
    <3>. QED BY <3>2, <3>3
  <2>5. CASE ~(FrontBatch.numWakeupEvents > 0)
    BY <1>5, <2>1, <2>5 DEF DropFailedWrite
  <2>. QED BY <2>4, <2>5
<1>6. ASSUME NEW n \in 1..QuantumCount, Read(n) PROVE UNCHANGED Wakelock!vars
  BY <1>6 DEF Read, FrameworkRead, threadVars
<1>7. ASSUME NEW k \in 1..readWake, Acknowledge(k) PROVE Wakelock!Next
  <2>1. k \in 1..unacked
    <3>1. readWake \in Nat /\ unacked \in Nat
      BY WakelockTypes DEF DeliveryInv, AcksOwed
    <3>. QED BY <1>7, <3>1 DEF Acknowledge, Wakelock!FrameworkAck
  <2>. QED BY <1>7, <2>1, Zenon DEF Acknowledge, Wakelock!Next, Wakelock!Framework
<1>8. CASE WakelockStep
  BY <1>8, Zenon DEF WakelockStep, Wakelock!Next
<1>9. CASE Stop \/ Initialize
  <2>1. CASE ReplaceQueues /\ Wakelock!ReplaceQueues(WakeupEvents(PendingEvents))
    <3>1. WakeupEvents(PendingEvents) \in 0..unacked
      BY <2>1, KeptAreOwed
    <3>. QED BY <2>1, <3>1, Zenon DEF Wakelock!Next, Wakelock!InitializeSteps
  <2>2. CASE (ClearPending \/ ResetSize) /\ UNCHANGED lockVars
    <3>1. UNCHANGED <<WakelockBinder, WriterRuns, mThreadsRun, inits, asleep>>
      BY <2>2 DEF ClearPending, ResetSize, threadVars
    <3>. QED BY <2>2, <3>1
  <2>. QED BY <1>9, <2>1, <2>2, Zenon DEF Stop, Initialize, Wakelock!Next, Wakelock!InitializeSteps
<1>10. CASE UNCHANGED vars
  BY <1>10 DEF vars, queueVars, threadVars
<1>. QED BY <1>1, <1>2, <1>3, <1>4, <1>5, <1>6, <1>7, <1>8, <1>9, <1>10, Zenon DEF Next

(***************************************************************************)
(* The counts of the waiting batches.                                      *)
(***************************************************************************)

LEMMA PostKeepsCounts ==
  ASSUME QueueTypeOK, CountsCover, NEW wakes \in Seq(BOOLEAN), NEW direct,
         PostEventsToMessageQueue(wakes, direct)
  PROVE  CountsCover'
<1>1. PICK events, left, new :
        /\ events = NewEvents(wakes) /\ left = Drop(events, direct)
        /\ new = [events |-> left, numWakeupEvents |-> WakeupEvents(events)]
  OBVIOUS
<1>2. events \in Seq(Event) /\ direct \in 0..Len(events)
  <2>1. posted + Len(wakes) <= MaxEvents
    BY DEF PostEventsToMessageQueue
  <2>2. events \in Seq(Event)
    BY <1>1, <2>1, NewEventsLaws
  <2>3. direct \in {0, WrittenNow(events)}
    BY <1>1, Zenon DEF PostEventsToMessageQueue
  <2>. QED BY <2>2, <2>3, DirectLaws
<1>3. WakeupEvents(left) <= WakeupEvents(events)
  <2>1. /\ WakeupEvents(SubSeq(events, 1, direct)) \in 0..direct /\ WakeupEvents(left) \in Nat
        /\ WakeupEvents(events) = WakeupEvents(SubSeq(events, 1, direct)) + WakeupEvents(left)
    BY <1>1, <1>2, WakeupEventsCut, Zenon
  <2>. QED BY <2>1
<1>4. \/ mPendingWriteEventsQueue' = Append(mPendingWriteEventsQueue, new)
      \/ mPendingWriteEventsQueue' = mPendingWriteEventsQueue
  <2>1. IF left # <<>> /\ ~Overflows(Len(left)) THEN PushPending(left, WakeupEvents(events))
                                                ELSE UNCHANGED <<pendingVars, asleep>>
    BY <1>1, Zenon DEF PostEventsToMessageQueue, Left
  <2>. QED BY <1>1, <2>1 DEF PushPending, pendingVars
<1>5. PICK queue : queue = mPendingWriteEventsQueue
  OBVIOUS
<1>6. queue \in Seq(Batch) /\ new.events = left /\ new.numWakeupEvents = WakeupEvents(events)
  BY <1>1, <1>5 DEF QueueTypeOK, Batch
<1>7. CASE mPendingWriteEventsQueue' = Append(queue, new)
  <2>1. PICK longer : longer = Append(queue, new)
    OBVIOUS
  <2>2. /\ Len(longer) = Len(queue) + 1 /\ Len(queue) \in Nat /\ longer[Len(queue) + 1] = new
        /\ \A b \in 1..Len(queue) : longer[b] = queue[b]
    BY <1>6, <2>1
  <2>3. ASSUME NEW b \in 1..Len(longer)
        PROVE  WakeupEvents(longer[b].events) <= longer[b].numWakeupEvents
    <3>1. CASE b = Len(queue) + 1
      BY <1>3, <1>6, <2>2, <3>1
    <3>2. CASE b # Len(queue) + 1
      <4>1. b \in 1..Len(queue) /\ longer[b] = queue[b]
        BY <2>2, <3>2
      <4>. QED BY <1>5, <4>1, Zenon DEF CountsCover
    <3>. QED BY <3>1, <3>2
  <2>. QED BY <1>7, <2>1, <2>3, Zenon DEF CountsCover
<1>8. CASE mPendingWriteEventsQueue' = mPendingWriteEventsQueue
  BY <1>8, Zenon DEF CountsCover
<1>. QED BY <1>4, <1>5, <1>7, <1>8

LEMMA PopKeepsCounts ==
  ASSUME QueueInv, CountsCover, PopWritten
  PROVE  CountsCover'
<1>1. mPendingWriteEventsQueue # <<>>
  BY DEF QueueInv, SingleWriter, PopWritten
<1>2. PICK queue, front, rest : queue = mPendingWriteEventsQueue /\ front = FrontBatch /\ rest = Batches
  OBVIOUS
<1>3. /\ queue \in Seq(Batch) /\ Len(queue) \in Nat \ {0} /\ front \in Batch /\ front = queue[1]
      /\ rest \in Seq(Batch) /\ Len(rest) = Len(queue) - 1
      /\ \A b \in 1..Len(rest) : rest[b] = queue[b + 1]
  <2>1. queue \in Seq(Batch) /\ queue # <<>> /\ front = Head(queue) /\ rest = Tail(queue)
    BY <1>1, <1>2 DEF QueueInv, QueueTypeOK, Batch, FrontBatch, Batches
  <2>2. queue \in Seq(Batch) /\ Len(queue) \in Nat \ {0} /\ front = queue[1]
    BY <2>1
  <2>3. /\ rest \in Seq(Batch) /\ Len(rest) = Len(queue) - 1
        /\ \A b \in 1..Len(rest) : rest[b] = queue[b + 1]
    BY <2>1, <2>2
  <2>. QED BY <2>2, <2>3
<1>4. \A b \in 1..Len(queue) : WakeupEvents(queue[b].events) <= queue[b].numWakeupEvents
  BY <1>2 DEF CountsCover
<1>5. CASE ~(Len(front.events) > QuantumCount)
  <2>1. mPendingWriteEventsQueue' = rest
    BY <1>2, <1>5 DEF PopWritten
  <2>2. ASSUME NEW b \in 1..Len(rest) PROVE WakeupEvents(rest[b].events) <= rest[b].numWakeupEvents
    <3>1. b + 1 \in 1..Len(queue) /\ rest[b] = queue[b + 1]
      BY <1>3
    <3>. QED BY <1>4, <3>1, Zenon
  <2>. QED BY <2>1, <2>2, Zenon DEF CountsCover
<1>6. CASE Len(front.events) > QuantumCount
  <2>1. PICK new, shorter : /\ new = [front EXCEPT !.events = Drop(@, QuantumCount)]
                            /\ shorter = <<new>> \o rest
    OBVIOUS
  <2>2. mPendingWriteEventsQueue' = shorter
    BY <1>2, <1>6, <2>1 DEF PopWritten
  <2>3. /\ new.events = Drop(front.events, QuantumCount)
        /\ new.numWakeupEvents = front.numWakeupEvents /\ front.numWakeupEvents \in Nat
        /\ front.events \in Seq(Event) /\ QuantumCount \in 0..Len(front.events)
    BY <1>3, <1>6, <2>1, QueueAssumption DEF Batch
  <2>4. WakeupEvents(new.events) <= new.numWakeupEvents
    <3>1. /\ WakeupEvents(SubSeq(front.events, 1, QuantumCount)) \in 0..QuantumCount
          /\ WakeupEvents(new.events) \in Nat
          /\ WakeupEvents(front.events) = WakeupEvents(SubSeq(front.events, 1, QuantumCount))
                                          + WakeupEvents(new.events)
      BY <2>3, WakeupEventsCut, Zenon
    <3>2. WakeupEvents(front.events) <= front.numWakeupEvents
      <4>1. 1 \in 1..Len(queue)
        BY <1>3
      <4>. QED BY <1>3, <1>4, <4>1, Zenon
    <3>3. PICK x, y, z, n : /\ x = WakeupEvents(SubSeq(front.events, 1, QuantumCount))
                            /\ y = WakeupEvents(new.events) /\ z = WakeupEvents(front.events)
                            /\ n = front.numWakeupEvents
      OBVIOUS
    <3>4. x \in Nat /\ y \in Nat /\ n \in Nat /\ z = x + y /\ z <= n
      BY <2>3, <3>1, <3>2, <3>3, QueueAssumption
    <3>5. y <= n
      BY ONLY <3>4
    <3>. QED BY <2>3, <3>3, <3>5, Zenon
  <2>5. /\ Len(shorter) = Len(rest) + 1 /\ shorter[1] = new
        /\ \A b \in 1..Len(rest) + 1 : b # 1 => shorter[b] = rest[b - 1]
    BY <1>3, <2>1
  <2>6. ASSUME NEW b \in 1..Len(shorter)
        PROVE  WakeupEvents(shorter[b].events) <= shorter[b].numWakeupEvents
    <3>1. CASE b = 1
      BY <2>4, <2>5, <3>1
    <3>2. CASE b # 1
      <4>1. b \in 1..Len(queue) /\ shorter[b] = queue[b]
        <5>1. b - 1 \in 1..Len(rest) /\ (b - 1) + 1 = b /\ b \in 1..Len(rest) + 1
          BY <1>3, <2>5, <3>2
        <5>2. rest[b - 1] = queue[(b - 1) + 1] /\ shorter[b] = rest[b - 1]
          BY <1>3, <2>5, <3>2, <5>1, Zenon
        <5>. QED BY <1>3, <5>1, <5>2
      <4>. QED BY <1>4, <4>1, Zenon
    <3>. QED BY <3>1, <3>2
  <2>. QED BY <2>2, <2>6, Zenon DEF CountsCover
<1>. QED BY <1>5, <1>6

LEMMA CountsStep ==
  ASSUME QueueInv, CountsCover, BatchesHeld, [Next]_vars
  PROVE  CountsCover'
<1>0. QueueTypeOK
  BY DEF QueueInv
<1>1. ASSUME NEW wakes \in Seq(BOOLEAN), NEW direct, PostEventsToMessageQueue(wakes, direct)
      PROVE  CountsCover'
  BY <1>0, <1>1, PostKeepsCounts, Zenon
<1>2. CASE Post
  <2>1. PICK n \in 1..MaxBatch : \E direct \in 0..n :
               PostEventsToMessageQueue([i \in 1..n |-> FALSE], direct)
    BY <1>2 DEF Post
  <2>2. [i \in 1..n |-> FALSE] \in Seq(BOOLEAN)
    BY QueueAssumption, IsASeq
  <2>. QED BY <1>1, <2>1, <2>2, Zenon
<1>3. CASE PopWritten
  BY <1>3, PopKeepsCounts
<1>4. CASE TakeFrontBatch \/ WritePending \/ WriteFails \/ DropFailed \/ PendingWritesExit
  BY <1>4 DEF TakeFrontBatch, WritePending, WriteFails, DropFailed, PendingWritesExit, pendingVars,
     CountsCover
<1>5. ASSUME NEW n, FrameworkRead(n) PROVE CountsCover'
  BY <1>5 DEF FrameworkRead, pendingVars, CountsCover
<1>6. ASSUME \/ StopThreads \/ WakelockThreadNotified \/ JoinThreads
             \/ ResetSize \/ ReplaceQueues \/ StartThreads
      PROVE  CountsCover'
  BY <1>6 DEF StopThreads, WakelockThreadNotified, JoinThreads, ResetSize, ReplaceQueues, StartThreads,
     pendingVars, CountsCover
<1>7. CASE ClearPending
  BY <1>7 DEF ClearPending, CountsCover
<1>8. CASE UNCHANGED queueVars
  BY <1>8 DEF queueVars, pendingVars, CountsCover
<1>9. CASE [QueueNext]_queueVars
  <2>1. CASE PendingWritesThread
    BY <1>3, <1>4, <2>1, Zenon DEF PendingWritesThread
  <2>2. CASE StopThreads \/ WakelockThreadNotified \/ InitializeSteps
    BY <1>6, <1>7, <2>2, Zenon DEF InitializeSteps
  <2>. QED BY <1>2, <1>5, <1>8, <1>9, <2>1, <2>2, Zenon DEF QueueNext
<1>. QED BY <1>1, <1>9, QueuePart, Zenon

(***************************************************************************)
(* The batches the clients hold.                                           *)
(***************************************************************************)
LEMMA BatchesStep ==
  ASSUME WakelockProofs!TypeInv, BatchesHeld, [Next]_vars
  PROVE  BatchesHeld'
<1>0. pc \in [Clients -> WakelockProofs!ClientStates] /\ wakeups \in [Clients -> 0..MaxBatch]
  BY WakelockTypes
<1>1. ASSUME UNCHANGED <<pc, wakeups, batch>> PROVE BatchesHeld'
  BY <1>1 DEF BatchesHeld, HasBatch
<1>2. ASSUME NEW c \in Clients, NEW wakes \in BatchKinds, Create(c, wakes)
      PROVE  BatchesHeld'
  <2>1. Len(wakes) \in 1..MaxBatch /\ wakes \in Seq(BOOLEAN)
    BY BatchKindsAssumption
  <2>2. /\ batch' = [batch EXCEPT ![c] = wakes] /\ wakeups' = [wakeups EXCEPT ![c] = Wakes(wakes)]
        /\ \A d \in Clients : d # c => pc'[d] = pc[d]
    BY <1>0, <1>2 DEF Create, Wakelock!CreateScopedWakelock, Wakelock!Goto
  <2>3. batch' \in [Clients -> Seq(BOOLEAN)]
    BY <2>1, <2>2 DEF BatchesHeld
  <2>4. ASSUME NEW d \in Clients, HasBatch(d)'
        PROVE  Len(batch'[d]) \in 1..MaxBatch /\ wakeups'[d] = Wakes(batch'[d])
    <3>1. CASE d = c
      <4>1. batch'[d] = wakes /\ wakeups'[d] = Wakes(wakes)
        BY <1>0, <2>2, <3>1 DEF BatchesHeld
      <4>. QED BY <2>1, <4>1
    <3>2. CASE d # c
      <4>1. batch'[d] = batch[d] /\ wakeups'[d] = wakeups[d] /\ HasBatch(d)
        BY <1>0, <2>2, <2>4, <3>2 DEF BatchesHeld, HasBatch
      <4>. QED BY <4>1, Zenon DEF BatchesHeld
    <3>. QED BY <3>1, <3>2
  <2>5. \A d \in Clients : HasBatch(d)' => Len(batch'[d]) \in 1..MaxBatch /\ wakeups'[d] = Wakes(batch'[d])
    BY <2>4, Zenon
  <2>. QED BY <2>3, <2>5, Zenon DEF BatchesHeld, HasBatch, Wakes
<1>3. ASSUME NEW c \in Clients, ClientStep(c) PROVE BatchesHeld'
  <2>1. /\ batch' = batch /\ \A d \in Clients : HasBatch(d)' => HasBatch(d) /\ wakeups'[d] = wakeups[d]
    BY <1>0, <1>3 DEF ClientStep, Wakelock!AcquireScopedWakelock, Wakelock!PostEvents,
       Wakelock!LockEventQueue, Wakelock!CountWakeupEvents, Wakelock!DestroyScopedWakelock,
       Wakelock!ReleaseScopedWakelock, Wakelock!Goto, Wakelock!Finish, HasBatch
  <2>2. \A d \in Clients : HasBatch(d)' => Len(batch'[d]) \in 1..MaxBatch /\ wakeups'[d] = Wakes(batch'[d])
    BY <2>1, Zenon DEF BatchesHeld
  <2>3. batch' \in [Clients -> Seq(BOOLEAN)]
    BY <2>1, Zenon DEF BatchesHeld
  <2>. QED BY <2>2, <2>3, Zenon DEF BatchesHeld, HasBatch, Wakes
<1>4. ASSUME NEW c \in Clients, NEW direct, Write(c, direct) PROVE BatchesHeld'
  <2>1. /\ batch' = [batch EXCEPT ![c] = <<>>] /\ wakeups' = wakeups
        /\ pc' = [pc EXCEPT ![c] = "destroying"]
    BY <1>4 DEF Write, Wakelock!WriteEvents, Wakelock!Goto
  <2>2. ASSUME NEW d \in Clients, HasBatch(d)'
        PROVE  HasBatch(d) /\ batch'[d] = batch[d] /\ wakeups'[d] = wakeups[d]
    BY <1>0, <2>1, <2>2 DEF HasBatch, BatchesHeld
  <2>3. batch' \in [Clients -> Seq(BOOLEAN)]
    BY <2>1 DEF BatchesHeld
  <2>4. \A d \in Clients : HasBatch(d)' => Len(batch'[d]) \in 1..MaxBatch /\ wakeups'[d] = Wakes(batch'[d])
    BY <2>2, Zenon DEF BatchesHeld
  <2>. QED BY <2>3, <2>4, Zenon DEF BatchesHeld, HasBatch, Wakes
<1>5. CASE PendingWritesStep
  BY <1>1, <1>5 DEF PendingWritesStep, lockVars
<1>6. CASE DropFailedWrite
  BY <1>1, <1>6 DEF DropFailedWrite, Wakelock!DropPendingEvents, Wakelock!clientVars, lockVars
<1>7. ASSUME NEW n, Read(n) PROVE BatchesHeld'
  BY <1>1, <1>7 DEF Read, lockVars
<1>8. ASSUME NEW k, Acknowledge(k) PROVE BatchesHeld'
  BY <1>1, <1>8 DEF Acknowledge, Wakelock!FrameworkAck, Wakelock!clientVars
<1>9. CASE WakelockStep
  BY <1>1, <1>9 DEF WakelockStep, Wakelock!WakelockThread, Wakelock!WaitForAcks,
     Wakelock!TimeoutSharedWakelock, Wakelock!ReadAcks, Wakelock!ReadTimeout,
     Wakelock!WakelockThreadExit, Wakelock!Tick, Wakelock!clientVars
<1>10. CASE Stop \/ Initialize
  BY <1>1, <1>10 DEF Stop, Initialize, Wakelock!StopThreads, Wakelock!ResetStopped,
     Wakelock!ReplaceQueues, Wakelock!StartThreads, Wakelock!clientVars, lockVars
<1>11. CASE UNCHANGED vars
  BY <1>1, <1>11 DEF vars, lockVars
<1>. QED BY <1>2, <1>3, <1>4, <1>5, <1>6, <1>7, <1>8, <1>9, <1>10, <1>11, Zenon DEF Next

(***************************************************************************)
(* The acknowledgements owed.                                              *)
(***************************************************************************)
\* A step that changes none of it.
LEMMA OwedFrame ==
  ASSUME QueueInv, AcksOwed, OnTheWay' = OnTheWay,
         UNCHANGED <<mThreadsRun, binder, readWake, unacked>>
  PROVE  AcksOwed'
<1>1. WakeupEvents(OnTheWay)' = WakeupEvents(OnTheWay)
  BY WayLaws, Zenon
<1>. QED BY <1>1 DEF AcksOwed, Owed

LEMMA WriteKeepsOwed ==
  ASSUME DeliveryInv, NEW c \in Clients, NEW direct, Write(c, direct)
  PROVE  AcksOwed'
<1>1. PICK wakes \in Seq(BOOLEAN), m \in Nat, dropped \in 0..MaxBatch :
        /\ wakes = batch[c] /\ wakeups[c] = Wakes(wakes) /\ Len(wakes) \in 1..MaxBatch
        /\ PostEventsToMessageQueue(wakes, direct) /\ Wakelock!WriteEvents(c, dropped)
        /\ m \in 0..Len(wakes) /\ OnTheWay' = OnTheWay \o SubSeq(NewEvents(wakes), 1, m)
        /\ SubSeq(NewEvents(wakes), 1, m) \in Seq(Event)
        /\ WakeupEvents(SubSeq(NewEvents(wakes), 1, m)) + dropped = Wakes(wakes)
        /\ WakeupEvents(SubSeq(NewEvents(wakes), 1, m)) \in Nat
  BY WriteLaws, Zenon
<1>2. PICK added, w : added = SubSeq(NewEvents(wakes), 1, m) /\ w = WakeupEvents(added)
  OBVIOUS
<1>3. w \in Nat /\ dropped \in Nat /\ w + dropped = wakeups[c] /\ added \in Seq(Event)
  BY <1>1, <1>2, QueueAssumption
<1>4. unacked' = unacked + w /\ UNCHANGED <<mThreadsRun, binder, readWake>>
  <2>1. unacked' = unacked + (wakeups[c] - dropped) /\ unacked \in Nat
    BY <1>1, WakelockTypes DEF Wakelock!WriteEvents, DeliveryInv
  <2>2. UNCHANGED <<mThreadsRun, binder, readWake>>
    BY <1>1 DEF Write, PostEventsToMessageQueue
  <2>. QED BY <1>3, <2>1, <2>2
<1>5. WakeupEvents(OnTheWay)' = WakeupEvents(OnTheWay) + w /\ WakeupEvents(OnTheWay) \in Nat
  <2>1. OnTheWay \in Seq(Event) /\ QueueInv
    BY OnTheWayType DEF DeliveryInv
  <2>2. WakeupEvents(OnTheWay \o added) = WakeupEvents(OnTheWay) + WakeupEvents(added)
    BY <1>3, <2>1, WakeupEventsConcat, Zenon
  <2>. QED BY <1>1, <1>2, <2>1, <2>2, WayLaws, Zenon
<1>6. AcksOwed /\ unacked \in Nat
  BY WakelockTypes DEF DeliveryInv
<1>. QED BY <1>3, <1>4, <1>5, <1>6 DEF AcksOwed, Owed

LEMMA DropKeepsOwed ==
  ASSUME DeliveryInv, DropFailedWrite
  PROVE  AcksOwed'
<1>1. /\ QueueInv /\ CountsCover /\ DropFailed /\ UNCHANGED <<runVars, readWake>>
      /\ AcksOwed /\ unacked \in Nat
  BY WakelockTypes DEF DropFailedWrite, DropFailed, DeliveryInv
<1>2. PICK front, rest, n, lost :
        /\ front = FrontBatch.events /\ rest = EventsIn(Batches) /\ n = numToWrite
        /\ lost = WakeupEvents(SubSeq(front, 1, n))
  OBVIOUS
<1>3. /\ n \in 0..Len(front) /\ front \in Seq(Event) /\ rest \in Seq(Event)
      /\ PendingEvents = front \o rest
  BY <1>1, <1>2, WriterLaws, FrontLaws DEF DropFailed
<1>4. /\ OnTheWay = mEventQueue \o PendingEvents
      /\ OnTheWay' = mEventQueue \o Drop(PendingEvents, n)
      /\ mEventQueue \in Seq(Event) /\ PendingEvents \in Seq(Event)
  BY <1>1, <1>2, FailedWriteLoses, OnTheWayType
<1>5. PICK last : last = Drop(front, n)
  OBVIOUS
<1>6. last \in Seq(Event) /\ Drop(PendingEvents, n) = last \o rest /\ last \o rest \in Seq(Event)
  <2>1. last \in Seq(Event)
    BY <1>3, <1>5, CutLaws, Zenon
  <2>2. Drop(PendingEvents, n) = last \o rest
    BY <1>3, <1>5, DropConcat, Zenon
  <2>3. last \o rest \in Seq(Event)
    BY <1>3, <2>1, ConcatProperties, Zenon
  <2>. QED BY <2>1, <2>2, <2>3
<1>7. /\ WakeupEvents(front) = lost + WakeupEvents(last) /\ lost \in 0..n /\ WakeupEvents(last) \in Nat
  BY <1>2, <1>3, <1>5, WakeupEventsCut, Zenon
<1>8. PICK f, r, d, q : /\ f = WakeupEvents(front) /\ r = WakeupEvents(rest)
                        /\ d = WakeupEvents(last) /\ q = WakeupEvents(mEventQueue)
  OBVIOUS
<1>9. r \in Nat /\ q \in Nat /\ d \in Nat /\ lost \in Nat /\ f = lost + d
  <2>1. r \in 0..Len(rest) /\ q \in 0..Len(mEventQueue)
    BY <1>3, <1>4, <1>8, WakeupEventsBounded, Zenon
  <2>. QED BY <1>3, <1>7, <1>8, <2>1
<1>10. WakeupEvents(OnTheWay) = q + (f + r)
  <2>1. WakeupEvents(mEventQueue \o PendingEvents) = q + WakeupEvents(PendingEvents)
    BY <1>4, <1>8, WakeupEventsConcat, Zenon
  <2>2. WakeupEvents(front \o rest) = f + r
    BY <1>3, <1>8, WakeupEventsConcat, Zenon
  <2>. QED BY <1>3, <1>4, <2>1, <2>2, Zenon
<1>11. WakeupEvents(OnTheWay)' = q + (d + r)
  <2>1. WakeupEvents(mEventQueue \o (last \o rest)) = q + WakeupEvents(last \o rest)
    BY <1>4, <1>6, <1>8, WakeupEventsConcat, Zenon
  <2>2. WakeupEvents(last \o rest) = d + r
    BY <1>3, <1>6, <1>8, WakeupEventsConcat, Zenon
  <2>. QED BY <1>1, <1>4, <1>6, <2>1, <2>2, WayLaws, Zenon
<1>12. unacked' = unacked - lost
  <2>1. CASE FrontBatch.numWakeupEvents > 0
    <3>1. \E running : Wakelock!DropPendingEvents(lost, ReferencesOfFailedWrite, running)
      BY <1>2, <2>1, Zenon DEF DropFailedWrite
    <3>. QED BY <3>1 DEF Wakelock!DropPendingEvents
  <2>2. CASE ~(FrontBatch.numWakeupEvents > 0)
    <3>1. FrontBatch.numWakeupEvents \in 0..MaxBatch /\ (FrontBatch.numWakeupEvents = 0 => lost = 0)
      BY <1>1, <1>2, FailedWriteReferences
    <3>2. lost = 0
      BY <2>2, <3>1
    <3>3. unacked' = unacked
      BY <2>2 DEF DropFailedWrite, lockVars
    <3>. QED BY <1>1, <3>2, <3>3
  <2>. QED BY <2>1, <2>2
<1>. QED BY <1>1, <1>9, <1>10, <1>11, <1>12 DEF AcksOwed, Owed, runVars

\* What the framework reads, it goes on owing.
LEMMA ReadKeepsOwed ==
  ASSUME DeliveryInv, [Next]_vars, NEW n \in 1..QuantumCount, Read(n)
  PROVE  AcksOwed'
<1>1. /\ QueueInv /\ BatchesHeld /\ AcksOwed /\ unacked \in Nat
      /\ UNCHANGED <<runVars, unacked, Waiting>>
      /\ mEventQueue' = Drop(mEventQueue, n) /\ n \in 0..Len(mEventQueue)
      /\ readWake' = readWake + WakeupEvents(SubSeq(mEventQueue, 1, n))
  <2>1. QueueInv /\ BatchesHeld /\ AcksOwed /\ unacked \in Nat /\ QueueTypeOK
    BY WakelockTypes DEF DeliveryInv, QueueInv
  <2>2. FrameworkRead(n) /\ unacked' = unacked
        /\ readWake' = readWake + WakeupEvents(SubSeq(mEventQueue, 1, n))
    BY DEF Read, lockVars
  <2>. QED BY <2>1, <2>2, QueueAssumption
           DEF FrameworkRead, QueueTypeOK, Waiting, PendingEvents, pendingVars, threadVars
<1>2. QueueInv'
  BY <1>1, QueuePartKeepsInv
<1>3. /\ WakeupEvents(mEventQueue) \in Nat /\ WakeupEvents(Waiting) \in Nat
      /\ WakeupEvents(OnTheWay) = WakeupEvents(mEventQueue) + WakeupEvents(Waiting)
  BY <1>1, WayLaws
<1>4. WakeupEvents(OnTheWay)' = WakeupEvents(mEventQueue') + WakeupEvents(Waiting')
  <2>1. OnTheWay' = mEventQueue' \o Waiting'
    BY Zenon DEF OnTheWay
  <2>2. mEventQueue' \in Seq(Event) /\ Waiting' \in Seq(Event)
    <3>1. mEventQueue \in Seq(Event) /\ Waiting \in Seq(Event)
      BY <1>1, OnTheWayType
    <3>2. Drop(mEventQueue, n) \in Seq(Event)
      BY <1>1, <3>1, CutLaws, Zenon
    <3>. QED BY <1>1, <3>1, <3>2
  <2>3. WakeupEvents(mEventQueue' \o Waiting') = WakeupEvents(mEventQueue') + WakeupEvents(Waiting')
    BY <2>2, WakeupEventsConcat, Zenon
  <2>. QED BY <1>1, <2>1, <2>3, WayLaws, Zenon
<1>5. /\ WakeupEvents(SubSeq(mEventQueue, 1, n)) \in 0..n /\ WakeupEvents(Drop(mEventQueue, n)) \in Nat
      /\ WakeupEvents(mEventQueue) = WakeupEvents(SubSeq(mEventQueue, 1, n))
                                     + WakeupEvents(Drop(mEventQueue, n))
  <2>1. mEventQueue \in Seq(Event)
    BY <1>1, OnTheWayType
  <2>. QED BY <1>1, <2>1, WakeupEventsCut, Zenon
<1>6. PICK q, w, d, k : /\ q = WakeupEvents(mEventQueue) /\ w = WakeupEvents(Waiting)
                        /\ d = WakeupEvents(Drop(mEventQueue, n))
                        /\ k = WakeupEvents(SubSeq(mEventQueue, 1, n))
  OBVIOUS
<1>7. /\ k \in Nat /\ d \in Nat /\ w \in Nat /\ q = k + d
      /\ WakeupEvents(OnTheWay) = q + w /\ readWake' = readWake + k
  BY <1>1, <1>3, <1>5, <1>6
<1>8. WakeupEvents(OnTheWay)' = d + w
  BY <1>1, <1>4, <1>6, Zenon
<1>. QED BY <1>1, <1>7, <1>8 DEF AcksOwed, Owed, runVars

\* Of what is left when a run of the events is lost, no more is owed.
LEMMA RunLostOwesLess ==
  ASSUME NEW way \in Seq(Event), NEW i \in 0..Len(way), NEW n \in 0..Len(way) - i
  PROVE  WakeupEvents(SubSeq(way, 1, i) \o Drop(way, i + n)) <= WakeupEvents(way)
<1>1. PICK a, b, c, d : /\ a = SubSeq(way, 1, i) /\ b = Drop(way, i)
                        /\ c = SubSeq(way, 1, i + n) /\ d = Drop(way, i + n)
  OBVIOUS
<1>2. i + n \in 0..Len(way) /\ i <= i + n
  OBVIOUS
<1>3. /\ WakeupEvents(a) \in 0..i
      /\ WakeupEvents(c) \in 0..i + n /\ WakeupEvents(d) \in Nat
      /\ WakeupEvents(way) = WakeupEvents(c) + WakeupEvents(d)
  BY <1>1, <1>2, WakeupEventsCut, Zenon
<1>4. a \in Seq(Event) /\ c \in Seq(Event) /\ Len(c) = i + n /\ d \in Seq(Event)
  BY <1>1, <1>2, CutLaws, Zenon
<1>5. i \in 0..Len(c) /\ SubSeq(c, 1, i) = a
  BY <1>1, <1>2, <1>4
<1>6. /\ WakeupEvents(SubSeq(c, 1, i)) \in 0..i /\ WakeupEvents(Drop(c, i)) \in Nat
      /\ WakeupEvents(c) = WakeupEvents(SubSeq(c, 1, i)) + WakeupEvents(Drop(c, i))
  BY <1>4, <1>5, WakeupEventsCut, Zenon
<1>7. WakeupEvents(a \o d) = WakeupEvents(a) + WakeupEvents(d)
  BY <1>4, WakeupEventsConcat, Zenon
<1>8. PICK wa, wd, wc, wr : /\ wa = WakeupEvents(a) /\ wd = WakeupEvents(d)
                            /\ wc = WakeupEvents(c) /\ wr = WakeupEvents(Drop(c, i))
  OBVIOUS
<1>9. wa \in Nat /\ wd \in Nat /\ wr \in Nat /\ wc = wa + wr
      /\ WakeupEvents(way) = wc + wd /\ WakeupEvents(a \o d) = wa + wd
  <2>1. wa \in 0..i
    BY <1>3, <1>8, Zenon
  <2>2. wd \in Nat /\ wr \in Nat /\ wc = wa + wr
    BY <1>3, <1>5, <1>6, <1>8, Zenon
  <2>3. WakeupEvents(way) = wc + wd /\ WakeupEvents(a \o d) = wa + wd
    BY <1>3, <1>7, <1>8, Zenon
  <2>. QED BY <2>1, <2>2, <2>3
<1>10. wa + wd <= wc + wd
  BY ONLY <1>9
<1>. QED BY <1>1, <1>9, <1>10, Zenon

\* A restart loses events whose acknowledgements stay expected, until the new
\* queues owe nothing.
LEMMA RestartKeepsOwed ==
  ASSUME DeliveryInv, Stop \/ Initialize
  PROVE  AcksOwed'
<1>1. /\ QueueInv /\ AcksOwed /\ unacked \in Nat /\ readWake \in Nat
      /\ OnTheWay \in Seq(Event) /\ WakeupEvents(OnTheWay) \in Nat
      /\ WakeupEvents(OnTheWay)' = WakeupEvents(OnTheWay')
  BY WakelockTypes, WayLaws, OnTheWayType DEF DeliveryInv, AcksOwed
<1>2. ASSUME StopThreads \/ ClearPending, UNCHANGED <<readWake, unacked>>
      PROVE  AcksOwed'
  <2>1. ~mThreadsRun' /\ binder' # "starting"
    BY <1>1, <1>2 DEF StopThreads, ClearPending, DeliveryInv, RunsWhenIdle
  <2>2. PICK i \in 0..Len(OnTheWay) : \E n \in 0..Len(OnTheWay) - i :
          OnTheWay' = SubSeq(OnTheWay, 1, i) \o Drop(OnTheWay, i + n)
    <3>1. StopThreads \/ WakelockThreadNotified \/ InitializeSteps
      BY <1>2 DEF InitializeSteps
    <3>. QED BY <1>1, <3>1, RestartLoses
  <2>3. PICK way, less : way = WakeupEvents(OnTheWay) /\ less = WakeupEvents(OnTheWay)'
    OBVIOUS
  <2>4. less <= way
    BY <1>1, <2>2, <2>3, RunLostOwesLess, Zenon
  <2>5. way \in Nat /\ less \in Int
    <3>1. QueueInv'
      <4>1. [QueueNext]_queueVars
        BY <1>2, Zenon DEF QueueNext, InitializeSteps
      <4>. QED BY <1>1, <4>1, QueueInvStep, Zenon
    <3>2. QueueInv' => (WakeupEvents(OnTheWay) \in Nat)'
      BY WayNat, PTL
    <3>. QED BY <1>1, <2>3, <3>1, <3>2
  <2>. QED BY <1>1, <1>2, <2>1, <2>3, <2>4, <2>5 DEF AcksOwed, Owed
<1>3. CASE (JoinThreads \/ ResetSize \/ StartThreads) /\ UNCHANGED <<readWake, unacked>>
  <2>1. /\ OnTheWay' = OnTheWay
        /\ mThreadsRun' \/ binder' = "starting" => mThreadsRun \/ binder = "starting"
    <3>1. mEventQueue' = mEventQueue /\ PendingEvents' = PendingEvents
      BY <1>3 DEF JoinThreads, ResetSize, StartThreads, PendingEvents, pendingVars
    <3>2. pendingWritesThread' = "written" <=> pendingWritesThread = "written"
      BY <1>1, <1>3 DEF JoinThreads, ResetSize, StartThreads, QueueInv, WriterJoined, threadVars
    <3>3. numToWrite' = numToWrite
      BY <1>3 DEF JoinThreads, ResetSize, StartThreads, threadVars
    <3>4. OnTheWay' = OnTheWay
      BY <3>1, <3>2, <3>3 DEF OnTheWay, Waiting
    <3>. QED BY <1>3, <3>4 DEF JoinThreads, ResetSize, StartThreads
  <2>2. WakeupEvents(OnTheWay)' = WakeupEvents(OnTheWay)
    BY <1>1, <2>1, Zenon
  <2>. QED BY <1>1, <1>3, <2>1, <2>2 DEF AcksOwed, Owed
<1>4. CASE ReplaceQueues /\ Wakelock!ReplaceQueues(WakeupEvents(PendingEvents)) /\ readWake' = 0
  <2>1. /\ mEventQueue' = <<>> /\ Waiting' = Waiting
        /\ readWake' = 0 /\ unacked' = WakeupEvents(PendingEvents)
    BY <1>4 DEF ReplaceQueues, pendingVars, threadVars, Waiting, PendingEvents, Wakelock!ReplaceQueues
  <2>2. Waiting = PendingEvents /\ unacked' \in Nat
    BY <1>1, <1>4, <2>1, KeptAreOwed
  <2>3. OnTheWay' = Waiting
    <3>1. \A w \in Seq(Event) : <<>> \o w = w
      OBVIOUS
    <3>. QED BY <1>1, <2>1, <3>1, OnTheWayType, Zenon DEF OnTheWay
  <2>4. WakeupEvents(OnTheWay)' = unacked'
    BY <1>1, <2>1, <2>2, <2>3, Zenon
  <2>. QED BY <2>1, <2>2, <2>4 DEF AcksOwed, Owed
<1>5. UNCHANGED unacked \/ ReplaceQueues
  BY DEF Stop, Initialize, lockVars, Wakelock!StopThreads, Wakelock!ResetStopped,
     Wakelock!StartThreads, Wakelock!ackVars
<1>6. CASE ReplaceQueues
  BY <1>4, <1>6 DEF Stop, Initialize, ReplaceQueues, StopThreads, JoinThreads, ClearPending, ResetSize,
     StartThreads
<1>7. CASE ~ReplaceQueues
  BY <1>2, <1>3, <1>5, <1>7, Zenon DEF Stop, Initialize
<1>. QED BY <1>6, <1>7

LEMMA OwedStep ==
  ASSUME DeliveryInv, [Next]_vars
  PROVE  AcksOwed'
<1>1. QueueInv /\ AcksOwed /\ unacked \in Nat
  BY WakelockTypes DEF DeliveryInv
<1>2. ASSUME UNCHANGED <<pathVars, mThreadsRun, readWake, unacked>> PROVE AcksOwed'
  <2>1. OnTheWay' = OnTheWay
    BY <1>2 DEF pathVars, pendingVars, threadVars, OnTheWay, Waiting, PendingEvents
  <2>. QED BY <1>1, <1>2, <2>1, OwedFrame DEF pathVars
<1> USE DEF runVars, Wakelock!initVars, Wakelock!ackVars
<1>3. ASSUME NEW c \in Clients, NEW wakes \in BatchKinds, Create(c, wakes)
      PROVE  AcksOwed'
  BY <1>2, <1>3 DEF Create, Wakelock!CreateScopedWakelock
<1>4. ASSUME NEW c \in Clients, ClientStep(c) PROVE AcksOwed'
  BY <1>2, <1>4 DEF ClientStep, Wakelock!AcquireScopedWakelock, Wakelock!PostEvents,
     Wakelock!LockEventQueue, Wakelock!CountWakeupEvents, Wakelock!DestroyScopedWakelock,
     Wakelock!ReleaseScopedWakelock, Wakelock!IncrementRefCount
<1>5. ASSUME NEW c \in Clients, NEW direct, Write(c, direct) PROVE AcksOwed'
  BY <1>5, WriteKeepsOwed
<1>6. CASE PendingWritesStep
  <2>1. TakeFrontBatch \/ WritePending \/ WriteFails \/ PopWritten \/ PendingWritesExit
    BY <1>6 DEF PendingWritesStep
  <2>2. OnTheWay' = OnTheWay
    BY <1>1, <2>1, WriterKeepsTheWay
  <2>3. UNCHANGED <<mThreadsRun, binder, readWake, unacked>>
    BY <1>6, <2>1 DEF PendingWritesStep, lockVars, TakeFrontBatch, WritePending, WriteFails, PopWritten,
       PendingWritesExit
  <2>. QED BY <1>1, <2>2, <2>3, OwedFrame
<1>7. CASE DropFailedWrite
  BY <1>7, DropKeepsOwed
<1>8. ASSUME NEW n \in 1..QuantumCount, Read(n) PROVE AcksOwed'
  BY <1>8, ReadKeepsOwed
<1>9. ASSUME NEW k \in 1..readWake, Acknowledge(k) PROVE AcksOwed'
  <2>1. /\ readWake' = readWake - k /\ unacked' = unacked - k /\ k <= readWake
        /\ UNCHANGED <<pathVars, mThreadsRun>> /\ readWake \in Nat /\ k \in Nat
    BY <1>1, <1>9 DEF Acknowledge, Wakelock!FrameworkAck, AcksOwed
  <2>2. WakeupEvents(OnTheWay)' = WakeupEvents(OnTheWay) /\ WakeupEvents(OnTheWay) \in Nat
    <3>1. OnTheWay' = OnTheWay
      BY <2>1 DEF pathVars, pendingVars, threadVars, OnTheWay, Waiting, PendingEvents
    <3>. QED BY <1>1, <3>1, WayLaws, Zenon
  <2>. QED BY <1>1, <2>1, <2>2 DEF AcksOwed, Owed, pathVars
<1>10. CASE WakelockStep
  BY <1>2, <1>10 DEF WakelockStep, Wakelock!WakelockThread, Wakelock!WaitForAcks,
     Wakelock!TimeoutSharedWakelock, Wakelock!ReadAcks, Wakelock!ReadTimeout,
     Wakelock!WakelockThreadExit, Wakelock!Tick
<1>11. CASE Stop \/ Initialize
  BY <1>11, RestartKeepsOwed
<1>12. CASE UNCHANGED vars
  BY <1>2, <1>12 DEF vars, queueVars, pathVars, lockVars
<1>. QED BY <1>3, <1>4, <1>5, <1>6, <1>7, <1>8, <1>9, <1>10, <1>11, <1>12, Zenon DEF Next

LEMMA RunsStep ==
  ASSUME BatchesHeld, RunsWhenIdle, [Next]_vars
  PROVE  RunsWhenIdle'
<1> USE DEF RunsWhenIdle, runVars
<1>1. ASSUME NEW wakes, NEW direct, PostEventsToMessageQueue(wakes, direct) PROVE RunsWhenIdle'
  BY <1>1 DEF PostEventsToMessageQueue
<1>2. CASE QueueNext
  <2>1. CASE PendingWritesThread
    BY <2>1 DEF PendingWritesThread, TakeFrontBatch, WritePending, WriteFails, DropFailed, PopWritten,
       PendingWritesExit
  <2>2. StopThreads \/ WakelockThreadNotified \/ InitializeSteps => RunsWhenIdle'
    BY DEF StopThreads, WakelockThreadNotified, InitializeSteps, JoinThreads, ClearPending, ResetSize,
       ReplaceQueues, StartThreads
  <2>3. ASSUME NEW n, FrameworkRead(n) PROVE RunsWhenIdle'
    BY <2>3 DEF FrameworkRead
  <2>4. Post => RunsWhenIdle'
    BY <1>1, Zenon DEF Post
  <2>. QED BY <1>2, <2>1, <2>2, <2>3, <2>4, Zenon DEF QueueNext
<1>3. CASE UNCHANGED queueVars
  BY <1>3 DEF queueVars
<1>. QED BY <1>1, <1>2, <1>3, QueuePart, Zenon

(***************************************************************************)
(* The invariant holds in every reachable state.                           *)
(***************************************************************************)
LEMMA DeliveryInvInit == Init => DeliveryInv
<1> SUFFICES ASSUME Init PROVE DeliveryInv
  OBVIOUS
<1>1. QueueInv /\ WakelockProofs!TypeInv
  BY QueueInvInit, WakelockTypesInit DEF Init
<1>2. CountsCover
  BY DEF Init, QueueInit, CountsCover
<1>3. BatchesHeld
  BY DEF Init, Wakelock!Init, BatchesHeld, HasBatch
<1>4. AcksOwed
  <2>1. PendingEvents = <<>>
    BY PendingIsFlat, EventsInEmpty, Zenon DEF Init, QueueInit
  <2>2. Waiting = <<>>
    BY <2>1 DEF Init, QueueInit, Waiting
  <2>3. OnTheWay = <<>>
    <3>1. <<>> \o <<>> = <<>>
      BY ConcatLaws
    <3>. QED BY <2>2, <3>1, Zenon DEF Init, QueueInit, OnTheWay
  <2>4. WakeupEvents(OnTheWay) = 0
    BY <2>3, WakeupEventsEmpty, Zenon
  <2>. QED BY <2>4 DEF Init, QueueInit, Wakelock!Init, AcksOwed, Owed
<1>5. RunsWhenIdle
  BY DEF Init, QueueInit, RunsWhenIdle
<1>. QED BY <1>1, <1>2, <1>3, <1>4, <1>5 DEF DeliveryInv

LEMMA DeliveryInvStep == DeliveryInv /\ [Next]_vars => DeliveryInv'
<1> SUFFICES ASSUME DeliveryInv, [Next]_vars PROVE DeliveryInv'
  OBVIOUS
<1>1. QueueInv /\ WakelockProofs!TypeInv /\ CountsCover /\ BatchesHeld /\ RunsWhenIdle
  BY DEF DeliveryInv
<1>2. QueueInv'
  BY <1>1, QueuePartKeepsInv
<1>3. WakelockProofs!TypeInv'
  BY <1>1, WakelockPart, WakelockTypesStep, Zenon
<1>4. CountsCover' /\ BatchesHeld'
  BY <1>1, CountsStep, BatchesStep
<1>5. AcksOwed'
  BY OwedStep
<1>6. RunsWhenIdle'
  BY <1>1, RunsStep
<1>. QED BY <1>2, <1>3, <1>4, <1>5, <1>6 DEF DeliveryInv
-----------------------------------------------------------------------------
(***************************************************************************)
(* Theorems.                                                               *)
(***************************************************************************)

\* The inductive invariant holds in every reachable state.
THEOREM DeliveryInductive == Spec => []DeliveryInv
BY DeliveryInvInit, DeliveryInvStep, PTL DEF Spec

\* Whatever the event path does to the wake lock, the wake lock's module allows:
\* its theorems hold of the two together.
THEOREM WakelockImplemented == Spec => ImplementsSharedWakelock
<1>1. Init => Wakelock!Init
  BY DEF Init
<1>2. DeliveryInv /\ [Next]_vars => [Wakelock!Next]_(Wakelock!vars)
  BY WakelockPart, Zenon
<1>. QED BY <1>1, <1>2, DeliveryInductive, PTL DEF Spec, ImplementsSharedWakelock, Wakelock!Spec

\* The wake lock's accounts hold of the two together.
THEOREM ReferencesInductive == Spec => []WakelockProofs!RefInv
<1>1. Init => WakelockProofs!RefInv
  BY WakelockNumbers, SameInit, WakelockProofs!RefInvInit, Zenon DEF Init
<1>2. DeliveryInv /\ WakelockProofs!RefInv /\ [Next]_vars => WakelockProofs!RefInv'
  <2> SUFFICES ASSUME DeliveryInv, WakelockProofs!RefInv, [Next]_vars
               PROVE  WakelockProofs!RefInv'
    OBVIOUS
  <2>1. [WakelockProofs!Next]_(WakelockProofs!vars)
    BY WakelockPart, WakelockProofsStep, Zenon
  <2>2. WakelockProofs!LockInv /\ WakelockProofs!TypeInv /\ WakelockProofs!BinderInStep
    BY DEF WakelockProofs!RefInv, WakelockProofs!LockInv
  <2>3. WakelockProofs!TypeInv'
    BY <2>1, <2>2, WakelockNumbers, WakelockProofs!TypeInvStep, Zenon
  <2>4. WakelockProofs!ClientsInStep' /\ WakelockProofs!HeldIffCounted'
    BY <2>1, <2>2, WakelockNumbers, WakelockProofs!LockInvStep, Zenon
  <2>5. WakelockProofs!TimesPast' /\ WakelockProofs!RefsAccounted'
    BY <2>1, WakelockNumbers, WakelockProofs!RefInvStep, Zenon
  <2>6. WakelockProofs!BinderInStep'
    BY <2>1, <2>2, WakelockNumbers, WakelockProofs!BinderInStepStep, Zenon
  <2>. QED BY <2>3, <2>4, <2>5, <2>6 DEF WakelockProofs!RefInv, WakelockProofs!LockInv
<1>. QED BY <1>1, <1>2, DeliveryInductive, PTL DEF Spec

LEMMA ComingIsOwed ==
  ASSUME DeliveryInv
  PROVE  Coming \in Nat /\ Owed = readWake + Coming
<1>1. Coming = WakeupEvents(mEventQueue) + WakeupEvents(Waiting)
  BY DEF Coming, Waiting
<1>. QED BY <1>1, WayLaws DEF DeliveryInv, Owed

\* While the threads run, the framework owes acknowledgements for exactly the
\* wake-up events in the FMQ, waiting or read.
THEOREM AcksFollow == Spec => []AcksFollowEvents
<1>1. DeliveryInv => AcksFollowEvents
  BY ComingIsOwed DEF AcksFollowEvents, DeliveryInv, AcksOwed
<1>. QED BY <1>1, DeliveryInductive, PTL

\* While the threads run, the device stays awake for every wake-up event on its
\* way, read or acknowledged, beyond as many as have lost their reference to the
\* timeout or a stop, until references have been given back twice.
THEOREM StaysAwake == Spec => []AwakeForEvents
<1>1. DeliveryInv /\ WakelockProofs!RefInv => AwakeForEvents
  <2> SUFFICES ASSUME DeliveryInv, WakelockProofs!RefInv, mThreadsRun, ~overReleased,
                      Coming + readWake + mWakeLockQueue > unreferenced
               PROVE  wakeLockHeld
    BY DEF AwakeForEvents
  <2>1. unacked = readWake + Coming /\ readWake \in Nat /\ Coming \in Nat
    BY ComingIsOwed DEF DeliveryInv, AcksOwed
  <2>2. unacked + mWakeLockQueue = outstanding + unreferenced
    BY DEF DeliveryInv, WakelockProofs!TypeInv, WakelockProofs!AcksAccounted
  <2>3. /\ unacked \in Nat /\ mWakeLockQueue \in Nat /\ outstanding \in Nat
        /\ unreferenced \in Nat /\ stranded \in Nat /\ counted \in Nat
    BY DEF DeliveryInv, WakelockProofs!TypeInv, WakelockProofs!TypeOK
  <2>4. outstanding > 0
    BY <2>1, <2>2, <2>3
  <2>5. mWakelockRefCount = WakelockProofs!Cardinality(WakelockProofs!Fresh) + counted + outstanding + stranded
    BY DEF WakelockProofs!RefInv, WakelockProofs!RefsAccounted
  <2>6. WakelockProofs!Cardinality(WakelockProofs!Fresh) \in Nat
    BY WakelockNumbers, WakelockProofs!FreshFinite, Zenon
  <2>7. mWakelockRefCount > 0
    BY <2>3, <2>4, <2>5, <2>6
  <2>. QED BY <2>7 DEF WakelockProofs!RefInv, WakelockProofs!LockInv, WakelockProofs!HeldIffCounted
<1>. QED BY <1>1, DeliveryInductive, ReferencesInductive, PTL

\* References are given back twice only where that has a cause.
LEMMA OverReleaseStep ==
  ASSUME DeliveryInv, [Next]_vars, overReleased', ~overReleased
  PROVE  \/ unreferenced > 0
         \/ DropFailed /\ FrontBatch.numWakeupEvents > WakeupEvents(FrontBatch.events)
<1>0. QueueInv /\ CountsCover /\ unreferenced \in Nat /\ mWakeLockQueue \in Nat
  BY WakelockTypes DEF DeliveryInv
<1> USE DEF Wakelock!ghostVars
<1>1. ASSUME NEW c \in Clients, NEW wakes \in BatchKinds, Create(c, wakes)
      PROVE  FALSE
  BY <1>1 DEF Create, Wakelock!CreateScopedWakelock
<1>2. ASSUME NEW c \in Clients, ClientStep(c) \/ \E direct : Write(c, direct) PROVE FALSE
  BY <1>2 DEF ClientStep, Write, Wakelock!AcquireScopedWakelock, Wakelock!PostEvents,
     Wakelock!LockEventQueue, Wakelock!CountWakeupEvents, Wakelock!DestroyScopedWakelock,
     Wakelock!ReleaseScopedWakelock, Wakelock!WriteEvents
<1>3. CASE PendingWritesStep
  BY <1>3 DEF PendingWritesStep, lockVars
\* Events that settle in one go have references of their own, one each, unless
\* some had lost theirs or the delta is not the number of events.
<1>4. ASSUME NEW settled \in Nat, NEW delta \in Nat, NEW running,
             Wakelock!SettleEvents(settled, delta, running), ~(unreferenced > 0)
      PROVE  delta > settled
  <2>1. Wakelock!AtMost(settled, unreferenced) = 0
    BY <1>0, <1>4 DEF Wakelock!AtMost
  <2>2. settled - Wakelock!AtMost(settled, unreferenced) = settled
    BY <2>1
  <2>3. CASE running
    BY <1>4, <2>2, <2>3 DEF Wakelock!SettleEvents
  <2>4. CASE ~running
    BY <1>4, <2>4 DEF Wakelock!SettleEvents
  <2>. QED BY <2>3, <2>4
<1>5. CASE DropFailedWrite
  <2>1. DropFailed /\ QueueInv /\ CountsCover
    BY <1>0, <1>5 DEF DropFailedWrite
  <2>2. PICK lost, delta : /\ lost = WakeupEvents(SubSeq(FrontBatch.events, 1, numToWrite))
                           /\ delta = ReferencesOfFailedWrite
    OBVIOUS
  <2>3. /\ lost \in 0..MaxBatch /\ delta \in lost..MaxBatch
        /\ delta # lost => lost = WakeupEvents(FrontBatch.events) /\ delta = FrontBatch.numWakeupEvents
    BY <2>1, <2>2, FailedWriteReferences
  <2>4. PICK running : Wakelock!SettleEvents(lost, delta, running)
    BY <1>5, <2>2 DEF DropFailedWrite, Wakelock!DropPendingEvents, lockVars
  <2>5. CASE ~(unreferenced > 0)
    <3>1. delta > lost
      BY <1>4, <2>3, <2>4, <2>5, QueueAssumption
    <3>. QED BY <2>1, <2>3, <3>1, QueueAssumption
  <2>. QED BY <2>5
<1>6. ASSUME NEW n, Read(n) PROVE FALSE
  BY <1>6 DEF Read, lockVars
<1>7. ASSUME NEW k, Acknowledge(k) PROVE FALSE
  BY <1>7 DEF Acknowledge, Wakelock!FrameworkAck
<1>8. CASE WakelockStep
  <2>1. ASSUME NEW k \in 1..mWakeLockQueue, Wakelock!ReadAcks(k) PROVE unreferenced > 0
    <3>1. Wakelock!SettleEvents(k, k, mThreadsRun)
      BY <2>1, Zenon DEF Wakelock!ReadAcks
    <3>2. k \in Nat /\ ~(k > k)
      BY <1>0
    <3>. QED BY <1>4, <3>1, <3>2, Zenon
  <2>2. CASE ~\E k \in 1..mWakeLockQueue : Wakelock!ReadAcks(k)
    BY <1>8, <2>2 DEF WakelockStep, Wakelock!WakelockThread, Wakelock!WaitForAcks,
       Wakelock!TimeoutSharedWakelock, Wakelock!ReadTimeout, Wakelock!WakelockThreadExit,
       Wakelock!Tick, Wakelock!ResetSharedWakelock
  <2>. QED BY <2>1, <2>2
<1>9. CASE Stop \/ Initialize
  <2>1. ASSUME NEW settled, NEW delta, Wakelock!SettleEvents(settled, delta, FALSE)
        PROVE  overReleased' = overReleased
    BY <2>1 DEF Wakelock!SettleEvents
  <2>2. CASE Initialize /\ Wakelock!ReplaceQueues(WakeupEvents(PendingEvents))
    BY <2>1, <2>2, Zenon DEF Wakelock!ReplaceQueues
  <2>3. CASE ~(Initialize /\ Wakelock!ReplaceQueues(WakeupEvents(PendingEvents)))
    BY <1>9, <2>3 DEF Stop, Initialize, Wakelock!StopThreads, Wakelock!ResetStopped,
       Wakelock!StartThreads, Wakelock!ResetSharedWakelock, lockVars
  <2>. QED BY <2>2, <2>3
<1>10. CASE UNCHANGED vars
  BY <1>10 DEF vars, lockVars
<1>. QED BY <1>1, <1>2, <1>3, <1>5, <1>6, <1>7, <1>8, <1>9, <1>10, Zenon DEF Next

\* References are given back twice only for an event that had lost its own, or
\* by a failed write of a batch that had been written in part.
THEOREM OverReleaseCause == Spec => OverReleaseExplained
<1>1. DeliveryInv /\ [Next]_vars =>
        [overReleased' /\ ~overReleased =>
           \/ unreferenced > 0
           \/ DropFailed /\ FrontBatch.numWakeupEvents > WakeupEvents(FrontBatch.events)]_vars
  BY OverReleaseStep, Zenon
<1>. QED BY <1>1, DeliveryInductive, PTL DEF Spec, OverReleaseExplained

\* To EventStream, every step of the composition sends, loses or delivers events.
LEMMA EveryStepStreams == DeliveryInv /\ [Next]_vars => [Stream!StreamNext]_(Stream!streamVars)
<1> SUFFICES ASSUME DeliveryInv, [Next]_vars
             PROVE  [Stream!StreamNext]_(Stream!streamVars)
  OBVIOUS
<1>1. QueueInv /\ BatchesHeld
  BY DEF DeliveryInv
<1>2. CASE [QueueNext]_queueVars
  BY <1>1, <1>2, StreamStep, Zenon
<1>3. ASSUME NEW wakes \in Seq(BOOLEAN), NEW direct, Len(wakes) \in 1..MaxBatch,
             PostEventsToMessageQueue(wakes, direct)
      PROVE  Stream!StreamNext
  BY <1>1, <1>3, SendStep, Zenon DEF Stream!StreamNext
<1>. QED BY <1>1, <1>2, <1>3, QueuePart, Zenon

\* The events of the batches themselves go the way EventStream promises.
THEOREM DeliveredAsStream == Spec => ImplementsEventStream
<1>1. Init => Stream!StreamInit
  BY StreamInitially DEF Init
<1>. QED BY <1>1, EveryStepStreams, DeliveryInductive, PTL
            DEF Spec, ImplementsEventStream, Stream!StreamSpec

\* Whatever the batches of the sub-HALs, the framework reads each event at most
\* once and in the order posted, through failed writes and restarts.
THEOREM DeliveredOnceInOrder == Spec => []Stream!DeliveredInOrder
<1>1. Init => InOrder
  BY InOrderInit DEF Init
<1>2. DeliveryInv => QueueInv
  BY DEF DeliveryInv
<1>3. QueueInv /\ QueueInv' /\ InOrder /\ DeliveryInv /\ [Next]_vars => InOrder'
  BY EveryStepStreams, InOrderStep, Zenon
<1>4. Spec => []InOrder
  BY <1>1, <1>2, <1>3, DeliveryInductive, PTL DEF Spec
<1>. QED BY <1>2, <1>4, InOrderDelivers, DeliveryInductive, PTL
=============================================================================
