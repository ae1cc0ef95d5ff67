--------------------------- MODULE EventDelivery ---------------------------
(***************************************************************************)
(* The event path and the shared wake lock together: a sub-HAL's batch     *)
(* takes its references under mEventQueueWriteMutex before its events can  *)
(* be read, the framework acknowledges only what it has read, and the      *)
(* pending-writes thread gives references back for events it drops.        *)
(***************************************************************************)
EXTENDS EventQueue

CONSTANTS Clients, NoClient, kWakelockTimeout, MaxPosts,  \* as in SharedWakelock
          BatchKinds    \* bound: the batches posted, as sequences of "is a wake-up event"

ASSUME BatchKindsAssumption ==
  \A wakes \in BatchKinds : Len(wakes) \in 1..MaxBatch /\ wakes \in Seq(BOOLEAN)

\* As in SharedWakelock.
ASSUME WakelockAssumption ==
  /\ IsFiniteSet(Clients) /\ NoClient \notin Clients
  /\ {kWakelockTimeout, MaxPosts} \subseteq Nat

VARIABLES now, mWakelockRefCount, mWakelockTimeoutStartTime, mWakelockTimeoutResetTime,
          wakeLockHeld, mWakeLockQueue, mEventQueueWriteMutex, wakelockThread, readDeadline,
          pc, locked, createdAt, wakeups, unacked, posts,
          counted, outstanding, unreferenced, stranded, overReleased

VARIABLES batch,      \* of each client: which events of its batch are wake-up events
          readWake    \* wake-up events the framework has read and not acknowledged

\* For the wake lock, the queues are cleared and replaced in one step.
WakelockBinder == IF binder \in {"clearing", "resetting"} THEN "replacing" ELSE binder

WriterRuns == pendingWritesThread # "off"

Wakelock == INSTANCE SharedWakelock
              WITH MaxWake <- MaxBatch, binder <- WakelockBinder, writerRuns <- WriterRuns

pathVars == <<mEventQueue, pendingVars, threadVars, posted, received, binder>>
lockVars == <<now, mWakelockRefCount, mWakelockTimeoutStartTime, mWakelockTimeoutResetTime,
              wakeLockHeld, mWakeLockQueue, mEventQueueWriteMutex, wakelockThread,
              readDeadline, pc, locked, createdAt, wakeups, unacked, posts,
              counted, outstanding, unreferenced, stranded, overReleased>>
vars     == <<queueVars, lockVars, batch, readWake>>

Wakes(w) == Cardinality({i \in 1..Len(w) : w[i]})

Init ==
  /\ QueueInit /\ Wakelock!Init
  /\ batch = [c \in Clients |-> <<>>] /\ readWake = 0
-----------------------------------------------------------------------------
\* A sub-HAL takes a scoped wake lock for a batch it is about to post.
Create(c, wakes) ==
  /\ UNCHANGED <<pathVars, readWake>>
  /\ Wakelock!CreateScopedWakelock(c, Wakes(wakes))
  /\ batch' = [batch EXCEPT ![c] = wakes]

\* The steps of a post that touch the wake lock alone.
ClientStep(c) ==
  /\ UNCHANGED <<pathVars, batch, readWake>>
  /\ \/ Wakelock!AcquireScopedWakelock(c)
     \/ Wakelock!PostEvents(c)
     \/ Wakelock!LockEventQueue(c)
     \/ Wakelock!CountWakeupEvents(c)
     \/ Wakelock!DestroyScopedWakelock(c)
     \/ Wakelock!ReleaseScopedWakelock(c)

\* The events of a batch that fit neither the FMQ nor the pending queue.
Lost(events, direct) ==
  LET left == Drop(events, direct)
  IN  IF Overflows(Len(left)) THEN left ELSE <<>>

\* The events go to the queues; the mutex is released.
Write(c, direct) ==
  /\ PostEventsToMessageQueue(batch[c], direct)
  /\ Wakelock!WriteEvents(c, WakeupEvents(Lost(NewEvents(batch[c]), direct)))
  /\ batch' = [batch EXCEPT ![c] = <<>>]
  /\ UNCHANGED readWake

MutexFree == mEventQueueWriteMutex = NoClient

\* The pending-writes thread's steps but one; it waits and pops with the mutex.
PendingWritesStep ==
  /\ \/ MutexFree /\ TakeFrontBatch
     \/ WritePending
     \/ WriteFails
     \/ MutexFree /\ PopWritten
     \/ MutexFree /\ PendingWritesExit
  /\ UNCHANGED <<lockVars, batch, readWake>>

\* A blocking write has failed: its wake-up events are lost, references go back.
DropFailedWrite ==
  /\ DropFailed
  /\ IF FrontBatch.numWakeupEvents > 0
       THEN \E running \in {mThreadsRun, TRUE} :
              Wakelock!DropPendingEvents(
                WakeupEvents(SubSeq(FrontBatch.events, 1, numToWrite)),
                ReferencesOfFailedWrite, running)
       ELSE UNCHANGED lockVars
  /\ UNCHANGED <<batch, readWake>>

Read(n) ==
  /\ FrameworkRead(n)
  /\ readWake' = readWake + WakeupEvents(SubSeq(mEventQueue, 1, n))
  /\ UNCHANGED <<lockVars, batch>>

Acknowledge(k) ==
  /\ UNCHANGED <<pathVars, batch>>
  /\ k <= readWake /\ Wakelock!FrameworkAck(k)
  /\ readWake' = readWake - k

WakelockStep ==
  /\ UNCHANGED <<pathVars, batch, readWake>>
  /\ Wakelock!WakelockThread \/ Wakelock!Tick

\* initialize(): each step acts on both parts, or on the pending queue alone;
\* the new FMQs owe nothing, what was pushed since the clearing does.
Stop == StopThreads /\ Wakelock!StopThreads /\ UNCHANGED <<batch, readWake>>

Initialize ==
  /\ \/ JoinThreads /\ Wakelock!ResetStopped /\ UNCHANGED readWake
     \/ (ClearPending \/ ResetSize) /\ UNCHANGED <<lockVars, readWake>>
     \/ ReplaceQueues /\ Wakelock!ReplaceQueues(WakeupEvents(PendingEvents)) /\ readWake' = 0
     \/ StartThreads /\ Wakelock!StartThreads /\ UNCHANGED readWake
  /\ UNCHANGED batch

Next ==
  \/ \E c \in Clients :
       \/ \E wakes \in BatchKinds : Create(c, wakes)
       \/ ClientStep(c)
       \/ \E direct \in 0..MaxBatch : Write(c, direct)
  \/ PendingWritesStep \/ DropFailedWrite
  \/ \E n \in 1..QuantumCount : Read(n)
  \/ \E k \in 1..readWake : Acknowledge(k)
  \/ WakelockStep
  \/ Stop \/ Initialize

Spec == Init /\ [][Next]_vars
-----------------------------------------------------------------------------
\* A failed write never gives back fewer references than the wake-up events it
\* loses, and all else the event path does is a step of the wake lock's module.
ImplementsSharedWakelock == Wakelock!Spec

\* The wake-up events the framework will read, unless they are lost.
Coming ==
  WakeupEvents(mEventQueue) + WakeupEvents(IF pendingWritesThread = "written"
                                             THEN Drop(PendingEvents, numToWrite)
                                             ELSE PendingEvents)

\* While the threads run, the framework owes acknowledgements for exactly the
\* wake-up events in the FMQ, waiting, or read: none is forgotten or invented.
AcksFollowEvents == mThreadsRun => unacked = readWake + Coming

\* While the threads run, the device stays awake for every wake-up event that is
\* in the FMQ, waiting, read or acknowledged, beyond as many as have lost their
\* reference, until references have been given back twice.
AwakeForEvents ==
  mThreadsRun /\ ~overReleased /\ Coming + readWake + mWakeLockQueue > unreferenced
    => wakeLockHeld

\* References are given back twice only for an event that had lost its own, or
\* by a failed write of a batch that had been written in part.
OverReleaseExplained ==
  [][overReleased' /\ ~overReleased =>
       \/ unreferenced > 0
       \/ DropFailed /\ FrontBatch.numWakeupEvents > WakeupEvents(FrontBatch.events)]_vars

\* decrementRefCountAndMaybeReleaseWakelock reports a decrement by more than the
\* count as an error: while every event has its reference, a failed write of
\* the pending-writes thread does not make one.
FailedWriteWithinCount ==
  [][DropFailed /\ mThreadsRun /\ FrontBatch.numWakeupEvents > 0
       /\ unreferenced = 0 /\ ~overReleased
     => ReferencesOfFailedWrite <= mWakelockRefCount]_vars
=============================================================================
