----------------------------- MODULE EventQueue -----------------------------
(***************************************************************************)
(* The way of an event from postEventsToMessageQueue to the framework      *)
(* (sensors/HalProxy.cpp): straight into the event FMQ when no batch is    *)
(* waiting and there is room, else into mPendingWriteEventsQueue, which    *)
(* the pending-writes thread empties with blocking writes it makes outside *)
(* of mEventQueueWriteMutex.  An action is a section that holds the mutex, *)
(* or one operation on the FMQ.  Posts can come at any time after the      *)
(* first initialize(): one in flight is not held back by stopThreads, and  *)
(* initializeCommon clears the queue, its size and the FMQ without the     *)
(* mutex, in three statements that such a post can come between.           *)
(***************************************************************************)
EXTENDS Integers, Sequences, FiniteSets, SequencesExt

CONSTANTS QuantumCount,   \* capacity of the event FMQ, mEventQueue->getQuantumCount()
          kMaxSizePendingWriteEventsQueue,
          SizeSpan,       \* size_t counts modulo this, 2^64 in the code
          MaxBatch,       \* bound: events in one batch
          MaxEvents,      \* bound: events posted
          MaxInits        \* bound: calls of initialize()

ASSUME QueueAssumption ==
  /\ QuantumCount \in Nat \ {0}
  /\ {kMaxSizePendingWriteEventsQueue, MaxBatch, MaxEvents, MaxInits} \subseteq Nat
  /\ SizeSpan \in Nat /\ SizeSpan > kMaxSizePendingWriteEventsQueue + MaxEvents

VARIABLES
  mEventQueue,                 \* events in the FMQ: [id, wake]
  mPendingWriteEventsQueue,    \* batches: [events, numWakeupEvents]
  mSizePendingWriteEventsQueue,
  mMostEventsObservedPendingWriteEventsQueue,
  pendingWritesThread,         \* "off", "waiting", "writing", "failed", "written"
  numToWrite,                  \* its local: what it writes of the front batch
  mThreadsRun, binder, inits,  \* initialize(), as in SharedWakelock
  asleep,                      \* workers that the notification of stopThreads missed
  posted,                      \* number of events posted: the last id
  received,                    \* history: ids the framework has read
  unsized                      \* ghost: events that waited when the size was last reset

pendingVars == <<mPendingWriteEventsQueue, mSizePendingWriteEventsQueue,
                 mMostEventsObservedPendingWriteEventsQueue, unsized>>
threadVars  == <<pendingWritesThread, numToWrite>>
runVars     == <<mThreadsRun, binder, inits, asleep>>
queueVars   == <<mEventQueue, pendingVars, threadVars, runVars, posted, received>>

Least(a, b)    == IF a < b THEN a ELSE b
Greatest(a, b) == IF a < b THEN b ELSE a

WakeupEvents(events) == Cardinality({i \in 1..Len(events) : events[i].wake})

\* The batch at the front of the pending queue, and the rest.
FrontBatch  == Head(mPendingWriteEventsQueue)
Batches     == Tail(mPendingWriteEventsQueue)
Drop(s, n)  == SubSeq(s, n + 1, Len(s))

PendingEvents == FlattenSeq([b \in 1..Len(mPendingWriteEventsQueue) |->
                               mPendingWriteEventsQueue[b].events])

QueueInit ==
  /\ mEventQueue = <<>>
  /\ mPendingWriteEventsQueue = <<>> /\ mSizePendingWriteEventsQueue = 0
  /\ mMostEventsObservedPendingWriteEventsQueue = 0
  /\ pendingWritesThread = "off" /\ numToWrite = 0
  /\ mThreadsRun = FALSE /\ binder = "idle" /\ inits = 0 /\ asleep = {}
  /\ posted = 0 /\ received = <<>> /\ unsized = 0
-----------------------------------------------------------------------------
(* postEventsToMessageQueue.                                               *)

\* Mutant: the room in the FMQ is not asked for.
WrittenNowUnbounded(events) ==
  IF mPendingWriteEventsQueue = <<>> THEN Len(events) ELSE 0

\* Mutant: events go straight into the FMQ past batches that wait.
WrittenNowOvertaking(events) ==
  Least(Len(events), QuantumCount - Len(mEventQueue))

\* How many of the events go straight into the FMQ.
WrittenNow(events) ==
  IF mPendingWriteEventsQueue = <<>>
    THEN Least(Len(events), QuantumCount - Len(mEventQueue))
    ELSE 0

\* What is left waits for the pending-writes thread, unless it is too much.
Overflows(numLeft) ==
  (mSizePendingWriteEventsQueue + numLeft) % SizeSpan > kMaxSizePendingWriteEventsQueue

\* The notification wakes the pending-writes thread, also one that missed an
\* earlier one.
PushPending(eventsLeft, numWakeupEvents) ==
  /\ mPendingWriteEventsQueue' = Append(mPendingWriteEventsQueue,
       [events |-> eventsLeft, numWakeupEvents |-> numWakeupEvents])
  /\ mSizePendingWriteEventsQueue' =
       (mSizePendingWriteEventsQueue + Len(eventsLeft)) % SizeSpan
  /\ mMostEventsObservedPendingWriteEventsQueue' =
       Greatest(mMostEventsObservedPendingWriteEventsQueue, mSizePendingWriteEventsQueue')
  /\ asleep' = asleep \ {"writes"}
  /\ UNCHANGED unsized

\* A batch of new events is posted; wakes says which of them are wake-up events.
NewEvents(wakes) == [i \in 1..Len(wakes) |-> [id |-> posted + i, wake |-> wakes[i]]]

\* Mutant: one event between those written and those left is forgotten.
LeftGap(events, direct) == Drop(events, direct + 1)

\* The events of a batch that did not go straight into the FMQ.
Left(events, direct) == Drop(events, direct)

\* direct: what was written, nothing if the write of the FMQ fails.
PostEventsToMessageQueue(wakes, direct) ==
  LET events == NewEvents(wakes)
      left   == Left(events, direct)
  IN /\ mThreadsRun \/ inits > 1
     /\ direct \in {0, WrittenNow(events)}
     /\ posted + Len(wakes) <= MaxEvents
     /\ mEventQueue' = mEventQueue \o SubSeq(events, 1, direct)
     /\ IF left # <<>> /\ ~Overflows(Len(left))
          THEN PushPending(left, WakeupEvents(events))
          ELSE UNCHANGED <<pendingVars, asleep>>
     /\ posted' = posted + Len(wakes)
     /\ UNCHANGED <<threadVars, mThreadsRun, binder, inits, received>>
-----------------------------------------------------------------------------
(* The pending-writes thread, handlePendingWrites.                         *)

\* The wait of mEventQueueWriteCV ends with a batch to write.
TakeFrontBatch ==
  /\ pendingWritesThread = "waiting" /\ mThreadsRun /\ mPendingWriteEventsQueue # <<>>
  /\ numToWrite' = Least(Len(FrontBatch.events), QuantumCount)
  /\ pendingWritesThread' = "writing"
  /\ UNCHANGED <<mEventQueue, pendingVars, runVars, posted, received>>

Room == QuantumCount - Len(mEventQueue) >= numToWrite

\* writeBlocking writes all of numToWrite events once there is room.
WritePending ==
  /\ pendingWritesThread = "writing" /\ Room
  /\ mEventQueue' = mEventQueue \o SubSeq(FrontBatch.events, 1, numToWrite)
  /\ pendingWritesThread' = "written"
  /\ UNCHANGED <<pendingVars, numToWrite, runVars, posted, received>>

\* writeBlocking gives up, after kPendingWriteTimeoutNs or woken by stopThreads.
WriteFails ==
  /\ pendingWritesThread = "writing" /\ ~Room
  /\ pendingWritesThread' = "failed"
  /\ UNCHANGED <<mEventQueue, pendingVars, numToWrite, runVars, posted, received>>

\* Mutant: a write that times out is tried again.
AfterFailedWriteRetry == "writing"

\* A batch whose write failed leaves the queue like one that was written.
AfterFailedWrite == "written"

\* The references of the events are given back: the events are lost.
DropFailed ==
  /\ pendingWritesThread = "failed"
  /\ pendingWritesThread' = AfterFailedWrite
  /\ UNCHANGED <<mEventQueue, pendingVars, numToWrite, runVars, posted, received>>

\* Mutant: the count of the lost wake-up events stops one event early.
ReferencesOfFailedWriteShort ==
  IF Len(FrontBatch.events) > QuantumCount
    THEN WakeupEvents(SubSeq(FrontBatch.events, 1, QuantumCount - 1))
    ELSE FrontBatch.numWakeupEvents

\* Mutant: the references of the whole batch go back for a part of it.
ReferencesOfFailedWriteWhole == FrontBatch.numWakeupEvents

\* The wake lock references a failed write gives back.
ReferencesOfFailedWrite ==
  IF Len(FrontBatch.events) > QuantumCount
    THEN WakeupEvents(SubSeq(FrontBatch.events, 1, QuantumCount))
    ELSE FrontBatch.numWakeupEvents

\* Mutant: the size loses the whole batch when a part of it was written.
SizePoppedWhole == Len(FrontBatch.events)

SizePopped == numToWrite

\* With the mutex again, the thread takes the events off the front batch.
PopWritten ==
  /\ pendingWritesThread = "written"
  /\ mSizePendingWriteEventsQueue' =
       (mSizePendingWriteEventsQueue - SizePopped) % SizeSpan
  /\ mPendingWriteEventsQueue' =
       IF Len(FrontBatch.events) > QuantumCount
         THEN <<[FrontBatch EXCEPT !.events = Drop(@, QuantumCount)]>> \o Batches
         ELSE Batches
  /\ pendingWritesThread' = "waiting" /\ numToWrite' = 0
  /\ UNCHANGED <<mMostEventsObservedPendingWriteEventsQueue, unsized, mEventQueue, runVars,
                 posted, received>>

PendingWritesExit ==
  /\ pendingWritesThread = "waiting" /\ ~mThreadsRun /\ "writes" \notin asleep
  /\ pendingWritesThread' = "off"
  /\ UNCHANGED <<mEventQueue, pendingVars, numToWrite, runVars, posted, received>>
-----------------------------------------------------------------------------
(* The framework, and initializeCommon on the binder thread.               *)

FrameworkRead(n) ==
  /\ n <= Len(mEventQueue)
  /\ received' = received \o [i \in 1..n |-> mEventQueue[i].id]
  /\ mEventQueue' = Drop(mEventQueue, n)
  /\ UNCHANGED <<pendingVars, threadVars, runVars, posted>>

\* The workers that may have found nothing to do when mThreadsRun was still
\* set, and go to sleep only after the notification of stopThreads.  The wake
\* lock thread is in SharedWakelock: here it may be one of them.
MayMissStop ==
  (IF pendingWritesThread = "waiting" /\ mPendingWriteEventsQueue = <<>> THEN {"writes"} ELSE {})
    \cup (IF inits > 0 THEN {"wakelock"} ELSE {})

\* stopThreads stores mThreadsRun and empties the FMQ to let a writer through.
StopThreads ==
  /\ binder = "idle" /\ inits < MaxInits
  /\ inits' = inits + 1 /\ mThreadsRun' = FALSE /\ binder' = "stopping"
  /\ asleep' \in SUBSET MayMissStop
  /\ mEventQueue' = <<>>
  /\ UNCHANGED <<pendingVars, threadVars, posted, received>>

\* A post in flight takes the first reference and so notifies the wake lock thread.
WakelockThreadNotified ==
  /\ "wakelock" \in asleep
  /\ asleep' = asleep \ {"wakelock"}
  /\ UNCHANGED <<mEventQueue, pendingVars, threadVars, mThreadsRun, binder, inits,
                 posted, received>>

\* Mutant: the threads are not waited for.
JoinedAtOnce == TRUE

\* Both joins: a thread that missed the notification is not joined.
Joined == pendingWritesThread = "off" /\ "wakelock" \notin asleep

\* The threads are joined and initializeCommon goes on.
JoinThreads ==
  /\ binder = "stopping" /\ Joined
  /\ binder' = "clearing"
  /\ UNCHANGED <<mEventQueue, pendingVars, threadVars, mThreadsRun, inits, asleep,
                 posted, received>>

\* The pending queue is replaced by an empty one.
ClearPending ==
  /\ binder = "clearing"
  /\ mPendingWriteEventsQueue' = <<>>
  /\ binder' = "resetting"
  /\ UNCHANGED <<mSizePendingWriteEventsQueue, mMostEventsObservedPendingWriteEventsQueue,
                 unsized, mEventQueue, threadVars, mThreadsRun, inits, asleep, posted, received>>

\* Its size is set to 0, whatever was posted since.
ResetSize ==
  /\ binder = "resetting"
  /\ mSizePendingWriteEventsQueue' = 0 /\ unsized' = Len(PendingEvents)
  /\ binder' = "replacing"
  /\ UNCHANGED <<mPendingWriteEventsQueue, mMostEventsObservedPendingWriteEventsQueue,
                 mEventQueue, threadVars, mThreadsRun, inits, asleep, posted, received>>

\* The FMQ is replaced by the framework's new one.
ReplaceQueues ==
  /\ binder = "replacing"
  /\ mEventQueue' = <<>>
  /\ binder' = "starting"
  /\ UNCHANGED <<pendingVars, threadVars, mThreadsRun, inits, asleep, posted, received>>

StartThreads ==
  /\ binder = "starting"
  /\ mThreadsRun' = TRUE /\ pendingWritesThread' = "waiting" /\ binder' = "idle"
  /\ UNCHANGED <<mEventQueue, pendingVars, numToWrite, inits, asleep, posted, received>>
-----------------------------------------------------------------------------
Post ==
  \E n \in 1..MaxBatch : \E direct \in 0..n :
    PostEventsToMessageQueue([i \in 1..n |-> FALSE], direct)

PendingWritesThread ==
  TakeFrontBatch \/ WritePending \/ WriteFails \/ DropFailed \/ PopWritten
    \/ PendingWritesExit

InitializeSteps == JoinThreads \/ ClearPending \/ ResetSize \/ ReplaceQueues \/ StartThreads

QueueNext ==
  \/ Post
  \/ PendingWritesThread
  \/ \E n \in 1..QuantumCount : FrameworkRead(n)
  \/ StopThreads \/ WakelockThreadNotified
  \/ InitializeSteps

QueueSpec == QueueInit /\ [][QueueNext]_queueVars

\* The framework may stop reading for ever: only the proxy's threads are fair.
FairQueueSpec ==
  QueueSpec /\ WF_queueVars(PendingWritesThread) /\ WF_queueVars(InitializeSteps)
-----------------------------------------------------------------------------
Event == [id : 1..MaxEvents, wake : BOOLEAN]

\* Every variable has its type, and the FMQ holds no more than it can.
QueueTypeOK ==
  /\ mEventQueue \in Seq(Event) /\ Len(mEventQueue) <= QuantumCount
  /\ mPendingWriteEventsQueue \in Seq([events : Seq(Event), numWakeupEvents : 0..MaxBatch])
  /\ mSizePendingWriteEventsQueue \in 0..SizeSpan - 1 /\ unsized \in Nat
  /\ mMostEventsObservedPendingWriteEventsQueue \in Nat
  /\ pendingWritesThread \in {"off", "waiting", "writing", "failed", "written"}
  /\ numToWrite \in 0..QuantumCount
  /\ mThreadsRun \in BOOLEAN /\ asleep \subseteq {"writes", "wakelock"}
  /\ binder \in {"idle", "stopping", "clearing", "resetting", "replacing", "starting"}
  /\ inits \in Nat /\ posted \in 0..MaxEvents /\ received \in Seq(1..MaxEvents)

\* The size the overflow test relies on is that of the pending queue, through
\* partial writes, failed writes and restarts, and what waits never passes its
\* limit, but for the events a post in flight pushed between the two statements
\* of initializeCommon that clear the queue and its size: these are missing in
\* the size until the next restart, so that it wraps when they are popped.
PendingSizeExact ==
  binder # "resetting" =>
    /\ mSizePendingWriteEventsQueue = (Len(PendingEvents) - unsized) % SizeSpan
    /\ Len(PendingEvents) <= kMaxSizePendingWriteEventsQueue + unsized

\* The FMQ has one writer at a time: while the pending-writes thread writes
\* without the mutex, the batch it writes keeps posts off the FMQ, and it is
\* still the batch it took.
SingleWriter ==
  pendingWritesThread \in {"writing", "failed", "written"} =>
    /\ mPendingWriteEventsQueue # <<>>
    /\ numToWrite = Least(Len(FrontBatch.events), QuantumCount)

\* Whatever the framework does, a waiting batch does not wait for ever: it is
\* written, or dropped when the blocking write gives up, unless initialize()
\* waits for ever for a wake lock thread that the notification missed.
PendingDrains ==
  \/ <>[]("wakelock" \in asleep)
  \/ mPendingWriteEventsQueue # <<>> ~> mPendingWriteEventsQueue = <<>>

\* The path keeps the promise of EventStream: an event already written but not
\* yet popped is in transit once.
InTransit ==
  LET ids(events) == [i \in 1..Len(events) |-> events[i].id]
      inFMQ == mEventQueue
      waiting == IF pendingWritesThread = "written" THEN Drop(PendingEvents, numToWrite)
                                                    ELSE PendingEvents
  IN  ids(inFMQ \o waiting)

Stream == INSTANCE EventStream WITH sent <- posted, transit <- InTransit, delivered <- received

ImplementsEventStream == Stream!StreamSpec
=============================================================================
