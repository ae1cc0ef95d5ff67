---------------------------- MODULE HalLifecycle ----------------------------
(***************************************************************************)
(* stopThreads and initializeCommon (sensors/HalProxy.cpp) against the two *)
(* worker threads and the sub-HALs' own threads.  The grain is that of the *)
(* condition variables: a worker tests its predicate holding its mutex,    *)
(* and only a later step blocks it and lets the mutex go.  stopThreads     *)
(* changes the predicate and notifies without the mutex.  What is in the   *)
(* queues is reduced to how many batches are pending and whether there are *)
(* wake lock references.                                                   *)
(***************************************************************************)
EXTENDS Integers, FiniteSets

CONSTANTS NumSubHals,   \* sub-HALs in mSubHalList, each with a thread that posts
          MaxPosts,     \* bound: batches generated
          MaxInits      \* bound: calls of initialize()

ASSUME LifecycleAssumption ==
  NumSubHals \in Nat \ {0} /\ MaxPosts \in Nat /\ MaxInits \in Nat

SubHals == 1..NumSubHals

VARIABLES
  mThreadsRun,
  binder,           \* the statement of initialize() the binder thread is at
  initialized,      \* sub-HALs the current initialize() has initialized
  writesThread,     \* the pending-writes thread ...
  wakelockThread,   \* ... and the wake lock thread: a WorkerState
  pending,          \* batches in mPendingWriteEventsQueue
  references,       \* mWakelockRefCount > 0
  post,             \* of each sub-HAL thread: where it is in posting a batch
  enabled,          \* sub-HALs with a sensor that is active
  posts, inits      \* counters for the bounds

workerVars == <<writesThread, wakelockThread>>
queueVars  == <<pending, references>>
subHalVars == <<post, enabled, posts>>
vars == <<mThreadsRun, binder, initialized, workerVars, queueVars, subHalVars, inits>>

(***************************************************************************)
(* A worker: "locking" wants its mutex; "testing" and "blocking" have it;  *)
(* "blocked" waits for a notification; "busy" is in a blocking FMQ call,   *)
(* without the mutex, and returns at the latest after its timeout.         *)
(***************************************************************************)
WorkerState == {"off", "locking", "testing", "blocking", "blocked", "busy"}
\* Mutant: the mutex is let go between the test and the sleep.
HasMutexWhileTesting(worker) == worker = "testing"

HasMutex(worker) == worker \in {"testing", "blocking"}

\* notify_one: of use only to a worker that is blocked.
Notified(worker) == IF worker = "blocked" THEN "locking" ELSE worker

EventMutexFree == ~HasMutex(writesThread) /\ \A h \in SubHals : post[h] # "pushing"

Init ==
  /\ mThreadsRun = FALSE /\ binder = "idle" /\ initialized = {}
  /\ writesThread = "off" /\ wakelockThread = "off"
  /\ pending = 0 /\ references = FALSE
  /\ post = [h \in SubHals |-> "idle"] /\ enabled = {} /\ posts = 0
  /\ inits = 0
-----------------------------------------------------------------------------
(* Sub-HAL threads: HalProxyCallbackBase::postEvents.                      *)

\* The framework activates a sensor; one binder thread serves all its calls.
Activate(h) ==
  /\ binder = "idle" /\ mThreadsRun /\ h \notin enabled
  /\ enabled' = enabled \cup {h}
  /\ UNCHANGED <<mThreadsRun, binder, initialized, workerVars, queueVars, post, posts, inits>>

\* An active sensor has events: the sub-HAL's thread calls postEvents.
Generate(h) ==
  /\ post[h] = "idle" /\ h \in enabled /\ posts < MaxPosts
  /\ posts' = posts + 1
  /\ post' = [post EXCEPT ![h] = "called"]
  /\ UNCHANGED <<mThreadsRun, binder, initialized, workerVars, queueVars, enabled, inits>>

\* postEvents tests areThreadsRunning().
TestThreadsRunning(h) ==
  /\ post[h] = "called"
  /\ post' = [post EXCEPT ![h] = IF mThreadsRun THEN "passed" ELSE "idle"]
  /\ UNCHANGED <<mThreadsRun, binder, initialized, workerVars, queueVars, enabled, posts, inits>>

\* postEventsToMessageQueue takes mEventQueueWriteMutex.  Wake-up events are
\* counted under mWakelockMutex; a batch has none, or the threads are stopped,
\* otherwise.
BeginPush(h) ==
  /\ post[h] = "passed" /\ EventMutexFree
  /\ post' = [post EXCEPT ![h] = "pushing"]
  /\ \/ /\ mThreadsRun /\ ~HasMutex(wakelockThread)
        /\ references' = TRUE
        /\ wakelockThread' = IF references THEN wakelockThread ELSE Notified(wakelockThread)
     \/ UNCHANGED <<references, wakelockThread>>
  /\ UNCHANGED <<mThreadsRun, binder, initialized, writesThread, pending, enabled, posts, inits>>

\* The batch is pushed to the pending queue (or all of it went into the FMQ)
\* and the pending-writes thread is notified, still holding the mutex.
EndPush(h) ==
  /\ post[h] = "pushing"
  /\ \/ pending' = pending + 1 /\ writesThread' = Notified(writesThread)
     \/ pending = 0 /\ UNCHANGED <<pending, writesThread>>
  /\ post' = [post EXCEPT ![h] = "idle"]
  /\ UNCHANGED <<mThreadsRun, binder, initialized, wakelockThread, references, enabled,
                 posts, inits>>
-----------------------------------------------------------------------------
(* handlePendingWrites and handleWakelocks.                                *)

writesFrame == <<mThreadsRun, binder, initialized, wakelockThread, references, subHalVars, inits>>

WritesLock ==
  /\ writesThread = "locking" /\ EventMutexFree
  /\ writesThread' = "testing"
  /\ UNCHANGED <<writesFrame, pending>>

\* The loop condition and the predicate of mEventQueueWriteCV.
WritesTest ==
  /\ writesThread = "testing"
  /\ writesThread' = IF ~mThreadsRun THEN "off" ELSE IF pending > 0 THEN "busy" ELSE "blocking"
  /\ UNCHANGED <<writesFrame, pending>>

WritesBlock ==
  /\ writesThread = "blocking"
  /\ writesThread' = "blocked"
  /\ UNCHANGED <<writesFrame, pending>>

\* writeBlocking has returned; with the mutex the batch is popped, or its
\* first part erased, and the loop condition comes next.
WritesPop ==
  /\ writesThread = "busy" /\ EventMutexFree
  /\ pending' \in {pending - 1, pending}
  /\ writesThread' = "testing"
  /\ UNCHANGED writesFrame

wakelockFrame == <<mThreadsRun, binder, initialized, writesThread, pending, subHalVars, inits>>

WakelockLock ==
  /\ wakelockThread = "locking"
  /\ wakelockThread' = "testing"
  /\ UNCHANGED <<wakelockFrame, references>>

\* The loop condition, the predicate of mWakelockCV, and the timeout.
WakelockTest ==
  /\ wakelockThread = "testing"
  /\ IF ~mThreadsRun THEN wakelockThread' = "off" /\ UNCHANGED references
     ELSE IF ~references THEN wakelockThread' = "blocking" /\ UNCHANGED references
     ELSE \/ wakelockThread' = "busy" /\ UNCHANGED references
          \/ wakelockThread' = "testing" /\ references' = FALSE
  /\ UNCHANGED wakelockFrame

WakelockBlock ==
  /\ wakelockThread = "blocking"
  /\ wakelockThread' = "blocked"
  /\ UNCHANGED <<wakelockFrame, references>>

\* readBlocking has returned; what it read may be all the references.
WakelockDecrement ==
  /\ wakelockThread = "busy"
  /\ wakelockThread' = "testing"
  /\ references' \in IF mThreadsRun THEN BOOLEAN ELSE {references}
  /\ UNCHANGED wakelockFrame
-----------------------------------------------------------------------------
(* initialize(), statement by statement, on the binder thread.             *)

binderFrame == <<initialized, queueVars, subHalVars>>

\* stopThreads: mThreadsRun is stored; the FMQs are woken for a busy worker.
StoreThreadsRun ==
  /\ binder = "idle" /\ inits < MaxInits
  /\ inits' = inits + 1 /\ mThreadsRun' = FALSE
  /\ binder' = "notifying"
  /\ UNCHANGED <<binderFrame, workerVars>>

\* mWakelockCV.notify_one(), mEventQueueWriteCV.notify_one(), no mutex held.
NotifyWakelockThread ==
  /\ binder = "notifying"
  /\ wakelockThread' = Notified(wakelockThread)
  /\ binder' = "notifying writes"
  /\ UNCHANGED <<binderFrame, mThreadsRun, writesThread, inits>>

\* Mutant: the second notification is forgotten.
WritesThreadUnnotified == writesThread

WritesThreadNotified == Notified(writesThread)

NotifyWritesThread ==
  /\ binder = "notifying writes"
  /\ writesThread' = WritesThreadNotified
  /\ binder' = "joining"
  /\ UNCHANGED <<binderFrame, mThreadsRun, wakelockThread, inits>>

\* Mutant: only the pending-writes thread is joined.
JoinedOne == writesThread = "off"

Joined == writesThread = "off" /\ wakelockThread = "off"

\* Both joins, then resetSharedWakelock, which changes no count: the threads
\* are stopped.
JoinThreads ==
  /\ binder = "joining" /\ Joined
  /\ binder' = "disabling"
  /\ UNCHANGED <<binderFrame, mThreadsRun, workerVars, inits>>

DisableAllSensors ==
  /\ binder = "disabling"
  /\ enabled' = {}
  /\ binder' = "clearing"
  /\ UNCHANGED <<mThreadsRun, initialized, workerVars, queueVars, post, posts, inits>>

\* Mutant: the pending queue is not cleared.
PendingKept == pending

PendingCleared == 0

\* mPendingWriteEventsQueue is assigned without the mutex; the FMQs are
\* replaced and the event flags created anew.
ClearAndReplace ==
  /\ binder = "clearing"
  /\ pending' = PendingCleared /\ initialized' = {}
  /\ binder' = "starting"
  /\ UNCHANGED <<mThreadsRun, workerVars, references, subHalVars, inits>>

StartThreads ==
  /\ binder = "starting"
  /\ mThreadsRun' = TRUE
  /\ writesThread' = "locking" /\ wakelockThread' = "locking"
  /\ binder' = "initializing"
  /\ UNCHANGED <<binderFrame, inits>>

\* mSubHalList[i]->initialize(this, this, i), in the order of the list.
InitializeSubHal ==
  /\ binder = "initializing"
  /\ LET i == Cardinality(initialized) + 1
     IN  /\ initialized' = initialized \cup {i}
         /\ binder' = IF i = NumSubHals THEN "idle" ELSE "initializing"
  /\ UNCHANGED <<mThreadsRun, workerVars, queueVars, subHalVars, inits>>
-----------------------------------------------------------------------------
SubHal(h) ==
  Generate(h) \/ TestThreadsRunning(h) \/ BeginPush(h) \/ EndPush(h)

WritesThread   == WritesLock \/ WritesTest \/ WritesBlock \/ WritesPop
WakelockThread == WakelockLock \/ WakelockTest \/ WakelockBlock \/ WakelockDecrement

InitializeSteps ==
  \/ NotifyWakelockThread \/ NotifyWritesThread \/ JoinThreads \/ DisableAllSensors
  \/ ClearAndReplace \/ StartThreads \/ InitializeSubHal

Next ==
  \/ \E h \in SubHals : Activate(h) \/ SubHal(h)
  \/ WritesThread \/ WakelockThread
  \/ StoreThreadsRun \/ InitializeSteps

Spec == Init /\ [][Next]_vars

\* Every thread is scheduled; whoever holds mEventQueueWriteMutex gives it back.
\* A blocked thread has no step, and none is granted a spurious wake-up.
FairSpec ==
  /\ Spec
  /\ WF_vars(WritesThread) /\ WF_vars(WakelockThread) /\ WF_vars(InitializeSteps)
  /\ \A h \in SubHals : WF_vars(EndPush(h))
-----------------------------------------------------------------------------
BinderStates == {"idle", "notifying", "notifying writes", "joining", "disabling", "clearing",
                 "starting", "initializing"}

\* Every variable has its type.
TypeOK ==
  /\ mThreadsRun \in BOOLEAN /\ binder \in BinderStates /\ initialized \subseteq SubHals
  /\ writesThread \in WorkerState /\ wakelockThread \in WorkerState
  /\ pending \in Nat /\ references \in BOOLEAN
  /\ post \in [SubHals -> {"idle", "called", "passed", "pushing"}]
  /\ enabled \subseteq SubHals /\ posts \in 0..MaxPosts /\ inits \in 0..MaxInits

\* The queues and event flags are replaced only while neither worker runs: no
\* worker uses an object initializeCommon frees.
WorkersJoined ==
  /\ binder \in {"disabling", "clearing", "starting"} =>
       writesThread = "off" /\ wakelockThread = "off"
  /\ mThreadsRun => writesThread # "off" /\ wakelockThread # "off"

\* What a post hands to a running worker is never missed: no worker sleeps
\* over a pending batch or a reference.
PostsNeverMissed ==
  mThreadsRun => /\ pending > 0 => writesThread # "blocked"
                 /\ references => wakelockThread # "blocked"

\* Batches of the previous connection that reach the new queue are at most the
\* posts that were in flight, one for each sub-HAL.
StaleBatchesBounded ==
  binder = "starting" =>
    pending + Cardinality({h \in SubHals : post[h] \in {"passed", "pushing"}}) <= NumSubHals

\* Until they are started again the threads are stopped, and one that is joined
\* is not running; sub-HALs are initialized in the order of the list.
BinderInStep ==
  /\ binder \notin {"idle", "initializing"} => ~mThreadsRun
  /\ binder = "starting" => initialized = {}
  /\ \E n \in 0..NumSubHals :
       initialized = 1..n /\ (binder = "initializing" => n < NumSubHals)

\* At most one thread is in a section of mEventQueueWriteMutex.
MutexExclusive ==
  /\ \A h \in SubHals : post[h] = "pushing" => ~HasMutex(writesThread)
  /\ \A g, h \in SubHals : post[g] = "pushing" /\ post[h] = "pushing" => g = h

\* A worker about to sleep has nothing to do, one in a blocking write has a batch.
WorkersInStep ==
  /\ writesThread = "busy" => pending > 0
  /\ mThreadsRun /\ pending > 0 => writesThread \notin {"blocking", "blocked"}
  /\ mThreadsRun /\ references => wakelockThread \notin {"blocking", "blocked"}

\* The inductive invariant: no notification is missed because a worker decides to
\* sleep in a section of the mutex that a post needs to give it work.
IInv ==
  /\ TypeOK /\ WorkersJoined /\ BinderInStep
  /\ MutexExclusive /\ WorkersInStep /\ StaleBatchesBounded

\* mThreadsRun is cleared while a worker is between its test and its sleep.
StopRaced == ~mThreadsRun /\ (writesThread = "blocking" \/ wakelockThread = "blocking")

\* initialize() returns unless that happens: nothing else in the order of
\* storing, notifying, joining and restarting can hang the binder thread.
InitializeReturns == <>StopRaced \/ (binder # "idle" ~> binder = "idle")

\* "... when we start threads again": the threads that stopThreads stops are
\* started again by initializeCommon.
ThreadsStartAgain == binder # "idle" ~> mThreadsRun

\* "So that the pending write events queue can be cleared safely": no post is
\* in its section of mEventQueueWriteMutex when the queue is assigned.
ClearedSafely == binder = "clearing" => \A h \in SubHals : post[h] # "pushing"
=============================================================================
