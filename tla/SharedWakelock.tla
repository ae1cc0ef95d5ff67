--------------------------- MODULE SharedWakelock ---------------------------
(***************************************************************************)
(* The wake lock all sub-HALs of the sensors multi-HAL share               *)
(* (sensors/HalProxy.cpp).  A sub-HAL thread takes a scoped reference      *)
(* before it posts a batch holding wake-up events, the proxy adds one      *)
(* reference per wake-up event of the batch, and the framework gives these *)
(* back through the wake lock FMQ.  A reference that does not come back    *)
(* within kWakelockTimeout is forgotten.  initialize() may be called again *)
(* at any time (the framework restarted) while sub-HAL threads are in the  *)
(* middle of a post.                                                       *)
(*                                                                         *)
(* mThreadsRun is read without a lock, so for a sub-HAL thread the test    *)
(* and the locked section after it are two steps; the worker threads are   *)
(* joined before anything they test is set again, so theirs are one, but   *)
(* for the references of a failed write, given back after a stop too.      *)
(* stopThreads notifies both workers without their mutexes: one that has   *)
(* found nothing to do and is not yet asleep misses it (HalLifecycle has   *)
(* these steps), and sleeps until something else notifies it.              *)
(***************************************************************************)
EXTENDS Integers, FiniteSets

CONSTANTS Clients,           \* threads of sub-HALs that post events
          NoClient,          \* nobody holds mEventQueueWriteMutex
          kWakelockTimeout,  \* kWakelockTimeoutNs, in ticks of the clock
          MaxWake,           \* bound: wake-up events in one batch
          MaxPosts,          \* bound: batches posted
          MaxInits           \* bound: calls of initialize()

ASSUME ClientsAssumption  == IsFiniteSet(Clients) /\ NoClient \notin Clients
ASSUME NumbersAssumption ==
  {kWakelockTimeout, MaxWake, MaxPosts, MaxInits} \subseteq Nat

VARIABLES
  now,                        \* getTimeNow()
  mThreadsRun, mWakelockRefCount,
  mWakelockTimeoutStartTime, mWakelockTimeoutResetTime,
  wakeLockHeld,               \* the kernel's view of kWakelockName
  mWakeLockQueue,             \* events acknowledged in the FMQ and not read
  mEventQueueWriteMutex,
  wakelockThread, readDeadline,
  writerRuns,                 \* the pending-writes thread has not ended
  asleep,                     \* workers that the notification of stopThreads missed
  binder,                     \* where the binder thread is in initialize()
  pc, locked, createdAt, wakeups,   \* of each client: its ScopedWakelock and batch
  unacked,                    \* wake-up events posted, neither acked nor dropped
  posts, inits                \* counters for the bounds

(***************************************************************************)
(* Ghosts: who owns each reference.  counted: the batch being posted,      *)
(* before its events are written.  outstanding: posted events whose        *)
(* reference is in the count; unreferenced: posted events whose reference  *)
(* is gone.  stranded: references nobody will give back.  overReleased:    *)
(* since the last reset, references of others were given back.             *)
(***************************************************************************)
VARIABLES counted, outstanding, unreferenced, stranded, overReleased

clockVars  == <<now, mWakelockTimeoutStartTime, mWakelockTimeoutResetTime>>
refVars    == <<mWakelockRefCount, wakeLockHeld>>
ackVars    == <<mWakeLockQueue, unacked>>
workerVars == <<wakelockThread, readDeadline>>
clientVars == <<pc, locked, createdAt, wakeups, mEventQueueWriteMutex, posts>>
initVars   == <<mThreadsRun, binder, inits, writerRuns, asleep>>
ghostVars  == <<counted, outstanding, unreferenced, stranded, overReleased>>
vars == <<clockVars, refVars, ackVars, workerVars, clientVars, initVars, ghostVars>>

AtMost(a, b) == IF a < b THEN a ELSE b

\* Scoped references the count still holds: taken since the last reset.
Fresh == {c \in Clients : locked[c] /\ createdAt[c] >= mWakelockTimeoutResetTime}

Init ==
  /\ now = 0 /\ mWakelockTimeoutStartTime = 0 /\ mWakelockTimeoutResetTime = 0
  /\ mWakelockRefCount = 0 /\ wakeLockHeld = FALSE
  /\ mWakeLockQueue = 0 /\ unacked = 0
  /\ wakelockThread = "off" /\ readDeadline = 0
  /\ pc = [c \in Clients |-> "idle"]
  /\ locked = [c \in Clients |-> FALSE]
  /\ createdAt = [c \in Clients |-> 0]
  /\ wakeups = [c \in Clients |-> 0]
  /\ mEventQueueWriteMutex = NoClient /\ posts = 0
  /\ mThreadsRun = FALSE /\ binder = "idle" /\ inits = 0
  /\ writerRuns = FALSE /\ asleep = {}
  /\ counted = 0 /\ outstanding = 0 /\ unreferenced = 0 /\ stranded = 0
  /\ overReleased = FALSE
-----------------------------------------------------------------------------
(* The reference counter: the locked sections of its three functions.      *)

\* Mutant: the count is tested once it has been incremented.
AcquiresLate == FALSE

\* The first reference acquires the kernel's wake lock.
Acquires == mWakelockRefCount = 0

\* incrementRefCountAndMaybeAcquireWakelock past the test of mThreadsRun.  The
\* first reference notifies the wake lock thread.
IncrementRefCount(delta) ==
  /\ mWakelockRefCount' = mWakelockRefCount + delta
  /\ wakeLockHeld' = (wakeLockHeld \/ Acquires)
  /\ mWakelockTimeoutStartTime' = now
  /\ asleep' = IF Acquires THEN asleep \ {"wakelock"} ELSE asleep
  /\ UNCHANGED <<now, mWakelockTimeoutResetTime, mThreadsRun, binder, inits, writerRuns>>

\* Mutant: a scoped wake lock older than the last reset still gives back.
OutdatedNever(timeoutStart) == FALSE

\* The reference a time stands for was given back by a reset since.
Outdated(timeoutStart) == timeoutStart < mWakelockTimeoutResetTime

\* decrementRefCountAndMaybeReleaseWakelock past the test of mThreadsRun
DecrementRefCount(delta, timeoutStart) ==
  IF mWakelockRefCount = 0 \/ Outdated(timeoutStart)
    THEN UNCHANGED refVars
    ELSE /\ mWakelockRefCount' = mWakelockRefCount - AtMost(mWakelockRefCount, delta)
         /\ wakeLockHeld' = (wakeLockHeld /\ mWakelockRefCount' # 0)

\* Mutant: the reset time is not recorded.
ResetTimeKept == mWakelockTimeoutResetTime

\* A later reading of the clock than any before.
ResetTime == now + 1

\* resetSharedWakelock.  Its decrement does nothing while the threads are
\* stopped.
ResetSharedWakelock ==
  /\ IF mThreadsRun
       THEN DecrementRefCount(mWakelockRefCount, mWakelockTimeoutResetTime)
       ELSE UNCHANGED refVars
  /\ now' = now + 1
  /\ mWakelockTimeoutResetTime' = ResetTime
  /\ counted' = 0
  /\ outstanding' = 0
  /\ stranded' = mWakelockRefCount'
  /\ overReleased' = FALSE
  /\ UNCHANGED mWakelockTimeoutStartTime

\* `settled` posted events leave the accounts (acknowledged or dropped) and
\* `delta` references are given back for them; the oldest events go first,
\* and those are the ones that lost their reference.  running: what the
\* decrement's test of mThreadsRun said.
SettleEvents(settled, delta, running) ==
  LET late == AtMost(settled, unreferenced)
      own  == settled - late
  IN /\ unreferenced' = unreferenced - late
     /\ outstanding' = outstanding - own
     /\ IF running
          THEN /\ DecrementRefCount(delta, mWakelockTimeoutResetTime)
               /\ overReleased' = (overReleased \/ (mWakelockRefCount > 0 /\ delta > own))
               /\ UNCHANGED stranded
          ELSE /\ stranded' = stranded + own
               /\ UNCHANGED <<refVars, overReleased>>
     /\ UNCHANGED counted
-----------------------------------------------------------------------------
(* Sub-HAL threads: createScopedWakelock, postEvents, ~ScopedWakelock.     *)

Goto(c, to) == pc' = [pc EXCEPT ![c] = to]

\* The batch and its ScopedWakelock are gone.
Finish(c) ==
  /\ Goto(c, "idle")
  /\ locked' = [locked EXCEPT ![c] = FALSE]
  /\ createdAt' = [createdAt EXCEPT ![c] = 0]
  /\ wakeups' = [wakeups EXCEPT ![c] = 0]

\* createScopedWakelock(lock) before a batch with w wake-up events: a sub-HAL
\* asks for the lock exactly when there are some.  Tests mThreadsRun.  A sub-HAL
\* has the callback it does this with from the first initialize() on.
CreateScopedWakelock(c, w) ==
  /\ pc[c] = "idle" /\ posts < MaxPosts /\ (mThreadsRun \/ inits > 1)
  /\ posts' = posts + 1
  /\ wakeups' = [wakeups EXCEPT ![c] = w]
  /\ Goto(c, IF w > 0 /\ mThreadsRun THEN "creating" ELSE "created")
  /\ UNCHANGED <<clockVars, refVars, ackVars, workerVars, initVars, ghostVars,
                 locked, createdAt, mEventQueueWriteMutex>>

\* The locked section of the increment of ScopedWakelock's constructor.
AcquireScopedWakelock(c) ==
  /\ pc[c] = "creating"
  /\ IncrementRefCount(1)
  /\ locked' = [locked EXCEPT ![c] = TRUE]
  /\ createdAt' = [createdAt EXCEPT ![c] = now]
  /\ Goto(c, "created")
  /\ UNCHANGED <<ackVars, workerVars, ghostVars, wakeups, mEventQueueWriteMutex, posts>>

\* postEvents tests areThreadsRunning(): the batch is given up if they are not.
PostEvents(c) ==
  /\ pc[c] = "created"
  /\ Goto(c, IF mThreadsRun THEN "posting" ELSE "destroying")
  /\ UNCHANGED <<clockVars, refVars, ackVars, workerVars, initVars, ghostVars,
                 locked, createdAt, wakeups, mEventQueueWriteMutex, posts>>

\* postEventsToMessageQueue takes mEventQueueWriteMutex and, for a locked
\* wake lock, starts the increment: its test of mThreadsRun.
LockEventQueue(c) ==
  /\ pc[c] = "posting" /\ mEventQueueWriteMutex = NoClient
  /\ mEventQueueWriteMutex' = c
  /\ Goto(c, IF locked[c] /\ mThreadsRun THEN "counting" ELSE "writing")
  /\ UNCHANGED <<clockVars, refVars, ackVars, workerVars, initVars, ghostVars,
                 locked, createdAt, wakeups, posts>>

\* The locked section of that increment.
CountWakeupEvents(c) ==
  /\ pc[c] = "counting"
  /\ IncrementRefCount(wakeups[c])
  /\ counted' = wakeups[c]
  /\ Goto(c, "writing")
  /\ UNCHANGED <<ackVars, workerVars, outstanding, unreferenced, stranded,
                 overReleased, locked, createdAt, wakeups, mEventQueueWriteMutex, posts>>

\* The batch goes to the event FMQ and the pending queue, less the `dropped`
\* wake-up events that fit in neither; the mutex is released.  A batch that
\* waits notifies the pending-writes thread.
WriteEvents(c, dropped) ==
  /\ pc[c] = "writing" /\ dropped <= wakeups[c]
  /\ LET kept == wakeups[c] - dropped IN
       /\ unacked' = unacked + kept
       /\ IF counted > 0
            THEN /\ outstanding' = outstanding + kept
                 /\ stranded' = stranded + dropped
                 /\ UNCHANGED unreferenced
            ELSE /\ unreferenced' = unreferenced + kept
                 /\ UNCHANGED <<outstanding, stranded>>
  /\ counted' = 0
  /\ mEventQueueWriteMutex' = NoClient
  /\ Goto(c, "destroying")
  /\ asleep' \in {asleep, asleep \ {"writes"}}
  /\ UNCHANGED <<clockVars, refVars, mWakeLockQueue, workerVars, mThreadsRun, binder, inits,
                 writerRuns, overReleased, locked, createdAt, wakeups, posts>>

\* ~ScopedWakelock tests mThreadsRun: a reference given back while the
\* threads are stopped stays in the count.
DestroyScopedWakelock(c) ==
  /\ pc[c] = "destroying"
  /\ IF locked[c] /\ mThreadsRun
       THEN Goto(c, "releasing") /\ UNCHANGED <<locked, createdAt, wakeups, stranded>>
       ELSE Finish(c) /\ stranded' = stranded + (IF c \in Fresh THEN 1 ELSE 0)
  /\ UNCHANGED <<clockVars, refVars, ackVars, workerVars, initVars, mEventQueueWriteMutex,
                 posts, counted, outstanding, unreferenced, overReleased>>

\* The locked section of its decrement.
ReleaseScopedWakelock(c) ==
  /\ pc[c] = "releasing"
  /\ DecrementRefCount(1, createdAt[c])
  /\ Finish(c)
  /\ UNCHANGED <<clockVars, ackVars, workerVars, initVars, ghostVars,
                 mEventQueueWriteMutex, posts>>

\* The pending-writes thread could not write a batch in time: `dropped`
\* wake-up events are lost and it gives back `delta` references.  It may have
\* tested mThreadsRun before a stop.
DropPendingEvents(dropped, delta, running) ==
  /\ writerRuns /\ running \in {mThreadsRun, TRUE}
  /\ dropped <= unacked
  /\ unacked' = unacked - dropped
  /\ SettleEvents(dropped, delta, running)
  /\ UNCHANGED <<clockVars, mWakeLockQueue, workerVars, clientVars, initVars>>

\* The pending-writes thread finds mThreadsRun cleared and ends.
PendingWritesExit ==
  /\ writerRuns /\ ~mThreadsRun /\ "writes" \notin asleep
  /\ writerRuns' = FALSE
  /\ UNCHANGED <<clockVars, refVars, ackVars, workerVars, clientVars, mThreadsRun, binder,
                 inits, asleep, ghostVars>>
-----------------------------------------------------------------------------
(* The framework and the wake lock thread, handleWakelocks.                *)

\* The framework has handled k wake-up events and says so in the FMQ.
FrameworkAck(k) ==
  /\ k <= unacked
  /\ unacked' = unacked - k
  /\ mWakeLockQueue' = mWakeLockQueue + k
  /\ UNCHANGED <<clockVars, refVars, workerVars, clientVars, initVars, ghostVars>>

TimedOut == now - mWakelockTimeoutStartTime > kWakelockTimeout

\* The wait of mWakelockCV ends and sharedWakelockDidTimeout says no.
WaitForAcks ==
  /\ wakelockThread = "waiting" /\ mThreadsRun /\ mWakelockRefCount > 0 /\ ~TimedOut
  /\ wakelockThread' = "reading"
  /\ readDeadline' = mWakelockTimeoutStartTime + kWakelockTimeout
  /\ UNCHANGED <<clockVars, refVars, ackVars, clientVars, initVars, ghostVars>>

\* The wait ends and sharedWakelockDidTimeout says yes.
TimeoutSharedWakelock ==
  /\ wakelockThread = "waiting" /\ mThreadsRun /\ mWakelockRefCount > 0 /\ TimedOut
  /\ ResetSharedWakelock
  /\ unreferenced' = unreferenced + outstanding
  /\ UNCHANGED <<ackVars, workerVars, clientVars, initVars>>

\* readBlocking returns an entry of the FMQ with k acknowledged events.
ReadAcks(k) ==
  /\ wakelockThread = "reading" /\ mThreadsRun /\ k <= mWakeLockQueue
  /\ mWakeLockQueue' = mWakeLockQueue - k
  /\ SettleEvents(k, k, mThreadsRun)
  /\ wakelockThread' = "waiting" /\ readDeadline' = 0
  /\ UNCHANGED <<clockVars, unacked, clientVars, initVars>>

\* Mutant: a read that times out resets without asking for the time again.
ReadTimeoutResets ==
  /\ wakelockThread = "reading" /\ mThreadsRun /\ now >= readDeadline
  /\ wakelockThread' = "waiting" /\ readDeadline' = 0
  /\ ResetSharedWakelock
  /\ unreferenced' = unreferenced + outstanding
  /\ UNCHANGED <<ackVars, clientVars, initVars>>

\* Mutant: the read is tried again without a look at the count and the time.
AfterReadTimeoutRetry == "reading"

\* Where the loop of handleWakelocks goes on after a read that timed out.
AfterReadTimeout == "waiting"

\* readBlocking returns without an entry after timeLeft.
ReadTimeout ==
  /\ wakelockThread = "reading" /\ mThreadsRun /\ now >= readDeadline
  /\ wakelockThread' = AfterReadTimeout /\ readDeadline' = 0
  /\ UNCHANGED <<clockVars, refVars, ackVars, clientVars, initVars, ghostVars>>

\* The threads are stopped: the thread leaves its loop and resets.  If it was
\* in readBlocking, that first returns an entry whose decrement does nothing
\* (k = 0: the zero stopThreads wrote).
WakelockThreadExit(k) ==
  /\ wakelockThread \in {"waiting", "reading"} /\ ~mThreadsRun
  /\ "wakelock" \notin asleep
  /\ k <= (IF wakelockThread = "reading" THEN mWakeLockQueue ELSE 0)
  /\ mWakeLockQueue' = mWakeLockQueue - k
  /\ ResetSharedWakelock
  /\ unreferenced' = unreferenced + outstanding - k
  /\ wakelockThread' = "off" /\ readDeadline' = 0
  /\ UNCHANGED <<unacked, clientVars, initVars>>

\* Time passes; nothing looks at the clock once it is past the timeout.
Tick ==
  /\ mWakelockRefCount > 0 /\ ~TimedOut
  /\ now' = now + 1
  /\ UNCHANGED <<mWakelockTimeoutStartTime, mWakelockTimeoutResetTime, refVars, ackVars,
                 workerVars, clientVars, initVars, ghostVars>>
-----------------------------------------------------------------------------
(* initializeCommon, on the binder thread.                                 *)

\* The workers that may have found nothing to do when mThreadsRun was still
\* set, and go to sleep only after the notification of stopThreads.  What the
\* pending-writes thread finds is in EventQueue.
MayMissStop ==
  (IF wakelockThread = "waiting" /\ mWakelockRefCount = 0 THEN {"wakelock"} ELSE {})
    \cup (IF writerRuns THEN {"writes"} ELSE {})

\* initialize() is called; stopThreads stores mThreadsRun and wakes the threads.
StopThreads ==
  /\ binder = "idle" /\ inits < MaxInits
  /\ inits' = inits + 1
  /\ mThreadsRun' = FALSE
  /\ asleep' \in SUBSET MayMissStop
  /\ binder' = "stopping"
  /\ UNCHANGED <<clockVars, refVars, ackVars, workerVars, clientVars, writerRuns, ghostVars>>

\* Both threads are joined, then resetSharedWakelock.
ResetStopped ==
  /\ binder = "stopping" /\ ~writerRuns /\ wakelockThread = "off"
  /\ ResetSharedWakelock
  /\ unreferenced' = unreferenced + outstanding
  /\ binder' = "replacing"
  /\ UNCHANGED <<ackVars, workerVars, clientVars, mThreadsRun, inits, writerRuns, asleep>>

\* The pending queue is cleared and both FMQs are replaced by empty ones.  The
\* `kept` wake-up events that posts in flight pushed since the queue was
\* cleared, the newest, stay.
ReplaceQueues(kept) ==
  /\ binder = "replacing"
  /\ mWakeLockQueue' = 0 /\ unacked' = kept
  /\ SettleEvents(unacked + mWakeLockQueue - kept, 0, FALSE)
  /\ binder' = "starting"
  /\ UNCHANGED <<clockVars, workerVars, clientVars, mThreadsRun, inits, writerRuns, asleep>>

\* mThreadsRun is stored and the threads are created.
StartThreads ==
  /\ binder = "starting"
  /\ mThreadsRun' = TRUE
  /\ wakelockThread' = "waiting" /\ writerRuns' = TRUE
  /\ binder' = "idle"
  /\ UNCHANGED <<clockVars, refVars, ackVars, readDeadline, clientVars, inits, asleep, ghostVars>>
-----------------------------------------------------------------------------
Client(c) ==
  \/ \E w \in 0..MaxWake : CreateScopedWakelock(c, w)
  \/ AcquireScopedWakelock(c)
  \/ PostEvents(c)
  \/ LockEventQueue(c)
  \/ CountWakeupEvents(c)
  \/ \E d \in 0..MaxWake : WriteEvents(c, d)
  \/ DestroyScopedWakelock(c)
  \/ ReleaseScopedWakelock(c)

\* A failed write gives back at least the references of the events it loses.
PendingWrites ==
  \E dropped \in 0..MaxWake : \E delta \in dropped..MaxWake : \E running \in BOOLEAN :
    delta > 0 /\ DropPendingEvents(dropped, delta, running)

Framework == \E k \in 1..unacked : FrameworkAck(k)

WakelockThread ==
  \/ WaitForAcks
  \/ TimeoutSharedWakelock
  \/ \E k \in 1..mWakeLockQueue : ReadAcks(k)
  \/ ReadTimeout
  \/ \E k \in 0..mWakeLockQueue : WakelockThreadExit(k)

InitializeSteps ==
  ResetStopped \/ (\E kept \in 0..unacked : ReplaceQueues(kept)) \/ StartThreads

Next ==
  \/ \E c \in Clients : Client(c)
  \/ PendingWrites \/ PendingWritesExit
  \/ Framework
  \/ WakelockThread
  \/ StopThreads
  \/ InitializeSteps
  \/ Tick

Spec == Init /\ [][Next]_vars

\* Nothing is assumed of the framework or of the sub-HALs: only that the two
\* workers and the binder thread are scheduled, and that time passes.
FairSpec ==
  /\ Spec
  /\ WF_vars(WakelockThread) /\ WF_vars(PendingWritesExit)
  /\ WF_vars(InitializeSteps) /\ WF_vars(Tick)
-----------------------------------------------------------------------------
ClientStates == {"idle", "creating", "created", "posting", "counting", "writing",
                 "destroying", "releasing"}

\* Every variable has its type.
TypeOK ==
  /\ now \in Nat /\ mWakelockTimeoutStartTime \in Nat /\ mWakelockTimeoutResetTime \in Nat
  /\ mWakelockRefCount \in Nat /\ wakeLockHeld \in BOOLEAN
  /\ mWakeLockQueue \in Nat /\ unacked \in Nat
  /\ wakelockThread \in {"off", "waiting", "reading"} /\ readDeadline \in Nat
  /\ pc \in [Clients -> ClientStates]
  /\ locked \in [Clients -> BOOLEAN]
  /\ createdAt \in [Clients -> Nat]
  /\ wakeups \in [Clients -> 0..MaxWake]
  /\ mEventQueueWriteMutex \in Clients \cup {NoClient}
  /\ posts \in Nat /\ inits \in Nat
  /\ writerRuns \in BOOLEAN /\ asleep \subseteq {"writes", "wakelock"}
  /\ mThreadsRun \in BOOLEAN /\ binder \in {"idle", "stopping", "replacing", "starting"}
  /\ counted \in Nat /\ outstanding \in Nat /\ unreferenced \in Nat /\ stranded \in Nat
  /\ overReleased \in BOOLEAN

\* The kernel wake lock is held exactly while the count is positive, through
\* every stop, restart, timeout and late acknowledgement.
HeldIffCounted == wakeLockHeld <=> mWakelockRefCount > 0

\* Unless references were given back twice since the last reset, each unit of
\* mWakelockRefCount is a scoped wake lock taken since that reset, a wake-up
\* event not yet acknowledged, or a reference stranded by a stop or a drop.
RefsAccounted ==
  ~overReleased =>
    mWakelockRefCount = Cardinality(Fresh) + counted + outstanding + stranded

\* The framework owes or has sent an acknowledgement for exactly the posted
\* events in the accounts: an acknowledgement is never counted twice.
AcksAccounted == unacked + mWakeLockQueue = outstanding + unreferenced

\* No wake-up event whose reference was taken waits for the framework with the
\* kernel wake lock released: the device cannot suspend before it is handled.
WakeEventsCovered ==
  ~overReleased /\ (Fresh # {} \/ counted > 0 \/ outstanding > 0) => wakeLockHeld

\* The wake lock is released only when nothing it protects is left and no event
\* loses its reference with it, when the timeout has passed since the last
\* increment, or after references were given back that were not the giver's.
ReleasedOnlyWhenDue ==
  [][wakeLockHeld /\ ~wakeLockHeld' =>
       \/ TimedOut
       \/ overReleased'
       \/ /\ Fresh' = {} /\ counted' = 0 /\ outstanding' = 0
          /\ unreferenced' <= unreferenced]_vars

\* The wake lock is never held for ever, whatever the sub-HALs and the
\* framework do or fail to do once posting stops, unless initialize() waits for
\* ever for a pending-writes thread that the notification of the stop missed.
EventuallyReleased ==
  \/ <>[]("writes" \in asleep)
  \/ wakeLockHeld ~> ~wakeLockHeld

\* What a client's place in its code says of its wake lock, its batch and the mutex.
ClientsInStep ==
  /\ \A c \in Clients :
       /\ locked[c] => pc[c] \notin {"idle", "creating"} /\ wakeups[c] > 0
       /\ pc[c] = "releasing" => locked[c]
       /\ pc[c] \in {"creating", "counting"} => wakeups[c] > 0
       /\ pc[c] \in {"counting", "writing"} <=> mEventQueueWriteMutex = c
  /\ counted > 0 => \E c \in Clients : pc[c] = "writing" /\ counted = wakeups[c]

\* Every time kept is a past reading of the clock.
TimesPast ==
  /\ mWakelockTimeoutStartTime <= now /\ mWakelockTimeoutResetTime <= now
  /\ \A c \in Clients : createdAt[c] <= now

\* Inside initializeCommon the threads are stopped.
BinderInStep == binder # "idle" => ~mThreadsRun

\* The inductive invariant: the reference accounts hold because no client but
\* the holder of the mutex is between its increment and its write, and because
\* a reset is later than the scoped wake locks it makes stale.
IInv ==
  /\ TypeOK /\ AcksAccounted
  /\ HeldIffCounted /\ ClientsInStep
  /\ TimesPast /\ RefsAccounted /\ BinderInStep

\* HalProxyCallback.cpp asserts that a batch with wake-up events carries a
\* locked wake lock once it has passed areThreadsRunning().
WakeupEventsPostedLocked ==
  \A c \in Clients : pc[c] = "posting" /\ wakeups[c] > 0 => locked[c]
=============================================================================
