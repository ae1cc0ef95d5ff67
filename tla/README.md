# Verification of device_oneplus_sm8150-common

TLA+ models of the programs in this device tree, the TLC runs that check them on small instances, and
proofs checked by TLAPS. The tree is mostly data (overlays, property files, build configuration); the
programs in it are the sensors multi-HAL, the pop-up camera helper, the ambient light correction with
its screen capture service, a torch extension and a few init scripts.

`PROJECT.json` lists the components, the runs, the mutants that show each property can fail, the source
lines each definition stands for, the hazards the properties are aimed at, the findings and the theorems.

## 1. The system

### Parts, their state and their operations

| Part | State | Operations |
|---|---|---|
| **Shared wake lock** `sensors/HalProxy.cpp`, `HalProxyCallback.cpp` | `mWakelockRefCount`, the times of the last increment and the last reset, the kernel wake lock, the wake lock FMQ | `increment/decrementRefCount...`, `createScopedWakelock`, `handleWakelocks`, `resetSharedWakelock` |
| **Event queues** `sensors/HalProxy.cpp` | event FMQ, `mPendingWriteEventsQueue` and its size kept by hand | `postEventsToMessageQueue`, `handlePendingWrites`, `stopThreads`, `initializeCommon` |
| **Worker threads** `sensors/HalProxy.cpp` | `mThreadsRun`, two condition variables, two threads | `stopThreads`, `initializeCommon`, both workers' waits |
| **Sensor list, dynamic sensors, operation mode, direct channels** `sensors/HalProxy.cpp`, `service.cpp` | `mSensors`, `mDynamicSensors`, `mDirectChannelSubHal`, `mCurrentOperationMode`, the callback | `initializeSensorList`, `activate`, `setOperationMode`, `injectSensorData`, `configDirectReport`, `onDynamicSensors(Dis)connected`, `disableAllSensors` |
| **Pop-up camera** `camera_helper/` | delayed messages, times of the last open and close, the motor's sysfs nodes, dialogs, the fall sensor's registration | availability callbacks, `handleMessage`, `onSensorChanged`, `handleKeyEvent`, buttons of the dialogs, screen broadcasts |
| **Ambient light correction** `sensors/AlsCorrection.cpp` | hysteresis, last corrected value, times of the last and the last forced update | `init`, `process` |
| **Screen area capture** `als/default/` | the rectangle | `getAreaBrightness` |
| **Torch** `camera/CameraProviderExtension.cpp` | three sysfs files | `setTorchStrengthLevelExt`, `setTorchModeExt` |
| **Modem configuration** `init/init.qcom.sh`, `init.qcom.rc` | `/data/vendor/modem_config`, the flag `copy_complete` | comparing versions, removing, copying, setting the flag |
| **Other init scripts** `init/` | properties | starting services, setting properties once |
| Build files, overlays, audio, media, key layouts, properties, policy | none at run time | none |

### How they interact

The framework calls the HAL over binder; `service.cpp` gives it one binder thread, so that framework
calls come one at a time. Each sub-HAL has threads of its own that call `HalProxyCallback` at any time:
they take a scoped wake lock, post events, and connect or remove dynamic sensors. Events go to the
framework through the event FMQ, directly or by way of the pending queue and the pending-writes thread;
the framework gives references back through the wake lock FMQ, which the wake lock thread reads. When
the framework restarts it calls `initialize()` again, while all of these go on. `AlsCorrection::process`
is called for light sensor events under `mEventQueueWriteMutex`, and calls the capture service.
`CameraMotorService` and `FallSensor` share the helper's main looper; `KeyHandler` is loaded by the
system server; both processes write the same motor nodes. At boot init clears the flag, starts the radio
daemon, which waits for it, and the script, which copies the firmware's modem configuration if it is new;
a property the script sets makes init set the flag.

### What is hard

Locks that cover a part of what they seem to cover (`mThreadsRun` is tested without one, `initializeCommon`
takes none), condition variables notified without their mutex, references that are given back by three
parties and may be stale, partial writes of a batch, a queue size kept by hand, a second `initialize()`
in the middle of anything, rollbacks whose errors are ignored, and, in the camera helper, delayed
messages against fast events, commands of two writes from two processes, failing writes, and crashes; and in
the script, commands whose failures are ignored and a reset at any moment with any file not yet on the disk. The full list, with
lines, is `hazards` in `PROJECT.json`; entries without a property have a note that says why.

### What makes each part correct

* Wake lock: each unit of the count has an owner; the kernel lock follows the count and covers every
  wake-up event on its way; it is released for a reason, and is always released in the end.
* Queues: events arrive in the order posted, none twice; the size kept by hand is the real one; the
  pending queue empties whatever the framework does.
* Threads: nothing is freed under a worker; nobody sleeps over work; `initialize()` returns.
* Registry: a handle leads back to its sensor, and an event's sensor has the flags its sub-HAL gave it; the framework's view of dynamic sensors agrees with the
  map; sub-HALs agree on the mode; all sensors are off before a restart.
* Camera: the motor ends where the last event wants it, without bouncing, through crashes; a fall closes it.
* Modem configuration: the flag is of this boot, is always set in the end, and means that the files are those
  of the firmware that runs.
* Light: a reported value is not older than the forced update allows, screenshots are spaced, values keep
  coming when screenshots fail.

## 2. The modules

| Module | What it is |
|---|---|
| `SharedWakelock` | the wake lock protocol, at the grain of `mWakelockMutex` and `mEventQueueWriteMutex` sections |
| `SharedWakelock_proofs` | its inductive invariant and theorems |
| `EventStream` | abstract specification: a lossy ordered stream |
| `EventQueue` | both queues and the pending-writes thread; implements `EventStream` |
| `EventQueue_proofs` | its inductive invariant, the laws of sequences it needs, and the refinement |
| `EventDelivery` | composition of `EventQueue` and `SharedWakelock`; implements both `SharedWakelock` and `EventStream` |
| `EventDelivery_proofs` | the proofs of that, and what only holds of the two together |
| `HalLifecycle` | stop, join and restart at the grain of the condition variables |
| `HalLifecycle_proofs` | its inductive invariant and theorems |
| `SensorRegistry` | sensor list, dynamic sensors, operation mode, direct channels |
| `SensorRegistry_proofs` | its inductive invariant and theorems |
| `CameraMotor` | the pop-up camera helper |
| `CameraMotor_proofs` | its inductive invariant and theorems |
| `AlsCorrection` | the light correction's decisions, with the capture service |
| `AlsCorrection_proofs` | its inductive invariant and theorems |
| `ModemConfig` | the copy of the modem's configuration at boot, with failures and resets |
| `ModemConfig_proofs` | its inductive invariant and theorems |
| `MC*` | instances of these for TLC |

### SharedWakelock

A client is a sub-HAL thread in one post: `CreateScopedWakelock`, `AcquireScopedWakelock`, `PostEvents`,
`LockEventQueue`, `CountWakeupEvents`, `WriteEvents`, `DestroyScopedWakelock`, `ReleaseScopedWakelock`.
The test of `mThreadsRun` and the locked section after it are two steps for a client, as the code does not
hold a lock over both; `DropPendingEvents` has the value it tested as a parameter. The wake lock thread's sections are `WaitForAcks`, `TimeoutSharedWakelock`,
`ReadAcks`, `ReadTimeout` and its exit with the final reset. The events themselves are only counted:
`WriteEvents(c, dropped)` chooses how many are lost to an overflow, and `DropPendingEvents(dropped, delta, running)`
how many references a failed write gives back, at least as many as it loses events. The ghosts `counted`,
`outstanding`, `unreferenced`, `stranded` and `overReleased` say who owns each unit of the count. When an
acknowledgement arrives for one of several events, the model settles first the events whose reference is
already gone. Acknowledgements in the FMQ are summed; a reader takes any part of the sum. Clock readings
at a reset are strictly later than those before it, as the boot-time clock in nanoseconds makes them.
`stopThreads` joins both threads before the reset, and each may have missed its notification (finding 3): the ghost
`asleep` holds those that did. `StopThreads` chooses it among the threads that may be about to sleep, a later
notification, by a post still in flight, takes a thread out of it, and until then that thread does not exit.
`ReplaceQueues(kept)` leaves the wake-up events that posts in flight pushed after the pending queue was cleared.
A sub-HAL takes a locked scoped wake lock exactly for batches with wake-up events, as the assertions in
`HalProxyCallback.cpp` require of it.

### EventQueue, EventStream, EventDelivery

`EventQueue` numbers the events and keeps batches as sequences. A post is one action, because its section
holds `mEventQueueWriteMutex`; the pending-writes thread has six, because it writes outside the mutex
with a reference to the front batch, and gives references back between a failed write and the removal. The write of
the FMQ in a post may fail too. `initializeCommon` clears the pending queue (`ClearPending`), sets its size to 0
(`ResetSize`) and replaces the FMQ (`ReplaceQueues`) without the mutex; posts that passed `areThreadsRunning()` before the
stop can come between any two of these. What such a post pushes between the first two stays queued and is not in the
size: the ghost `unsized` counts it, and `PendingSizeExact` says that nothing else is missing. The size is that of a
`size_t`, counted modulo `SizeSpan`, so that it wraps when these events are popped, as it does in the code. That the
assignment of the queue is itself a data race with such a post is finding 4; what a torn queue would do is not
modelled. `Joined` waits for both workers; of the wake lock thread, which is in `SharedWakelock`, only that it may have
missed the notification is kept, in `asleep`. `EventStream` is what it promises: what is delivered was posted, once,
in order. The refinement maps the FMQ followed by the pending batches (less the part already written) to
the events in transit. `EventDelivery` joins the steps of both modules: each of its actions is an action
of `EventQueue`, of `SharedWakelock`, or one of each, with the number of wake-up events computed from the
batch instead of chosen. The binder thread's finer steps in `EventQueue` leave the wake lock alone; `WakelockBinder` maps
its place, and `WriterRuns` whether the pending-writes thread is still to be joined. Its property `ImplementsSharedWakelock` shows that the freedom `SharedWakelock`
leaves to its environment is enough for the real event path, so that what is proved of `SharedWakelock`
holds with the real event path. `AcksFollowEvents` and `AwakeForEvents` relate the two: neither module alone
knows both which events are on their way and whether the device may sleep. Events that lost their reference to
the timeout (or never had one) are only counted, so that `AwakeForEvents` says there is a reference
if there are more events than those, not which event has it.

### HalLifecycle

A worker tests its predicate holding its mutex and is blocked by a later step; in between it holds the
mutex but `notify_one` does not reach it. `stopThreads` is five steps (store, two notifications, the
joins), `initializeCommon` one per block. Queues are reduced to a number of batches and a flag.

### SensorRegistry

The binder thread's operations are actions while it is not in `initialize()`; the parts of `initialize()`
that concern dynamic sensors are actions of their own, because they hold no lock. A dynamic sensor call is
two actions, the change of the map under its mutex and the call to the framework after it, and `Threads` are the
threads of a sub-HAL that make such calls: they overlap, so that two calls for the same sensor may be told to the
framework in the other order than they changed the map. The ghost `crossed` holds those sensors, and
`DynamicSensorsAgree` excepts them: the framework is then left with a sensor that is gone, or without one that is there,
and nothing tells it again before the next restart. What a sub-HAL reports alternates: it connects
a sensor that is gone and disconnects one that is there.

The framework is told of dynamic sensors with the flags they have: `setDirectChannelFlags`, whose comment says that
sensors of all sub-HALs but one are to lose their direct channels (`HalProxy.cpp:744-745`), is only called for the static list.
`DirectReportsReachSensor` therefore says of dynamic sensors only that those of the sub-HAL with the direct
channels are the ones their reports are configured on; the direct reports of another sub-HAL's are configured on a sensor of that
one, under the same lower bits.

`HandleSpan`
stands for 2^24 (the sub-HAL's index is in the upper byte). `ReplaceCallback` and `ClearDynamicSensors` are
in the order of the code. A sub-HAL's `initialize` puts it in normal mode with no dynamic sensors, unless it fails.
`DisabledBeforeClear` has two exceptions, which are what the code does: a dynamic sensor whose call raced a restart
(`raced`) is told to the framework and not in the map that `disableAllSensors` walks, or no longer (the same can come of calls
told in the other order, but then the sub-HAL has the sensor no more, or it is in the map); and an
entry that a lookup of an unknown handle left behind offers handle 0, with which the framework can enable a
dynamic sensor of sub-HAL 0 that is not (or not yet) in the map. It also takes it that a sub-HAL's `activate(false)`
succeeds: `disableAllSensors` ignores what it returns (566, 571).

An event is looked up by its sub-HAL's thread (`PostEvents`) and, when a pending batch that does not fit the
FMQ was not written in time, again by the pending-writes thread (`CountNumWakeupEvents`). Both use
`operator[]`, so that both may insert: `HandlesRouted` names what is left behind. `WakeupsAgree` compares the three
places that decide whether an event is a wake-up event: the sub-HAL, the proxy and the framework. Its two
exceptions are what the code does to dynamic sensors and to light events that `AlsCorrection` drops. That the
insertion is itself unsynchronised with the binder thread's walks of the map is undefined behaviour
whose outcomes are not modelled, beyond the entry it makes.

### CameraMotor

The camera service's callbacks, delayed messages and time are explicit; a message is delivered at any time
after it is due. There are two clocks: `now` is `uptimeMillis`, in which a `Handler` keeps its delays, and `slept` the time
spent in suspend (`Suspend`), so that their sum is `elapsedRealtime`, in which the service asks whether the opposite event is recent. After a
suspend with a message waiting the opposite event is no longer recent, removes nothing, and both messages are
delivered as close together as the wake-up and the event were: `Debounced` allows for the time slept between them.
A motor command is the write of the direction and then of the enable, by the helper's
main looper or by the system server, so that the commands of the two interleave. The motor is external:
enabled, it goes in the direction the node holds then, passing through an intermediate position. The
helper can crash at any point; its sticky services are started again, which registers the callback anew
and enables the fall sensor. `onSensorChanged` crashes it if the position cannot be read. Any write to the
motor's nodes can fail, which is only logged: the direction then stays and the motor is enabled in the old one,
or it is not enabled. The ghost `unwritten` holds the nodes whose last write failed. Notices to a stuck motor come as keys. Every kind of dialog is counted.
`onSensorChanged` asks where the motor is, so that it ignores a fall that comes after the command to rise and
before the camera has left its place; `FallKeepsClosed` is about the falls it does see.

### AlsCorrection

`process()` holds `mEventQueueWriteMutex`, so that it is one action, split by its outcome: `DropTooFast`,
`Reuse`, `CaptureFails`, `Correct`. The screenshot is external and can fail, or there is no service at all.
Times are ages that stop growing where no test tells them apart any more. The polynomials over the colours
are reduced to what they come to, an estimate clipped to the white of the panel; brightness to the white
it gives. Light is a fixed-point number: a reading times a gain is in a unit of which `Lux` make one lux, so
that gains may be below 1 as well; `calib_gain` is a factor of the gains. The rounding of the code's floats is abstracted,
and the gains of the table are taken to be positive. There is one light sensor. The gain a sensor had for a
reading above `agc_threshold` is estimated from data of the vendor's driver and is any of the table's. The ghosts
`captured` and `computed` are the ages of the last screenshot and of the last value computed.

The first range of the hysteresis is chosen for 0 lux only and the limits of the second begin at 1 lux. A gain below 1 gives
values between the two: such a reading is below its own lower limit, so that a screenshot is asked for at every event
that is not too fast. `HysteresisFits` excepts these readings (`BetweenRanges`) and no others.

### ModemConfig

One action per command of the script, with `rm -rf` and `cp -r` file by file. `dir` is what programs see,
`disk` what a reset would leave of it; `WriteBack` brings a file up to date at any time and in any order. A file
is the firmware version it came from, or none, which also stands for one that is torn. The `rm` of a file can fail,
which leaves it, and so can any `cp`, which leaves no file or the one that was there; the
script goes on as it does, since it does not stop at errors. `Reset` starts the boot again, with any firmware
and, of the flag, with either value on the disk. The ghost `flaws` says what happened to the files since
the last copy began; `ConfigsCurrent` and `MbnOtaCurrent` hold but for the flaws they name: a
copy that failed, or the removal of `ver_info` (of the other files a failed removal does no harm, as they are written anew), a reset that kept `ver_info` and lost something else, or cut off a removal, or (for `mbn_ota`)
came between the copy of `ver_info` and its own. In these cases the directory stays as it is for as long
as the firmware does. The changes of permissions and owner are left out.

## 3. The runs

| Run | Question | Bounds |
|---|---|---|
| `wakelock` | accounts, coverage and release of the wake lock, also that it is always released | 2 clients, 2 posts, 1 wake-up event each, 2 calls of `initialize()`, timeout 0 |
| `wakelock_assert` | the assertion of `postEvents` (violated) | 1 client, 2 calls |
| `event_queue` | order, sizes, refinement of `EventStream`, draining | FMQ of 2, pending queue of 4, batches up to 3, 8 events, 2 calls |
| `delivery` | refinement of `SharedWakelock`, acknowledgements owed, awake while events are on their way, double releases | 1 client, FMQ of 1, pending queue of 2, batches of 1 event and of 2 wake-up events, 3 events, 2 calls |
| `delivery_drop` | a decrement by more than the count (violated) | one batch of 3, FMQ of 1 |
| `lifecycle` | joins, missed notifications, return of `initialize()` | 2 sub-HALs, 3 posts, 2 calls |
| `lifecycle_stop` | lost notification at stop (violated) | 1 sub-HAL, 2 calls |
| `lifecycle_clear` | queue assigned under a post (violated) | 1 sub-HAL, 2 calls |
| `sensor_registry` | routing, modes, dynamic sensors, wake-up flags of events | 2 sub-HALs, 2+2 static handles, 2 dynamic ones reported by 2 threads, 1 event in the queues, 3 calls |
| `camera_motor` | debouncing, commands, falls, failing writes, crash | delay of 2 ticks, any 6 outside events, suspends and failing writes included |
| `als_correction` | age of reused values, spacing of screenshots, hysteresis, values keep coming | 6 readings, one of half a lux, panel off, dim and bright, intervals of 2 and 4 ticks, 2 failures |
| `modem_config` | flag and files through updates, rollbacks, failures and resets | 3 versions, one of them without a `ver_info.txt`, 2 configs, 3 resets |

Why these bounds are enough for the cases that matter: two clients suffice for every overtaking between a
scoped wake lock, an increment and a reset, and the proofs lift the bound altogether; a timeout of 0
ticks keeps apart what the code tells apart, a clock that has passed the start time and one that has not, and the proofs
are for any timeout; two calls of
`initialize()` give one restart with everything in flight, also a post between the statements that clear the queues;
the registry's third call lets a dynamic sensor that raced one restart be enabled in the second connection and not disabled before
the third, and that the same sensor stays so over more restarts is in the proof, which is for any number; an FMQ of 2 under batches of 3 forces direct, partial, pending and dropped writes
and a pending batch larger than the FMQ; the six outside events of the camera leave room for open, close, fall, click,
crash and one more; the readings of the light sensor have one on each side of every threshold of
`process()`, and two failures outlast both intervals. The handles of the registry coincide in the two sub-HALs; one of each kind has its
index bits in use; both sub-HALs list direct channels, and so does a dynamic sensor of the first; two threads suffice for
calls told in the other order; one event is enough, since a
lookup leaves nothing but its entry in the list. Three resets let the firmware go forth and back with a
reset in the middle of each copy. `SizeSpan` in place of 2^64 is larger than any size that does not wrap, as
`QueueAssumption` asks. Only `sensor_registry` uses symmetry, of the two threads, which are alike and in no temporal property. Deadlock is not
checked: every model stops when its bounded inputs are used up, and being stuck is what
`EventuallyReleased`, `PendingDrains`, `InitializeReturns`, `LoweredAfterClose`, `ValuesKeepComing` and
`FlagEventuallySet` are about.

### Fairness

Only threads of this code and the passing of time are assumed to go on: the wake lock thread, the
pending-writes thread (a blocking write returns after its timeout at the latest), the binder thread inside
`initialize()`, the holder of a mutex, the main looper, the motor, init and its script. Nothing is assumed of the framework, the
sub-HALs, the user, the camera service or the disk, with one exception: the light sensor goes on reporting, as a
sensor that is on does. A worker blocked on its condition variable has no step, so
fairness does not wake it; in `SharedWakelock` and `EventQueue` one that missed the notification of the stop has none
either, until a post in flight notifies it.

### What the violations show

1. `WakeupEventsPostedLocked`: a scoped wake lock asked for while the threads are stopped is not locked; the
   post that comes after the restart violates the code's own assertion.
2. `FailedWriteWithinCount`: the rest of a batch written in part keeps the count of the whole batch, and a
   failed write gives back references of events already delivered.
3. `ThreadsStartAgain`: `stopThreads` notifies without the mutexes; a worker about to sleep misses it, and
   the join hangs.
4. `ClearedSafely`: the pending queue is assigned without the mutex while a post may be in it.

`InitializeReturns` is the other half of 3: apart from that race nothing can hang `initialize()`. What the hang does to
the rest is in two other properties. While `initialize()` waits for the pending-writes thread `mThreadsRun` stays cleared and
every decrement returns early, so that a wake lock held then is held for ever: `EventuallyReleased` holds unless that
thread missed the notification. While it waits for the wake lock thread the pending-writes thread is gone and the queue is not yet cleared, so
that a batch that waits does so for ever: `PendingDrains` holds unless that one missed it.
`OverReleaseExplained` is the other half of 2: references are given back twice in that way, or when an
event's own reference was already gone, and in no other.

## 4. What is proved

`SharedWakelock_proofs` proves, for any finite set of clients, any timeout, any batch size and any bounds:

* `TypeCorrect`: `Spec => []TypeOK` (the types are proved and not in the run)
* `LockFollowsCount`: `Spec => []HeldIffCounted`
* `ReferencesOwned`: `Spec => []RefsAccounted`
* `WakeEventsProtected`: `Spec => []WakeEventsCovered`
* `ReleaseDue`: `Spec => ReleasedOnlyWhenDue`
* `Inductive`: `Spec => []IInv`, which they rest on

The assumptions are those of the module: the clients are a finite set, the numbers are naturals.
`RefsAccounted` is not inductive: that the accounts survive a write needs that only the holder of the mutex
is between its increment and its write (`ClientsInStep`), that they survive a reset needs that a scoped wake
lock was created no later than now (`TimesPast`), so that the reset makes it stale, and that the framework
owes exactly the events in the accounts (`AcksAccounted`). `IInv` is the conjunction; the proof has one
lemma per action. Lemmas on the cardinality of `Fresh`, the set of scoped wake locks the count still
holds, say how each action changes it. `WakeEventsCovered` follows from the invariant without a step,
`ReleasedOnlyWhenDue` from the invariant and its next state.

`HalLifecycle_proofs` proves, for any number of sub-HALs, batches and restarts:

* `TypeCorrect`: `Spec => []TypeOK`
* `ReplacedWhileJoined`: `Spec => []WorkersJoined`
* `NothingMissed`: `Spec => []PostsNeverMissed`
* `FewStaleBatches`: `Spec => []StaleBatchesBounded`
* `Inductive`: `Spec => []IInv`

`PostsNeverMissed` is not inductive: a worker that is not yet blocked but has decided to be would miss the
work. `WorkersInStep` excludes that, because a post needs the mutex the worker holds from its test to its
sleep; `MutexExclusive` says that it is one mutex, and `BinderInStep` that the flag stays down from the store
until the threads are started, so that only the start can raise it over a worker. `StaleBatchesBounded` is
inductive because the sum of the pending batches and of the posts in flight can not grow while the threads
are stopped: `EndPushInFlight` gives the cardinality lost for the batch that is gained.

`ModemConfig_proofs` proves, for any set of versions, with or without a `ver_info.txt`, any set of configs
(none is called `ver_info` or `mbn_ota`) and any number of resets:

* `FlagFresh`: `Spec => []FlagOfThisBoot`
* `ConfigsFollowFirmware`: `Spec => []ConfigsCurrent`
* `MbnOtaFollowsFirmware`: `Spec => []MbnOtaCurrent`
* `Inductive`: `Spec => []IInv`

`ConfigsCurrent` is about the end of a boot, and a boot that copies nothing ends with what earlier ones left. So
the invariant says at every step that a `ver_info` vouches for the configs beside it (`VerInfoVouches`, and
`VerInfoVouchesMbnOta` for the other file), which the comparison then turns into the firmware's; and
`CopyInStep` says how far a copy is. A reset preserves it because it leaves either no `ver_info`, or the directory
as it was, or a flaw: that is the lemma `ResetKeepsFiles`.

`SensorRegistry_proofs` proves, for any number of sub-HALs and of their threads, any handles (coinciding ones, and ones with index
bits in use), any flags and any number of restarts:

* `TypeCorrect`: `Spec => []TypeOK`
* `Routed`: `Spec => []HandlesRouted`
* `DirectReportsRouted`: `Spec => []DirectReportsReachSensor`
* `ModesInAgreement`: `Spec => []ModesAgree`
* `WakeupsInAgreement`: `Spec => []WakeupsAgree`
* `DynamicSensorsInAgreement`: `Spec => []DynamicSensorsAgree`
* `Disabling`: `Spec => []DisabledBeforeClear`
* `Inductive`: `Spec => []IInv`

`IInv` accounts for every entry of `mSensors` (`ListComplete`, `EntriesExplained`: it is a sensor of a list that was
read, with the flags of that sensor, or what a lookup of an unknown handle left) and for every call to
the framework on its way (`NotificationsInStep`: what it will say is still so, unless `initialize()` or a call of another
thread came between). `DirectFirst` and `FlagsFollow` say which sub-HAL has the direct channels and whose flags are kept.
`ActiveInStep` says that an active sensor is one the proxy will find when it disables all, or one of the named
exceptions. An exception may last over several restarts: a dynamic sensor that raced one, of a sub-HAL whose
`initialize` fails, is enabled in the second connection and still active in the third and later, which needs four calls
of `initialize()` and is shown by the proof only. That the handles of two sub-HALs are told apart is arithmetic (`HandleLaws`) and holds
for any `HandleSpan`.

`CameraMotor_proofs` proves, for any delay, any suspends and any number of outside events:

* `TypeCorrect`: `Spec => []TypeOK` (proved and not in the run)
* `LastEventFollowed`: `Spec => []LastEventWins`
* `NoBounce`: `Spec => []Debounced`
* `CommandsComplete`: `Spec => []CommandsCarriedOut`
* `FallsKeepClosed`: `Spec => []FallKeepsClosed`
* `ListeningInStep`: `Spec => []ListeningFollowsScreen`
* `Inductive`: `Spec => []IInv`

`Debounced` needs that a message is due at most the delay after the last event of its kind (`DelaysKept`), which takes
both clocks: its due time, in `uptimeMillis`, and what the device had slept when it was sent add up to a time of
`elapsedRealtime`. Then one that follows an opposite message either removed it, or comes the delay later less what the
device slept between the two. `CommandsCarriedOut` is
about idle processes, and `CommandsUnderWay` says who still has to enable the motor while they are not.
`NothingRaises` and `TasksFollowScreen` are the same for a fall and for the executor's tasks.
`removeMessages` filters the queue by a recursive function: `WithoutLaws` shows, by induction, that the
recursion defines one and what it returns.

`AlsCorrection_proofs` proves, for any readings, bias, estimates, intervals and positive gains, below 1 or not:

* `TypeCorrect`: `Spec => []TypeOK`
* `LimitsFit`: `Spec => []HysteresisFits`
* `ReuseIsFresh`: `Spec => ReusedFresh`
* `CapturesApart`: `Spec => CapturesSpaced`
* `Inductive`: `Spec => []IInv`

`HysteresisFits` needs what the search of the table finds (`FirstReaching`) and, range by range, that the limits of a value
enclose it if it is 0 or at least one lux (`RangeLaws`). `ReusedFresh` needs `ValueNoted`: a screenshot that is to be forced stays so until there is one, whatever
fails. The last conjunct of `AlsAssumption`, that no reading times a gain passes `Infinity`, stands for
`HUGE_VALF`, the upper end of the last range of the hysteresis, which no reading of the sensor reaches.

`EventQueue_proofs` proves, for any capacity of the FMQ, any limit of the pending queue, any batches and restarts:

* `QueueTypeCorrect`: `QueueSpec => []QueueTypeOK`
* `SizeExact`: `QueueSpec => []PendingSizeExact`
* `OneWriter`: `QueueSpec => []SingleWriter`
* `StreamImplemented`: `QueueSpec => ImplementsEventStream`
* `ReadInOrder`: `QueueSpec => []Stream!DeliveredInOrder`
* `QueueInductive`: `QueueSpec => []QueueInv`

`QueueInv` is the conjunction of the three, `WriterJoined` (the queues are cleared and replaced with the writer off) and
`WaitingWerePosted` (no more waits than was posted). `PendingSizeExact` holds modulo `SizeSpan`, with `unsized` subtracted, at all
times but between the two statements that clear the queue and its size. It is kept through a wrap because adding
modulo the span and taking off modulo the span undo each other (`ModShift`); that what waits stays within the limit and
`unsized` needs that the span is larger than the limit and all that can be posted, so that a wrapped size is refused by the
overflow test until a batch makes up for it.
The work is in the operators: that `FlattenSeq` of the batches gains a batch at the end and loses one at the
front (`FlattenAppend`, `FlattenHead`), and how sequences are cut (`CutLaws`, `DropConcat`, `DropDrop`). For the
refinement `OnTheWay`, the FMQ followed by what waits, is followed through each step: a post extends it
(`PostExtendsTheWay`), the writer keeps it, whether it writes or pops (`WriterKeepsTheWay`), a failed write loses a
run of it (`FailedWriteLoses`), the framework takes the oldest (`ReadTakesTheOldest`), a restart loses the oldest
(`RestartLoses`). What the promise amounts to, `DeliveredInOrder`, is not inductive: what was read and what is in
transit are ascending as a whole and none of them is above `posted` (`InOrder`), which every step of
`EventStream` keeps (`InOrderStep`). The theorem is here and not in a module of its own because `InOrder` needs
the types that `QueueInv` gives.

`EventDelivery_proofs` proves of the two together, for any number of sub-HAL threads and any batches:

* `WakelockImplemented`: `Spec => ImplementsSharedWakelock`
* `DeliveredAsStream`: `Spec => ImplementsEventStream`
* `DeliveredOnceInOrder`: `Spec => []Stream!DeliveredInOrder`
* `AcksFollow`: `Spec => []AcksFollowEvents`
* `StaysAwake`: `Spec => []AwakeForEvents`
* `OverReleaseCause`: `Spec => OverReleaseExplained`
* `ReferencesInductive`: the reference accounts of `SharedWakelock` hold of the composition
* `DeliveryInductive`: `Spec => []DeliveryInv`

The refinement of `SharedWakelock` needs that a failed write gives back at least as many references as it loses
events: `CountsCover`, a waiting batch counts at least the wake-up events left of it. It says at least because
the rest of a batch written in part keeps the count of the whole, which is finding 2. `BatchesHeld` ties the
number of wake-up events a sub-HAL took the lock for to the batch it then posts, and `AcksOwed` the
acknowledgements of the wake lock's module to the events: they are equal but from a stop until the queues are
replaced, when events are lost whose acknowledgements stay expected. `WakeupEventsConcat` and `WakeupEventsCut` say that
wake-up events of parts add up. The lemmas of `SharedWakelock_proofs` are used by an instance of that module
(`SameNext` says that it has the same steps), so that `StaysAwake` follows from `AcksOwed` and the reference
accounts. `WakelockAssumption` repeats the assumptions of `SharedWakelock`.

A restart loses what waited but not what a post pushed since the queue was cleared: these acknowledgements are still
owed in the new connection (`KeptAreOwed`), and what is lost in each of the steps of `initialize()` is a run of the
events on their way (`RunLostOwesLess`).

Induction: the library's induction theorems cannot be instantiated by the provers used here. Where a recursive
function matters (`FlattenSeq`, `Without`) the lemma `Induction` of each module does the same over a
set, from the least exception that `WFMin` gives.

Only model-checked: liveness, which is beyond the prover (`EventuallyReleased`, `PendingDrains`,
`InitializeReturns`, `LoweredAfterClose`, `ValuesKeepComing`, `FlagEventuallySet`), and the four violations. Every
other property of the runs is the statement of a theorem; of the inductive invariants TLC checked `IInv` of
each module, and the parts of `DeliveryInv`, on instances of the size of the runs before they were proved.

## 5. What is not modelled, and why

* The rounding of floating point in `AlsCorrection`, and the sums of `AreaCapture`. A second light sensor, and
  `init()` being called for each of them: it would divide the table of the hysteresis, which is static, by the gain once
  more, and the model divides once. A gain of 0 in the table, which the properties of the vendor could hold: the code
  would divide by it.
* What a post that pushes while the pending queue is assigned does to the queue itself (finding 4): a data race on
  a `std::queue` can do anything. The models take the post before or after the assignment.
* A sub-HAL that refuses to disable a sensor: `disableAllSensors` ignores it, and the sensor stays on.
* `AreaCapture`'s constructor: it reads four corners from a property without initialising them; the
  rectangle only chooses what is captured, which the model leaves open.
* `batch`, `flush`, the registration of direct channels, `debug`: calls that are handed on, no state of the
  proxy changes. Loading sub-HAL libraries only fills the list of sub-HALs, which is a constant here.
* The unsynchronised insertion into `mSensors` as such (see `SensorRegistry`), and the locks of the
  vendor's sub-HALs, on which it depends whether `disableAllSensors` can wait for ever.
* The calibration of the camera's hall sensors: one file copied to a node at start, read by nothing here.
  The warning of `MANUAL_TO_DOWN`: a dialog with no action.
* The torch: each call writes three files in a fixed order and ignores failures; it keeps no state and has no
  second actor, so that no property would say more than its text. `init.class_main.sh`, `init.oplus.sh`
  and `init.qcom.early_boot.sh` start services and set a property or a driver's parameter, once.
* Events carry no sensor in the queue modules: a wake-up event is one whose sensor has the flag. What that
  leaves out, which flag is looked up for which event, is in `SensorRegistry`.
* Build files, overlays, configuration: data.

## 6. Plan

Done, in this order: wake lock, queues, their composition, the threads, proofs about the wake lock, the
registry, the camera helper, the light correction, proofs about the threads, the modem configuration with its
proofs, failing writes of the camera, events in the registry, proofs about the registry, the camera helper, the
light correction, the queues and the composition. To do, proofs:

1. `SharedWakelock`: an action property for who may raise `stranded`, the references only a reset gives back.
2. `HalLifecycle` and `EventDelivery` share `initialize()`: that the coarser steps of `EventQueue` are those of
   `HalLifecycle` is read off the code and not proved.
