--------------------------- MODULE SensorRegistry ---------------------------
(***************************************************************************)
(* What the multi-HAL proxy knows of its sub-HALs' sensors                 *)
(* (sensors/HalProxy.cpp): the list it builds once, the dynamic sensors    *)
(* that come and go on sub-HAL threads, the one sub-HAL that has direct    *)
(* channels, the operation mode, and what is looked up for an event.  The  *)
(* framework's calls come one at a time (service.cpp configures one binder *)
(* thread); a dynamic sensor call changes mDynamicSensors under its mutex  *)
(* and then, without it, tells the framework, so that two of them may tell *)
(* it in the other order, while initialize() clears the map and replaces   *)
(* the callback without that mutex.  Events are looked up in mSensors with *)
(* operator[], on the threads of the sub-HALs.                             *)
(***************************************************************************)
EXTENDS Integers, FiniteSets

CONSTANTS NumSubHals,      \* mSubHalList.size()
          StaticSensors,   \* of each sub-HAL: from the handles it lists to their Flags
          DynamicSensors,  \* of each sub-HAL: the same for sensors that come and go
          Threads,         \* of each sub-HAL, those that report its dynamic sensors
          HandleSpan,      \* 2 ^ kBitsAfterSubHalIndex
          None,            \* nullptr; no notification; no event
          MaxInits         \* bound: calls of initialize()

SubHals == 0..NumSubHals - 1
Callers == SubHals \X Threads

\* What matters of a SensorInfo: its flags, and the type of the light sensor.
Flags == {"DIRECT", "WAKE_UP", "WISE_LIGHT"}

Handles == 0..NumSubHals * HandleSpan - 1

\* A call of one of the functions of mDynamicSensorsCallback.
Notifications == [connected : BOOLEAN, sensors : SUBSET Handles]

ASSUME RegistryAssumption ==
  /\ NumSubHals \in Nat \ {0} /\ HandleSpan \in Nat \ {0} /\ MaxInits \in Nat
  /\ \A i \in SubHals :
       /\ StaticSensors[i] \in [DOMAIN StaticSensors[i] -> SUBSET Flags]
       /\ DynamicSensors[i] \in [DOMAIN DynamicSensors[i] -> SUBSET Flags]
       /\ DOMAIN StaticSensors[i] \subseteq Nat /\ DOMAIN DynamicSensors[i] \subseteq Nat
  /\ None \notin SubHals \cup Notifications

VARIABLES
  loaded,                 \* sub-HALs whose list initializeSensorList has read
  mSensors,               \* from handles to SensorInfo: [sensorHandle, flags]
  mDirectChannelSubHal,
  mDynamicSensors,        \* the handles in the map
  mCurrentOperationMode,
  binder, inits,          \* where the binder thread is in initialize()
  notifying,              \* of each of these threads: the callback it owes the framework
  known,                  \* dynamic sensors the framework was told of on this connection
  mode, active, connected,\* of each sub-HAL: its own mode, active sensors, dynamic sensors
  event                   \* in the queues: [sensorHandle, from, counted]; bound: one

\* Ghosts: sub-HALs whose own mode an ignored error left behind; dynamic
\* sensors whose connection or removal raced the last initialize(), or an
\* earlier one since which they have been active; those that came or went again
\* while a notification of theirs was still on its way.
VARIABLES unrestored, raced, crossed

listVars    == <<loaded, mSensors, mDirectChannelSubHal>>
dynamicVars == <<mDynamicSensors, notifying, known, connected, raced, crossed>>
modeVars    == <<mCurrentOperationMode, mode, unrestored>>
vars == <<listVars, dynamicVars, modeVars, binder, inits, active, event>>
-----------------------------------------------------------------------------
(* Sensor handles: the sub-HAL's index above, its own handle below.        *)

\* For a handle whose index bits are clear the `or` of the code is a sum.
SetSubHalIndex(handle, i) == handle + i * HandleSpan
ExtractSubHalIndex(handle) == handle \div HandleSpan
ClearSubHalIndex(handle)   == handle % HandleSpan
SubHalIndexIsClear(handle) == handle < HandleSpan
IsSubHalIndexValid(handle) == ExtractSubHalIndex(handle) < NumSubHals

\* Mutant: the index bits of what a sub-HAL reports are not looked at.
KeptHandlesAll(handles, i) == {SetSubHalIndex(h, i) : h \in handles}

\* The handles a sub-HAL reports as the framework sees them; those whose index
\* bits are in use already are skipped.
KeptHandles(handles, i) ==
  {SetSubHalIndex(h, i) : h \in {g \in handles : SubHalIndexIsClear(g)}}

Init ==
  /\ loaded = 0 /\ mSensors = [h \in {} |-> None] /\ mDirectChannelSubHal = None
  /\ mDynamicSensors = {} /\ mCurrentOperationMode = "NORMAL"
  /\ binder = "constructing" /\ inits = 0
  /\ notifying = [c \in Callers |-> None] /\ known = {}
  /\ mode = [i \in SubHals |-> "NORMAL"]
  /\ active = [i \in SubHals |-> {}] /\ connected = [i \in SubHals |-> {}]
  /\ unrestored = {} /\ raced = {} /\ crossed = {} /\ event = None
-----------------------------------------------------------------------------
(* The constructor: initializeSensorList, one sub-HAL after the other.     *)

ListsDirect(i) ==
  \E h \in DOMAIN StaticSensors[i] : SubHalIndexIsClear(h) /\ "DIRECT" \in StaticSensors[i][h]

\* The first sub-HAL that lists a sensor with direct channels is the one that
\* serves them; others' sensors lose their flags.
DirectChannelSubHalAfter(i) ==
  IF mDirectChannelSubHal = None /\ ListsDirect(i) THEN i ELSE mDirectChannelSubHal

\* Mutants: a sensor of another sub-HAL keeps its flags; it loses all of them.
FlagsKept(flags, first)    == flags
FlagsCleared(flags, first) == IF first THEN flags ELSE {}

FlagsOffered(flags, first) == IF first THEN flags ELSE flags \ {"DIRECT"}

LoadSensorList ==
  /\ binder = "constructing"
  /\ LET i == loaded
         added == KeptHandles(DOMAIN StaticSensors[i], i)
     IN  /\ mDirectChannelSubHal' = DirectChannelSubHalAfter(i)
         /\ mSensors' = [h \in DOMAIN mSensors \cup added |->
              IF h \in added
                THEN [sensorHandle |-> h,
                      flags |-> FlagsOffered(StaticSensors[i][ClearSubHalIndex(h)],
                                             mDirectChannelSubHal' = i)]
                ELSE mSensors[h]]
  /\ loaded' = loaded + 1
  /\ binder' = IF loaded' = NumSubHals THEN "idle" ELSE binder
  /\ UNCHANGED <<dynamicVars, modeVars, inits, active, event>>
-----------------------------------------------------------------------------
(* The framework's calls.                                                  *)

Serving == binder = "idle" /\ inits > 0

\* activate: the handle is only checked for the sub-HAL's index; the sub-HAL
\* refuses a sensor it does not have.
Activate(handle, enabled) ==
  LET i == ExtractSubHalIndex(handle)
      h == ClearSubHalIndex(handle)
  IN /\ Serving /\ IsSubHalIndexValid(handle)
     /\ h \in DOMAIN StaticSensors[i] \cup connected[i]
     /\ active' = [active EXCEPT ![i] = IF enabled THEN @ \cup {h} ELSE @ \ {h}]
     /\ UNCHANGED <<listVars, dynamicVars, modeVars, binder, inits, event>>

\* Mutant: the sub-HALs already switched are set to the new mode again.
ModeBeforeOrNew(m) == m

ModeBefore(m) == mCurrentOperationMode

\* setOperationMode when sub-HAL `failing` returns an error: those before it are
\* set back; `refusing` are those that fail at that too, which is ignored.
SetOperationModeFails(m, failing, refusing) ==
  /\ Serving /\ failing < NumSubHals /\ refusing \subseteq 0..failing - 1
  /\ mode' = [i \in SubHals |->
                IF i >= failing THEN mode[i] ELSE IF i \in refusing THEN m ELSE ModeBefore(m)]
  /\ unrestored' = (unrestored \ (0..failing - 1)) \cup refusing
  /\ UNCHANGED mCurrentOperationMode
  /\ UNCHANGED <<listVars, dynamicVars, binder, inits, active, event>>

\* setOperationMode when every sub-HAL returns OK.
SetOperationMode(m) ==
  /\ Serving
  /\ mode' = [i \in SubHals |-> m]
  /\ mCurrentOperationMode' = m
  /\ unrestored' = {}
  /\ UNCHANGED <<listVars, dynamicVars, binder, inits, active, event>>

\* injectSensorData hands the event on to the handle's sub-HAL.
InjectSensorData(handle, additionalInfo) ==
  /\ mCurrentOperationMode # "NORMAL" \/ additionalInfo
  /\ IsSubHalIndexValid(handle)

\* The sub-HAL and the sensor configDirectReport names, for one sensor.
DirectReportTarget(handle) ==
  [subHal |-> mDirectChannelSubHal, handle |-> ClearSubHalIndex(handle)]
-----------------------------------------------------------------------------
(* Dynamic sensors, on thread t of sub-HAL i.                              *)

\* A sub-HAL has the proxy's callback from its first initialize() on.
HasCallback == Serving \/ inits > 1

InFlight == UNION {notifying[c].sensors : c \in {d \in Callers : notifying[d] # None}}

\* The thread leaves the section under mDynamicSensorsMutex and owes the framework
\* the notification of these sensors.
Owes(i, t, isConnected, sensors) ==
  /\ notifying[<<i, t>>] = None
  /\ notifying' = [notifying EXCEPT ![<<i, t>>] = [connected |-> isConnected, sensors |-> sensors]]
  /\ raced' = raced \ sensors
  /\ crossed' = (crossed \ sensors) \cup (sensors \cap InFlight)

\* onDynamicSensorsConnected, the section under mDynamicSensorsMutex.  A sensor's
\* sub-HAL connects it when it is gone, and the other way round.
OnDynamicSensorsConnected(i, t, handles) ==
  /\ HasCallback /\ handles \cap connected[i] = {}
  /\ connected' = [connected EXCEPT ![i] = @ \cup handles]
  /\ mDynamicSensors' = mDynamicSensors \cup KeptHandles(handles, i)
  /\ Owes(i, t, TRUE, KeptHandles(handles, i))
  /\ UNCHANGED <<listVars, modeVars, binder, inits, known, active, event>>

\* Mutant: a removed sensor is told to the framework and stays in the map.
Kept(gone) == mDynamicSensors

Erased(gone) == mDynamicSensors \ gone

\* onDynamicSensorsDisconnected, the same; only what is in the map is told.
OnDynamicSensorsDisconnected(i, t, handles) ==
  /\ HasCallback /\ handles \subseteq connected[i]
  /\ connected' = [connected EXCEPT ![i] = @ \ handles]
  /\ active' = [active EXCEPT ![i] = @ \ handles]
  /\ LET gone == KeptHandles(handles, i) \cap mDynamicSensors IN
       /\ mDynamicSensors' = Erased(gone)
       /\ Owes(i, t, FALSE, gone)
  /\ UNCHANGED <<listVars, modeVars, binder, inits, known, event>>

\* The call of mDynamicSensorsCallback after it, without the mutex.
NotifyFramework(i, t) ==
  /\ notifying[<<i, t>>] # None
  /\ known' = IF notifying[<<i, t>>].connected THEN known \cup notifying[<<i, t>>].sensors
                                           ELSE known \ notifying[<<i, t>>].sensors
  /\ notifying' = [notifying EXCEPT ![<<i, t>>] = None]
  /\ UNCHANGED <<listVars, modeVars, binder, inits, active, mDynamicSensors, connected, raced,
                 crossed, event>>

Activated == UNION {KeptHandles(active[i], i) : i \in SubHals}
-----------------------------------------------------------------------------
(* Events, from the thread of a sub-HAL to the framework.                  *)

ThreadsRunning == inits > 0 /\ binder \in {"idle", "initializing"}

\* Mutant: the handle is looked up as the sub-HAL names it.
LookedUpUnset(h, i) == h

\* The handle processEvents looks up.
LookedUp(h, i) == SetSubHalIndex(h, i)

\* mSensors[handle], which makes an empty entry where there is none.
LookUp(handle) ==
  mSensors' = [h \in DOMAIN mSensors \cup {handle} |->
                 IF h \in DOMAIN mSensors THEN mSensors[h] ELSE [sensorHandle |-> 0, flags |-> {}]]

FlagsOf(h, i) == IF h \in DOMAIN StaticSensors[i] THEN StaticSensors[i][h] ELSE DynamicSensors[i][h]

\* postEvents with an event of active sensor h of sub-HAL i.  A light event may
\* be dropped: AlsCorrection gives it handle 0, and it is posted all the same.
PostEvents(i, h, dropped) ==
  LET handle == LookedUp(h, i) IN
  /\ ThreadsRunning /\ HasCallback /\ h \in active[i] /\ event = None
  /\ dropped => "WISE_LIGHT" \in FlagsOf(h, i)
  /\ LookUp(handle)
  /\ event' = [sensorHandle |-> IF dropped THEN 0 ELSE SetSubHalIndex(h, i),
               from |-> [subHal |-> i, handle |-> h],
               counted |-> "WAKE_UP" \in mSensors'[handle].flags]
  /\ UNCHANGED <<loaded, mDirectChannelSubHal, dynamicVars, modeVars, binder, inits, active>>

\* A pending batch longer than the FMQ was not written in time: its wake-up
\* events are counted anew, by the handles the events have now.
CountNumWakeupEvents ==
  /\ ThreadsRunning /\ event # None
  /\ LookUp(event.sensorHandle)
  /\ event' = None
  /\ UNCHANGED <<loaded, mDirectChannelSubHal, dynamicVars, modeVars, binder, inits, active>>

\* The framework reads the event.
ReadEvent ==
  /\ event # None /\ event' = None
  /\ UNCHANGED <<listVars, dynamicVars, modeVars, binder, inits, active>>

\* The sensors the framework is offered: getSensorsList.
Listed == {mSensors[h] : h \in DOMAIN mSensors}

\* The framework acknowledges the events of sensors it knows to wake it up.
FrameworkWakes(handle) ==
  \/ \E sensor \in Listed : sensor.sensorHandle = handle /\ "WAKE_UP" \in sensor.flags
  \/ handle \in known
     /\ "WAKE_UP" \in DynamicSensors[ExtractSubHalIndex(handle)][ClearSubHalIndex(handle)]
-----------------------------------------------------------------------------
(* initialize(), on the binder thread.                                     *)

\* The sensors of sub-HAL i that the proxy knows, by the sub-HAL's handles.
SensorsOf(i) ==
  {ClearSubHalIndex(h) : h \in {g \in DOMAIN mSensors \cup mDynamicSensors :
                                  ExtractSubHalIndex(g) = i}}

\* Mutant: the dynamic sensors are left out.
StaticSensorsOf(i) == SensorsOf(i) \cap DOMAIN StaticSensors[i]

Disabled(i) == SensorsOf(i)

\* stopThreads and disableAllSensors.
DisableAllSensors ==
  /\ binder = "idle" /\ inits < MaxInits
  /\ inits' = inits + 1
  /\ active' = [i \in SubHals |-> active[i] \ Disabled(i)]
  /\ binder' = "clearing"
  /\ UNCHANGED <<listVars, dynamicVars, modeVars, event>>

\* The pending queue is cleared, and the FMQ with it; mDynamicSensors.clear(),
\* without the mutex.
ClearDynamicSensors ==
  /\ binder = "clearing"
  /\ mDynamicSensors' = {} /\ event' = None
  /\ binder' = "replacing"
  /\ UNCHANGED <<listVars, modeVars, inits, active, notifying, known, connected, raced,
                 crossed>>

\* mDynamicSensorsCallback is that of the new connection.
ReplaceCallback ==
  /\ binder = "replacing"
  /\ known' = {}
  /\ raced' = InFlight \cup mDynamicSensors \cup (raced \cap Activated)
  /\ crossed' = {}
  /\ binder' = "initializing"
  /\ UNCHANGED <<listVars, modeVars, inits, active, mDynamicSensors, notifying, connected,
                 event>>

\* Each sub-HAL is initialized: it is in mode NORMAL and reports its dynamic
\* sensors anew, unless it is one of those that return an error.
InitializeSubHals(failing) ==
  /\ binder = "initializing" /\ failing \subseteq SubHals
  /\ mode' = [i \in SubHals |-> IF i \in failing THEN mode[i] ELSE "NORMAL"]
  /\ connected' = [i \in SubHals |-> IF i \in failing THEN connected[i] ELSE {}]
  /\ active' = [i \in SubHals |-> IF i \in failing THEN active[i]
                                                   ELSE active[i] \ connected[i]]
  /\ unrestored' = {i \in failing : mode[i] # "NORMAL"}
  /\ mCurrentOperationMode' = "NORMAL"
  /\ binder' = "idle"
  /\ UNCHANGED <<listVars, inits, mDynamicSensors, notifying, known, raced, crossed, event>>
-----------------------------------------------------------------------------
Modes == {"NORMAL", "DATA_INJECTION"}

Framework ==
  \/ \E h \in {sensor.sensorHandle : sensor \in Listed} \cup known, enabled \in BOOLEAN :
       Activate(h, enabled)
  \/ ReadEvent
  \/ \E m \in Modes :
       \/ SetOperationMode(m)
       \/ \E failing \in SubHals : \E refusing \in SUBSET (0..failing - 1) :
            SetOperationModeFails(m, failing, refusing)

SubHalThread(i) ==
  \/ \E t \in Threads :
       \/ \E handles \in (SUBSET DOMAIN DynamicSensors[i]) \ {{}} :
            \/ OnDynamicSensorsConnected(i, t, handles)
            \/ OnDynamicSensorsDisconnected(i, t, handles)
       \/ NotifyFramework(i, t)
  \/ \E h \in active[i], dropped \in BOOLEAN : PostEvents(i, h, dropped)

Initialize ==
  \/ DisableAllSensors \/ ClearDynamicSensors \/ ReplaceCallback
  \/ \E failing \in SUBSET SubHals : InitializeSubHals(failing)

Next ==
  \/ LoadSensorList
  \/ Framework
  \/ \E i \in SubHals : SubHalThread(i)
  \/ CountNumWakeupEvents
  \/ Initialize

Spec == Init /\ [][Next]_vars
-----------------------------------------------------------------------------
\* What leaves empty entries: dynamic sensors, and dropped events.
Unlisted == {0} \cup UNION {KeptHandles(DOMAIN DynamicSensors[i], i) : i \in SubHals}

SensorsOfSubHal(i) == DOMAIN StaticSensors[i] \cup DOMAIN DynamicSensors[i]

\* Every variable has its type.
TypeOK ==
  /\ loaded \in 0..NumSubHals /\ mDirectChannelSubHal \in SubHals \cup {None}
  /\ DOMAIN mSensors \subseteq Handles
  /\ \A h \in DOMAIN mSensors : mSensors[h] \in [sensorHandle : Handles, flags : SUBSET Flags]
  /\ mDynamicSensors \subseteq Handles /\ known \subseteq Handles /\ raced \subseteq Handles
  /\ crossed \subseteq Handles
  /\ binder \in {"constructing", "idle", "clearing", "replacing", "initializing"}
  /\ inits \in 0..MaxInits /\ mCurrentOperationMode \in Modes /\ mode \in [SubHals -> Modes]
  /\ notifying \in [Callers -> Notifications \cup {None}]
  /\ \A i \in SubHals : active[i] \subseteq SensorsOfSubHal(i)
                       /\ connected[i] \subseteq DOMAIN DynamicSensors[i]
  /\ unrestored \subseteq SubHals
  /\ event # None => event.sensorHandle \in Handles /\ event.counted \in BOOLEAN

\* Every sensor the framework is told of leads back to the sub-HAL that reported
\* it, under the handle and with the flags it reported.  What else there is in
\* mSensors are empty entries (the framework is offered a sensor without a name
\* and with handle 0 for each), which only the events of dynamic sensors and
\* dropped events leave behind.
HandlesRouted ==
  /\ \A h \in DOMAIN mSensors \ Unlisted :
       LET i == ExtractSubHalIndex(h) IN
       /\ IsSubHalIndexValid(h) /\ ClearSubHalIndex(h) \in DOMAIN StaticSensors[i]
       /\ mSensors[h].sensorHandle = h
       /\ mSensors[h].flags \cup {"DIRECT"} = StaticSensors[i][ClearSubHalIndex(h)] \cup {"DIRECT"}
  /\ \A h \in mDynamicSensors \cup known :
       /\ IsSubHalIndexValid(h)
       /\ ClearSubHalIndex(h) \in DOMAIN DynamicSensors[ExtractSubHalIndex(h)]

\* Whether an event keeps the device awake is known three times: the sub-HAL asks
\* for a scoped wake lock, the proxy counts a reference and the framework
\* acknowledges one.  postEvents asserts that the first two agree; if the last two
\* do not, a reference is stranded or given back twice.  They agree but for
\* dynamic wake-up sensors, which the proxy never counts, and dropped events.
WakeupsAgree ==
  event # None =>
    LET wakes == "WAKE_UP" \in FlagsOf(event.from.handle, event.from.subHal)
        handle == SetSubHalIndex(event.from.handle, event.from.subHal)
    IN  /\ handle \in Unlisted \/ event.counted = wakes
        /\ event.sensorHandle \in Unlisted \/ FrameworkWakes(event.sensorHandle) = event.counted
        /\ event.counted => wakes

\* The sub-HAL the direct channels are meant to be on, as the lists have it.
Serves(i) == ListsDirect(i) /\ \A j \in 0..i - 1 : ~ListsDirect(j)

\* A listed sensor offered with direct channels is the one a direct report for its
\* handle is configured on, whatever the order the sub-HALs are loaded in.  Of the
\* dynamic sensors, whose flags are told as they are, that is so for the ones of the
\* sub-HAL with the direct channels; another's reports go to a sensor of that one.
DirectReportsReachSensor ==
  LET Reached(h) == DirectReportTarget(h) =
        [subHal |-> ExtractSubHalIndex(h), handle |-> ClearSubHalIndex(h)]
  IN  /\ \A h \in DOMAIN mSensors : "DIRECT" \in mSensors[h].flags => Reached(h)
      /\ \A h \in known :
           LET i == ExtractSubHalIndex(h) IN
           "DIRECT" \in DynamicSensors[i][ClearSubHalIndex(h)] /\ Serves(i) => Reached(h)

\* Through failed switches and restarts, the framework's data is injected into a
\* sub-HAL exactly when that is in the mode for it, but for one that refused to
\* go back to its mode.
ModesAgree ==
  Serving => \A h \in DOMAIN mSensors :
    LET i == ExtractSubHalIndex(h) IN
    i \in unrestored \/ (InjectSensorData(h, FALSE) <=> mode[i] = "DATA_INJECTION")

\* The framework's dynamic sensors are those in the map, but for the ones whose
\* notification is on its way, was when the callback was replaced, or was when the
\* sensor came or went again: then the later of two calls may be the first to be
\* told, and the framework is left with a sensor that is gone, or without one.
DynamicSensorsAgree ==
  (known \ mDynamicSensors) \cup (mDynamicSensors \ known) \subseteq
     InFlight \cup raced \cup crossed \cup (IF binder = "replacing" THEN known ELSE {})

\* When the queues are cleared no sensor is active any more, but for a dynamic
\* sensor the framework was told of by a callback that raced initialize(), and a
\* dynamic sensor with handle 0, which the empty entries offer when it is not there.
\* Either may stay active over several restarts, if its sub-HAL fails to initialize.
DisabledBeforeClear ==
  binder \in {"clearing", "replacing"} =>
    Activated \subseteq raced \cup ({0} \ DOMAIN StaticSensors[0])
=============================================================================
