----------------------- MODULE SensorRegistry_proofs -----------------------
(* What holds of the sensors the proxy knows for any number of sub-HALs, any *)
(* lists of sensors and handles, and any number of restarts.                 *)
EXTENDS SensorRegistry, TLAPS

(***************************************************************************)
(* The inductive invariant.                                                *)
(***************************************************************************)

\* What sub-HALs, threads and sensors there are.
Shapes ==
  /\ mode \in [SubHals -> Modes] /\ notifying \in [Callers -> Notifications \cup {None}]
  /\ active \in [SubHals -> SUBSET Nat] /\ connected \in [SubHals -> SUBSET Nat]
  /\ \A i \in SubHals : connected[i] \subseteq DOMAIN DynamicSensors[i]
  /\ unrestored \subseteq SubHals /\ mCurrentOperationMode \in Modes
  /\ raced \subseteq Handles /\ crossed \subseteq Handles /\ inits \in 0..MaxInits
  /\ binder \in {"constructing", "idle", "clearing", "replacing", "initializing"}
  /\ mDirectChannelSubHal \in SubHals \cup {None}

\* The constructor has read every list before anything is called or posted.
ConstructedFirst ==
  /\ loaded \in 0..NumSubHals
  /\ IF binder = "constructing"
       THEN loaded < NumSubHals /\ inits = 0 /\ event = None /\ known = {} /\ InFlight = {}
       ELSE loaded = NumSubHals

\* The sub-HAL with the direct channels is the first that lists a sensor with them.
DirectFirst ==
  /\ mDirectChannelSubHal = None => \A i \in 0..loaded - 1 : ~ListsDirect(i)
  /\ mDirectChannelSubHal # None => mDirectChannelSubHal < loaded /\ ListsDirect(mDirectChannelSubHal)
  /\ \A i \in 0..loaded - 1 : Serves(i) => mDirectChannelSubHal = i

\* A listed sensor offered with direct channels is one of that sub-HAL.
FlagsFollow ==
  \A g \in DOMAIN mSensors : "DIRECT" \in mSensors[g].flags => mDirectChannelSubHal = ExtractSubHalIndex(g)

\* Entry g of mSensors is the sensor sub-HAL i listed under handle h, with its
\* flags but for the direct channels.
IsSensorOf(g, i, h) ==
  /\ g = SetSubHalIndex(h, i) /\ h \in DOMAIN StaticSensors[i] /\ SubHalIndexIsClear(h)
  /\ mSensors[g] = [sensorHandle |-> g, flags |-> mSensors[g].flags]
  /\ mSensors[g].flags \in SUBSET Flags
  /\ mSensors[g].flags \cup {"DIRECT"} = StaticSensors[i][h] \cup {"DIRECT"}

\* What a lookup leaves behind.
IsEmptyEntry(g) == g \in Unlisted /\ mSensors[g] = [sensorHandle |-> 0, flags |-> {}]

\* The list has what the lists read so far have, and empty entries.
ListComplete ==
  \A i \in 0..loaded - 1 : \A h \in DOMAIN StaticSensors[i] :
    SubHalIndexIsClear(h) =>
      SetSubHalIndex(h, i) \in DOMAIN mSensors /\ IsSensorOf(SetSubHalIndex(h, i), i, h)

EntriesExplained ==
  \A g \in DOMAIN mSensors :
    IsEmptyEntry(g) \/ \E i \in SubHals : \E h \in DOMAIN StaticSensors[i] : IsSensorOf(g, i, h)

\* A sub-HAL no error left behind is in the mode of the proxy.
ModesInStep == \A i \in SubHals \ unrestored : mode[i] = mCurrentOperationMode

DynamicHandles(i) == KeptHandles(DOMAIN DynamicSensors[i], i)

\* Only sub-HALs' dynamic sensors are ever in the map or told of.
OnlyDynamicTold ==
  /\ \A g \in mDynamicSensors \cup known : \E i \in SubHals : g \in DynamicHandles(i)
  /\ \A c \in Callers : notifying[c] # None => notifying[c].sensors \subseteq DynamicHandles(c[1])

\* What a thread is about to tell the framework is still so, unless initialize() or
\* another thread came between.
NotificationsInStep ==
  \A c \in Callers : notifying[c] # None =>
    \A g \in notifying[c].sensors \ (raced \cup crossed) :
      IF notifying[c].connected THEN binder = "replacing" \/ g \in mDynamicSensors
                                ELSE g \notin mDynamicSensors

\* The framework knows of sensor g, or is about to.
ToldOf(g) ==
  \/ g \in known
  \/ \E c \in Callers : notifying[c] # None /\ notifying[c].connected /\ g \in notifying[c].sensors

\* A sensor its sub-HAL has and the framework knows, or is about to, is in the map,
\* unless initialize() took it out.
ConnectedKnown ==
  binder # "replacing" => \A i \in SubHals : \A h \in connected[i] :
    SubHalIndexIsClear(h) /\ ToldOf(SetSubHalIndex(h, i)) =>
      SetSubHalIndex(h, i) \in mDynamicSensors \cup raced

\* The handle the empty entries offer, if it is no sensor's of a list.
OfferedByEmptyEntries == {0} \ DOMAIN StaticSensors[0]

\* An active sensor is one its sub-HAL has and the proxy knows, and so will be
\* disabled, or a named exception; while the queues are cleared, an exception.
ActiveInStep ==
  \A i \in SubHals : \A h \in active[i] :
    /\ SubHalIndexIsClear(h) /\ h \in DOMAIN StaticSensors[i] \cup connected[i]
    /\ IF binder \in {"clearing", "replacing"}
         THEN /\ h \notin DOMAIN StaticSensors[i]
              /\ SetSubHalIndex(h, i) \in raced \cup OfferedByEmptyEntries
         ELSE SetSubHalIndex(h, i) \in DOMAIN mSensors \cup mDynamicSensors \cup raced
                                       \cup OfferedByEmptyEntries

\* An event was counted by the entry of its sensor.
EventLookedUp ==
  event # None =>
    LET i == event.from.subHal
        h == event.from.handle
        g == SetSubHalIndex(h, i)
    IN  /\ i \in SubHals /\ h \in SensorsOfSubHal(i) /\ SubHalIndexIsClear(h)
        /\ g \in DOMAIN mSensors /\ event.sensorHandle \in {0, g}
        /\ event.counted \in BOOLEAN /\ (event.counted <=> "WAKE_UP" \in mSensors[g].flags)

IInv ==
  /\ Shapes /\ ConstructedFirst /\ ListComplete /\ EntriesExplained
  /\ DirectFirst /\ FlagsFollow /\ ModesInStep
  /\ OnlyDynamicTold /\ NotificationsInStep /\ ConnectedKnown /\ DynamicSensorsAgree
  /\ ActiveInStep /\ EventLookedUp
-----------------------------------------------------------------------------
(***************************************************************************)
(* Handles.                                                                *)
(***************************************************************************)

\* A handle whose index bits are clear and an index are had back from their sum.
LEMMA HandleLaws ==
  ASSUME NEW i \in SubHals, NEW h \in Nat, SubHalIndexIsClear(h)
  PROVE  /\ SetSubHalIndex(h, i) \in Handles
         /\ ExtractSubHalIndex(SetSubHalIndex(h, i)) = i
         /\ ClearSubHalIndex(SetSubHalIndex(h, i)) = h
<1>1. HandleSpan \in Nat \ {0} /\ h \in 0..HandleSpan - 1 /\ i \in Nat /\ i < NumSubHals
  BY RegistryAssumption DEF SubHals, SubHalIndexIsClear
<1>2. (h + i * HandleSpan) \div HandleSpan = i
  BY <1>1
<1>3. (h + i * HandleSpan) % HandleSpan = h
  BY <1>1
<1>4. h + i * HandleSpan \in Nat /\ h + i * HandleSpan < NumSubHals * HandleSpan
  BY <1>1, RegistryAssumption
<1>5. SetSubHalIndex(h, i) \in Handles
  BY <1>4, RegistryAssumption DEF SetSubHalIndex, Handles
<1>. QED BY <1>2, <1>3, <1>5 DEF SetSubHalIndex, ExtractSubHalIndex, ClearSubHalIndex

\* What the proxy takes over of the handles a sub-HAL reports.
LEMMA KeptLaws ==
  ASSUME NEW i \in SubHals, NEW S \in SUBSET Nat
  PROVE  /\ KeptHandles(S, i) \subseteq Handles
         /\ \A g \in KeptHandles(S, i) :
              /\ ExtractSubHalIndex(g) = i /\ IsSubHalIndexValid(g)
              /\ ClearSubHalIndex(g) \in S /\ SubHalIndexIsClear(ClearSubHalIndex(g))
              /\ g = SetSubHalIndex(ClearSubHalIndex(g), i)
         /\ \A h \in S : SubHalIndexIsClear(h) => SetSubHalIndex(h, i) \in KeptHandles(S, i)
<1>1. ASSUME NEW g \in KeptHandles(S, i)
      PROVE  \E h \in S : SubHalIndexIsClear(h) /\ g = SetSubHalIndex(h, i)
  BY DEF KeptHandles
<1>2. ASSUME NEW g \in KeptHandles(S, i)
      PROVE  /\ g \in Handles /\ ExtractSubHalIndex(g) = i
             /\ ClearSubHalIndex(g) \in S /\ SubHalIndexIsClear(ClearSubHalIndex(g))
             /\ g = SetSubHalIndex(ClearSubHalIndex(g), i)
  BY <1>1, HandleLaws
<1>3. i < NumSubHals
  BY RegistryAssumption DEF SubHals
<1>. QED BY <1>2, <1>3 DEF KeptHandles, IsSubHalIndexValid

\* The types of what a sub-HAL lists or may report.
LEMMA SensorTypes ==
  ASSUME NEW i \in SubHals
  PROVE  /\ DOMAIN StaticSensors[i] \subseteq Nat /\ DOMAIN DynamicSensors[i] \subseteq Nat
         /\ \A h \in DOMAIN StaticSensors[i] : StaticSensors[i][h] \in SUBSET Flags
         /\ DynamicHandles(i) \subseteq Unlisted /\ DynamicHandles(i) \subseteq Handles
<1>1. /\ DOMAIN StaticSensors[i] \subseteq Nat /\ DOMAIN DynamicSensors[i] \subseteq Nat
      /\ StaticSensors[i] \in [DOMAIN StaticSensors[i] -> SUBSET Flags]
  BY RegistryAssumption
<1>2. DynamicHandles(i) \subseteq Handles
  BY <1>1, KeptLaws DEF DynamicHandles
<1>3. DynamicHandles(i) \subseteq Unlisted
  BY DEF DynamicHandles, Unlisted
<1>. QED BY <1>1, <1>2, <1>3
-----------------------------------------------------------------------------
(***************************************************************************)
(* The list.                                                               *)
(***************************************************************************)
ListInv == ListComplete /\ EntriesExplained /\ DirectFirst /\ FlagsFollow

\* What is in the list has a handle of a sub-HAL, and the flags of a sensor.
LEMMA EntryTypes ==
  ASSUME EntriesExplained
  PROVE  /\ DOMAIN mSensors \subseteq Handles
         /\ \A g \in DOMAIN mSensors : mSensors[g] \in [sensorHandle : Handles, flags : SUBSET Flags]
<1>1. 0 \in Handles
  BY RegistryAssumption DEF Handles
<1>2. Unlisted \subseteq Handles
  BY <1>1, SensorTypes DEF Unlisted, DynamicHandles
<1>3. ASSUME NEW g \in DOMAIN mSensors
      PROVE  g \in Handles /\ mSensors[g] \in [sensorHandle : Handles, flags : SUBSET Flags]
  <2>1. CASE IsEmptyEntry(g)
    BY <2>1, <1>1, <1>2 DEF IsEmptyEntry
  <2>2. CASE \E i \in SubHals : \E h \in DOMAIN StaticSensors[i] : IsSensorOf(g, i, h)
    BY <2>2, HandleLaws, SensorTypes DEF IsSensorOf
  <2>. QED BY <2>1, <2>2 DEF EntriesExplained
<1>. QED BY <1>3

\* The invariants of the list hold as long as it is left alone.
LEMMA ListFrame ==
  ASSUME ListInv, UNCHANGED listVars
  PROVE  ListInv'
BY DEF ListInv, ListComplete, EntriesExplained, DirectFirst, FlagsFollow, IsSensorOf, IsEmptyEntry,
       listVars

\* A lookup, of an entry or of a handle that only lookups enter, changes no entry.
LEMMA LookUpKeeps ==
  ASSUME ListInv, NEW g, g \in DOMAIN mSensors \cup Unlisted, LookUp(g),
         UNCHANGED <<loaded, mDirectChannelSubHal>>
  PROVE  /\ ListInv' /\ DOMAIN mSensors' = DOMAIN mSensors \cup {g}
         /\ \A h \in DOMAIN mSensors : mSensors'[h] = mSensors[h]
<1>1. DOMAIN mSensors' = DOMAIN mSensors \cup {g}
  BY DEF LookUp
<1>2. \A h \in DOMAIN mSensors : mSensors'[h] = mSensors[h]
  BY DEF LookUp
<1>3. g \notin DOMAIN mSensors => g \in Unlisted /\ mSensors'[g] = [sensorHandle |-> 0, flags |-> {}]
  BY DEF LookUp
<1>4. ListComplete'
  BY <1>1, <1>2 DEF ListInv, ListComplete, IsSensorOf
<1>5. ASSUME NEW h \in DOMAIN mSensors
      PROVE  \/ IsEmptyEntry(h)'
             \/ \E i \in SubHals : \E k \in DOMAIN StaticSensors[i] : IsSensorOf(h, i, k)'
  <2>1. mSensors'[h] = mSensors[h]
    BY <1>2
  <2>2. IsEmptyEntry(h) => IsEmptyEntry(h)'
    BY <2>1 DEF IsEmptyEntry
  <2>3. \A i \in SubHals : \A k \in DOMAIN StaticSensors[i] : IsSensorOf(h, i, k) => IsSensorOf(h, i, k)'
    BY <2>1 DEF IsSensorOf
  <2>. QED BY <2>2, <2>3 DEF ListInv, EntriesExplained
<1>6. EntriesExplained'
  BY <1>1, <1>3, <1>5 DEF EntriesExplained, IsEmptyEntry
<1>7. FlagsFollow' /\ DirectFirst'
  BY <1>1, <1>2, <1>3 DEF ListInv, FlagsFollow, DirectFirst
<1>. QED BY <1>1, <1>2, <1>4, <1>6, <1>7 DEF ListInv

\* Reading the next list keeps them, whichever sub-HAL has the direct channels.
LEMMA LoadKeeps ==
  ASSUME ListInv, Shapes, ConstructedFirst, LoadSensorList
  PROVE  ListInv' /\ ConstructedFirst' /\ Shapes'
<1>0. PICK i \in SubHals : i = loaded
  BY RegistryAssumption DEF ConstructedFirst, LoadSensorList, SubHals
<1> DEFINE added == KeptHandles(DOMAIN StaticSensors[i], i)
           offered(g) == FlagsOffered(StaticSensors[i][ClearSubHalIndex(g)], mDirectChannelSubHal' = i)
<1>1. loaded' = i + 1 /\ binder = "constructing" /\ i \in Nat /\ i < NumSubHals
  BY <1>0, RegistryAssumption DEF LoadSensorList, SubHals
<1>2. /\ DOMAIN mSensors' = DOMAIN mSensors \cup added
      /\ \A g \in added : mSensors'[g] = [sensorHandle |-> g, flags |-> offered(g)]
      /\ \A g \in DOMAIN mSensors \ added : mSensors'[g] = mSensors[g]
  BY <1>0 DEF LoadSensorList
<1>3. mDirectChannelSubHal' \in {mDirectChannelSubHal, i}
      /\ (mDirectChannelSubHal # None => mDirectChannelSubHal' = mDirectChannelSubHal)
  BY <1>0 DEF LoadSensorList, DirectChannelSubHalAfter
<1>4. ASSUME NEW g \in added
      PROVE  LET h == ClearSubHalIndex(g) IN
             /\ h \in DOMAIN StaticSensors[i] /\ SubHalIndexIsClear(h) /\ g = SetSubHalIndex(h, i)
             /\ ExtractSubHalIndex(g) = i
             /\ offered(g) \in SUBSET Flags
             /\ offered(g) \cup {"DIRECT"} = StaticSensors[i][h] \cup {"DIRECT"}
             /\ "DIRECT" \in offered(g) => mDirectChannelSubHal' = i
  BY <1>1, KeptLaws, SensorTypes DEF FlagsOffered
<1>5. \A g \in added : IsSensorOf(g, i, ClearSubHalIndex(g))'
  BY <1>2, <1>4 DEF IsSensorOf
<1>6. ASSUME NEW h \in DOMAIN StaticSensors[i], SubHalIndexIsClear(h)
      PROVE  SetSubHalIndex(h, i) \in DOMAIN mSensors' /\ IsSensorOf(SetSubHalIndex(h, i), i, h)'
  <2>1. SetSubHalIndex(h, i) \in added /\ ClearSubHalIndex(SetSubHalIndex(h, i)) = h
    BY <1>1, <1>6, KeptLaws, HandleLaws, SensorTypes
  <2>. QED BY <2>1, <1>2, <1>5
<1>7. ASSUME NEW j \in 0..loaded - 1, NEW h \in DOMAIN StaticSensors[j], SubHalIndexIsClear(h)
      PROVE  SetSubHalIndex(h, j) \in DOMAIN mSensors' /\ IsSensorOf(SetSubHalIndex(h, j), j, h)'
  <2>1. j \in SubHals /\ j # i
    BY <1>0, <1>1, RegistryAssumption DEF SubHals
  <2>2. SetSubHalIndex(h, j) \in DOMAIN mSensors /\ IsSensorOf(SetSubHalIndex(h, j), j, h)
    BY <1>7 DEF ListInv, ListComplete
  <2>3. SetSubHalIndex(h, j) \notin added
    BY <1>1, <1>4, <1>7, <2>1, HandleLaws, SensorTypes
  <2>. QED BY <1>2, <2>2, <2>3 DEF IsSensorOf
<1>8. ListComplete'
  <2>1. \A j \in 0..loaded' - 1 : j = i \/ j \in 0..loaded - 1
    BY <1>0, <1>1
  <2>. QED BY <2>1, <1>6, <1>7 DEF ListComplete
<1>9. EntriesExplained'
  <2>1. ASSUME NEW g \in DOMAIN mSensors \ added
        PROVE  \/ IsEmptyEntry(g)'
               \/ \E j \in SubHals : \E k \in DOMAIN StaticSensors[j] : IsSensorOf(g, j, k)'
    BY <1>2 DEF ListInv, EntriesExplained, IsEmptyEntry, IsSensorOf
  <2>. QED BY <1>1, <1>2, <1>4, <1>5, <2>1 DEF EntriesExplained
<1>10. FlagsFollow'
  <2>1. ASSUME NEW g \in DOMAIN mSensors \ added, "DIRECT" \in mSensors'[g].flags
        PROVE  mDirectChannelSubHal' = ExtractSubHalIndex(g)
    <3>1. mDirectChannelSubHal = ExtractSubHalIndex(g)
      BY <1>2, <2>1 DEF ListInv, FlagsFollow
    <3>2. ExtractSubHalIndex(g) # None
      <4>1. \/ IsEmptyEntry(g)
            \/ \E j \in SubHals : \E k \in DOMAIN StaticSensors[j] : IsSensorOf(g, j, k)
        BY DEF ListInv, EntriesExplained
      <4>2. ~IsEmptyEntry(g)
        BY <1>2, <2>1 DEF IsEmptyEntry
      <4>. QED BY <4>1, <4>2, HandleLaws, SensorTypes, RegistryAssumption DEF IsSensorOf
    <3>. QED BY <1>3, <3>1, <3>2
  <2>2. ASSUME NEW g \in added, "DIRECT" \in mSensors'[g].flags
        PROVE  mDirectChannelSubHal' = ExtractSubHalIndex(g)
    BY <1>2, <1>4, <2>2
  <2>. QED BY <1>2, <2>1, <2>2 DEF FlagsFollow
<1>13. DirectFirst'
  <2>1. mDirectChannelSubHal' = IF mDirectChannelSubHal = None /\ ListsDirect(i) THEN i
                                                                    ELSE mDirectChannelSubHal
    BY <1>0 DEF LoadSensorList, DirectChannelSubHalAfter
  <2>2. /\ 0..loaded' - 1 = (0..loaded - 1) \cup {i} /\ loaded = i /\ loaded' = i + 1 /\ i # None
        /\ \A j \in 0..loaded - 1 : j < i /\ j \in Nat
    BY <1>0, <1>1, RegistryAssumption
  <2>3. CASE mDirectChannelSubHal = None
    <3>1. \A j \in 0..loaded - 1 : ~ListsDirect(j) /\ ~Serves(j)
      BY <2>3 DEF ListInv, DirectFirst, Serves
    <3>2. CASE ListsDirect(i)
      BY <1>1, <2>1, <2>2, <2>3, <3>1, <3>2 DEF DirectFirst
    <3>3. CASE ~ListsDirect(i)
      BY <2>1, <2>2, <2>3, <3>1, <3>3 DEF DirectFirst, Serves
    <3>. QED BY <3>2, <3>3
  <2>4. CASE mDirectChannelSubHal # None
    <3>1. /\ mDirectChannelSubHal \in 0..i - 1 /\ ListsDirect(mDirectChannelSubHal)
          /\ mDirectChannelSubHal' = mDirectChannelSubHal
      BY <1>1, <2>1, <2>2, <2>4, RegistryAssumption DEF ListInv, DirectFirst, Shapes, SubHals
    <3>2. ~Serves(i)
      BY <3>1 DEF Serves
    <3>3. mDirectChannelSubHal' < loaded'
      BY <1>1, <2>2, <3>1
    <3>. QED BY <2>2, <2>4, <3>1, <3>2, <3>3 DEF ListInv, DirectFirst
  <2>. QED BY <2>3, <2>4
<1>11. ConstructedFirst'
  BY <1>1, RegistryAssumption
     DEF ConstructedFirst, LoadSensorList, SubHals, dynamicVars, InFlight
<1>12. Shapes'
  BY <1>1, <1>3 DEF Shapes, LoadSensorList, dynamicVars, modeVars
<1>. QED BY <1>8, <1>9, <1>10, <1>11, <1>12, <1>13 DEF ListInv
-----------------------------------------------------------------------------
(***************************************************************************)
(* What is left alone.                                                     *)
(***************************************************************************)
DynamicInv == OnlyDynamicTold /\ NotificationsInStep /\ ConnectedKnown /\ DynamicSensorsAgree

LEMMA InvParts ==
  IInv <=> /\ Shapes /\ ConstructedFirst /\ ListInv /\ ModesInStep /\ DynamicInv
           /\ ActiveInStep /\ EventLookedUp
BY DEF IInv, ListInv, DynamicInv

\* Dynamic sensors are as they were, and the callback is not being replaced.
LEMMA DynamicFrame ==
  ASSUME DynamicInv, UNCHANGED dynamicVars, binder = "replacing" <=> binder' = "replacing"
  PROVE  DynamicInv'
BY DEF DynamicInv, OnlyDynamicTold, NotificationsInStep, ConnectedKnown, ToldOf, DynamicSensorsAgree,
       InFlight, dynamicVars

\* Active sensors are as they were, and the list has no less.
LEMMA ActiveFrame ==
  ASSUME ActiveInStep, UNCHANGED <<active, connected, mDynamicSensors, raced>>,
         DOMAIN mSensors \subseteq DOMAIN mSensors',
         binder \in {"clearing", "replacing"} <=> binder' \in {"clearing", "replacing"}
  PROVE  ActiveInStep'
BY DEF ActiveInStep

LEMMA ConstructedFrame ==
  ASSUME ConstructedFirst, UNCHANGED <<loaded, binder, inits, known, notifying>>,
         event' = None \/ UNCHANGED event \/ binder # "constructing"
  PROVE  ConstructedFirst'
BY DEF ConstructedFirst, InFlight

LEMMA ModesFrame ==
  ASSUME ModesInStep, UNCHANGED modeVars PROVE ModesInStep'
BY DEF ModesInStep, modeVars

LEMMA EventFrame ==
  ASSUME EventLookedUp, \/ UNCHANGED <<event, mSensors>>
                        \/ event' = None
  PROVE  EventLookedUp'
BY DEF EventLookedUp

\* Two sub-HALs' dynamic handles are different.
LEMMA DynamicHandlesApart ==
  ASSUME NEW i \in SubHals, NEW j \in SubHals, i # j
  PROVE  DynamicHandles(i) \cap DynamicHandles(j) = {}
BY KeptLaws, SensorTypes DEF DynamicHandles

LEMMA CallerLaws ==
  /\ \A i \in SubHals, t \in Threads : <<i, t>> \in Callers /\ <<i, t>>[1] = i
  /\ \A c \in Callers : c[1] \in SubHals
BY DEF Callers

LEMMA ReportedHandles ==
  ASSUME NEW i \in SubHals, NEW handles \in SUBSET DOMAIN DynamicSensors[i]
  PROVE  KeptHandles(handles, i) \subseteq DynamicHandles(i)
BY DEF DynamicHandles, KeptHandles
-----------------------------------------------------------------------------
(***************************************************************************)
(* Dynamic sensors.                                                        *)
(***************************************************************************)
\* What a thread owes once it has left the section: the notifications of other
\* threads are as they were.
LEMMA OwesLaws ==
  ASSUME Shapes, NEW i \in SubHals, NEW t \in Threads, NEW S \in SUBSET Handles, NEW new \in BOOLEAN,
         Owes(i, t, new, S)
  PROVE  /\ <<i, t>> \in Callers /\ <<i, t>>[1] = i /\ notifying[<<i, t>>] = None
         /\ notifying'[<<i, t>>] # None
         /\ notifying'[<<i, t>>] = [connected |-> new, sensors |-> S]
         /\ \A d \in Callers \ {<<i, t>>} : notifying'[d] = notifying[d]
         /\ notifying' \in [Callers -> Notifications \cup {None}]
         /\ raced' = raced \ S /\ crossed' = (crossed \ S) \cup (S \cap InFlight)
         /\ raced' \subseteq Handles /\ crossed' \subseteq Handles
         /\ InFlight' = InFlight \cup S
<1> DEFINE c == <<i, t>>
           call == [connected |-> new, sensors |-> S]
<1>1. c \in Callers /\ c[1] = i
  BY CallerLaws
<1>2. call \in Notifications /\ call # None
  BY RegistryAssumption DEF Notifications
<1>3. /\ notifying[c] = None /\ notifying' = [notifying EXCEPT ![c] = call]
      /\ raced' = raced \ S /\ crossed' = (crossed \ S) \cup (S \cap InFlight)
  BY DEF Owes
<1>4. /\ notifying'[c] = call /\ \A d \in Callers \ {c} : notifying'[d] = notifying[d]
      /\ notifying' \in [Callers -> Notifications \cup {None}]
  BY <1>1, <1>2, <1>3 DEF Shapes
<1>5. InFlight' = InFlight \cup S
  <2>1. ASSUME NEW g
        PROVE  g \in InFlight' <=> g \in InFlight \cup S
    BY <1>1, <1>2, <1>3, <1>4 DEF InFlight
  <2>. QED BY <2>1
<1>6. raced' \subseteq Handles /\ crossed' \subseteq Handles
  BY <1>3 DEF Shapes
<1>. QED BY <1>1, <1>2, <1>3, <1>4, <1>5, <1>6

LEMMA ConnectKeeps ==
  ASSUME IInv, NEW i \in SubHals, NEW t \in Threads, NEW handles \in SUBSET DOMAIN DynamicSensors[i],
         OnDynamicSensorsConnected(i, t, handles)
  PROVE  IInv'
<1> DEFINE kept == KeptHandles(handles, i)
           c == <<i, t>>
<1>1. Shapes /\ ConstructedFirst /\ ListInv /\ ModesInStep /\ DynamicInv /\ ActiveInStep /\ EventLookedUp
  BY InvParts
<1>2. kept \subseteq DynamicHandles(i) /\ kept \subseteq Handles
  BY ReportedHandles, SensorTypes
<1>3. /\ HasCallback /\ handles \cap connected[i] = {}
      /\ connected' = [connected EXCEPT ![i] = @ \cup handles]
      /\ mDynamicSensors' = mDynamicSensors \cup kept /\ Owes(i, t, TRUE, kept)
      /\ UNCHANGED <<listVars, modeVars, binder, inits, known, active, event>>
  BY DEF OnDynamicSensorsConnected
<1>4. /\ c \in Callers /\ c[1] = i
      /\ notifying'[c] # None /\ notifying'[c].connected /\ notifying'[c].sensors = kept
      /\ \A d \in Callers \ {c} : notifying'[d] = notifying[d]
      /\ notifying' \in [Callers -> Notifications \cup {None}]
      /\ raced' = raced \ kept /\ crossed' = (crossed \ kept) \cup (kept \cap InFlight)
      /\ raced' \subseteq Handles /\ crossed' \subseteq Handles /\ InFlight' = InFlight \cup kept
      /\ \A g : ToldOf(g)' => ToldOf(g) \/ g \in kept
  <2>1. /\ c \in Callers /\ c[1] = i
        /\ notifying'[c] # None /\ notifying'[c] = [connected |-> TRUE, sensors |-> kept]
        /\ \A d \in Callers \ {c} : notifying'[d] = notifying[d]
        /\ notifying' \in [Callers -> Notifications \cup {None}]
        /\ raced' = raced \ kept /\ crossed' = (crossed \ kept) \cup (kept \cap InFlight)
        /\ raced' \subseteq Handles /\ crossed' \subseteq Handles /\ InFlight' = InFlight \cup kept
    <3>1. Shapes /\ kept \in SUBSET Handles /\ TRUE \in BOOLEAN /\ Owes(i, t, TRUE, kept)
      BY <1>1, <1>2, <1>3
    <3> HIDE DEF kept
    <3>. QED BY <3>1, OwesLaws, Zenon
  <2>2. \A g : ToldOf(g)' => ToldOf(g) \/ g \in kept
    BY <1>3, <2>1 DEF ToldOf
  <2>. QED BY <2>1, <2>2
<1>5. /\ \A j \in SubHals \ {i} : connected'[j] = connected[j]
      /\ connected'[i] = connected[i] \cup handles
  BY <1>1, <1>3 DEF Shapes
<1>6. Shapes'
  <2>1. connected' \in [SubHals -> SUBSET Nat]
    BY <1>1, <1>3, SensorTypes DEF Shapes
  <2>2. \A j \in SubHals : connected'[j] \subseteq DOMAIN DynamicSensors[j]
    BY <1>1, <1>5 DEF Shapes
  <2>. QED BY <1>1, <1>3, <1>4, <2>1, <2>2 DEF Shapes, listVars, modeVars
<1>7. ConstructedFirst' /\ ListInv' /\ ModesInStep' /\ EventLookedUp'
  <2>1. binder # "constructing"
    BY <1>1, <1>3 DEF ConstructedFirst, HasCallback, Serving
  <2>. QED BY <1>1, <1>3, <2>1, ListFrame, ModesFrame, EventFrame DEF ConstructedFirst, listVars
<1>8. OnlyDynamicTold'
  <2>1. \A g \in mDynamicSensors' \cup known' : \E j \in SubHals : g \in DynamicHandles(j)
    BY <1>1, <1>2, <1>3 DEF DynamicInv, OnlyDynamicTold
  <2>2. \A d \in Callers : notifying'[d] # None => notifying'[d].sensors \subseteq DynamicHandles(d[1])
    BY <1>1, <1>2, <1>4 DEF DynamicInv, OnlyDynamicTold
  <2>. QED BY <2>1, <2>2 DEF OnlyDynamicTold
<1>9. NotificationsInStep'
  <2>1. ASSUME NEW d \in Callers \ {c}, notifying'[d] # None,
               NEW g \in notifying'[d].sensors \ (raced' \cup crossed')
        PROVE  IF notifying'[d].connected THEN binder' = "replacing" \/ g \in mDynamicSensors'
                                          ELSE g \notin mDynamicSensors'
    <3>1. notifying'[d] = notifying[d] /\ g \in InFlight
      BY <1>4, <2>1 DEF InFlight
    <3>2. g \notin kept /\ g \notin raced \cup crossed
      BY <1>4, <2>1, <3>1
    <3>. QED BY <1>1, <1>3, <2>1, <3>1, <3>2 DEF DynamicInv, NotificationsInStep
  <2>. QED BY <1>3, <1>4, <2>1 DEF NotificationsInStep
<1>10. ConnectedKnown'
  <2>1. ASSUME binder # "replacing", NEW j \in SubHals, NEW h \in connected'[j],
               SubHalIndexIsClear(h), ToldOf(SetSubHalIndex(h, j))'
        PROVE  SetSubHalIndex(h, j) \in mDynamicSensors' \cup raced'
    <3>1. h \in connected[j] \/ (j = i /\ h \in handles)
      BY <1>5, <2>1
    <3>2. SetSubHalIndex(h, j) \in kept \/ (h \in connected[j] /\ ToldOf(SetSubHalIndex(h, j)))
      BY <1>4, <2>1, <3>1 DEF KeptHandles
    <3>3. SetSubHalIndex(h, j) \in kept \cup mDynamicSensors \cup raced
      BY <1>1, <2>1, <3>2 DEF DynamicInv, ConnectedKnown
    <3>. QED BY <1>3, <1>4, <3>3
  <2>. QED BY <1>3, <2>1 DEF ConnectedKnown
<1>11. DynamicSensorsAgree'
  BY <1>1, <1>3, <1>4 DEF DynamicInv, DynamicSensorsAgree
<1>12. ActiveInStep'
  <2>1. ASSUME NEW j \in SubHals, NEW h \in active[j]
        PROVE  /\ h \in Nat /\ SubHalIndexIsClear(h) /\ h \in DOMAIN StaticSensors[j] \cup connected'[j]
               /\ ExtractSubHalIndex(SetSubHalIndex(h, j)) = j
               /\ ClearSubHalIndex(SetSubHalIndex(h, j)) = h
    BY <1>1, <1>5, HandleLaws DEF ActiveInStep, Shapes
  <2>2. ASSUME NEW j \in SubHals, NEW h \in active[j], binder \in {"clearing", "replacing"}
        PROVE  SetSubHalIndex(h, j) \notin kept
    <3>1. h \in connected[j]
      BY <1>1, <2>2 DEF ActiveInStep
    <3>2. \A g \in kept : ExtractSubHalIndex(g) = i /\ ClearSubHalIndex(g) \in handles
      BY KeptLaws, SensorTypes
    <3>. QED BY <1>3, <2>1, <3>1, <3>2
  <2>. QED BY <1>1, <1>3, <1>4, <2>1, <2>2 DEF ActiveInStep, listVars
<1>. QED BY <1>6, <1>7, <1>8, <1>9, <1>10, <1>11, <1>12 DEF IInv, ListInv

LEMMA DisconnectKeeps ==
  ASSUME IInv, NEW i \in SubHals, NEW t \in Threads, NEW handles \in SUBSET DOMAIN DynamicSensors[i],
         OnDynamicSensorsDisconnected(i, t, handles)
  PROVE  IInv'
<1> DEFINE gone == KeptHandles(handles, i) \cap mDynamicSensors
           c == <<i, t>>
<1>1. Shapes /\ ConstructedFirst /\ ListInv /\ ModesInStep /\ DynamicInv /\ ActiveInStep /\ EventLookedUp
  BY InvParts
<1>2. gone \subseteq DynamicHandles(i) /\ gone \subseteq Handles
  BY ReportedHandles, SensorTypes
<1>3. /\ HasCallback
      /\ connected' = [connected EXCEPT ![i] = @ \ handles]
      /\ active' = [active EXCEPT ![i] = @ \ handles]
      /\ mDynamicSensors' = mDynamicSensors \ gone /\ Owes(i, t, FALSE, gone)
      /\ UNCHANGED <<listVars, modeVars, binder, inits, known, event>>
  BY DEF OnDynamicSensorsDisconnected, Erased
<1>4. /\ c \in Callers /\ c[1] = i
      /\ notifying'[c] # None /\ ~notifying'[c].connected /\ notifying'[c].sensors = gone
      /\ \A d \in Callers \ {c} : notifying'[d] = notifying[d]
      /\ notifying' \in [Callers -> Notifications \cup {None}]
      /\ raced' = raced \ gone /\ crossed' = (crossed \ gone) \cup (gone \cap InFlight)
      /\ raced' \subseteq Handles /\ crossed' \subseteq Handles /\ InFlight' = InFlight \cup gone
      /\ \A g : ToldOf(g)' => ToldOf(g)
  <2>1. /\ c \in Callers /\ c[1] = i
        /\ notifying'[c] # None /\ notifying'[c] = [connected |-> FALSE, sensors |-> gone]
        /\ \A d \in Callers \ {c} : notifying'[d] = notifying[d]
        /\ notifying' \in [Callers -> Notifications \cup {None}]
        /\ raced' = raced \ gone /\ crossed' = (crossed \ gone) \cup (gone \cap InFlight)
        /\ raced' \subseteq Handles /\ crossed' \subseteq Handles /\ InFlight' = InFlight \cup gone
    <3>1. Shapes /\ gone \in SUBSET Handles /\ FALSE \in BOOLEAN /\ Owes(i, t, FALSE, gone)
      BY <1>1, <1>2, <1>3
    <3> HIDE DEF gone
    <3>. QED BY <3>1, OwesLaws, Zenon
  <2>2. \A g : ToldOf(g)' => ToldOf(g)
    BY <1>3, <2>1 DEF ToldOf
  <2>. QED BY <2>1, <2>2
<1>5. /\ \A j \in SubHals \ {i} : connected'[j] = connected[j] /\ active'[j] = active[j]
      /\ connected'[i] = connected[i] \ handles /\ active'[i] = active[i] \ handles
  BY <1>1, <1>3 DEF Shapes
<1>6. Shapes'
  <2>1. connected' \in [SubHals -> SUBSET Nat] /\ active' \in [SubHals -> SUBSET Nat]
    BY <1>1, <1>3 DEF Shapes
  <2>2. \A j \in SubHals : connected'[j] \subseteq DOMAIN DynamicSensors[j]
    BY <1>1, <1>5 DEF Shapes
  <2>. QED BY <1>1, <1>3, <1>4, <2>1, <2>2 DEF Shapes, listVars, modeVars
<1>7. ConstructedFirst' /\ ListInv' /\ ModesInStep' /\ EventLookedUp'
  <2>1. binder # "constructing"
    BY <1>1, <1>3 DEF ConstructedFirst, HasCallback, Serving
  <2>. QED BY <1>1, <1>3, <2>1, ListFrame, ModesFrame, EventFrame DEF ConstructedFirst, listVars
<1>8. OnlyDynamicTold'
  <2>1. \A g \in mDynamicSensors' \cup known' : \E j \in SubHals : g \in DynamicHandles(j)
    BY <1>1, <1>3 DEF DynamicInv, OnlyDynamicTold
  <2>2. \A d \in Callers : notifying'[d] # None => notifying'[d].sensors \subseteq DynamicHandles(d[1])
    BY <1>1, <1>2, <1>4 DEF DynamicInv, OnlyDynamicTold
  <2>. QED BY <2>1, <2>2 DEF OnlyDynamicTold
<1>9. NotificationsInStep'
  <2>1. ASSUME NEW d \in Callers \ {c}, notifying'[d] # None,
               NEW g \in notifying'[d].sensors \ (raced' \cup crossed')
        PROVE  IF notifying'[d].connected THEN binder' = "replacing" \/ g \in mDynamicSensors'
                                          ELSE g \notin mDynamicSensors'
    <3>1. notifying'[d] = notifying[d] /\ g \in InFlight
      BY <1>4, <2>1 DEF InFlight
    <3>2. g \notin gone /\ g \notin raced \cup crossed
      BY <1>4, <2>1, <3>1
    <3>. QED BY <1>1, <1>3, <2>1, <3>1, <3>2 DEF DynamicInv, NotificationsInStep
  <2>. QED BY <1>3, <1>4, <2>1 DEF NotificationsInStep
<1>10. \A j \in SubHals : \A h \in connected'[j] :
         h \in connected[j] /\ (SubHalIndexIsClear(h) => SetSubHalIndex(h, j) \notin gone)
  <2>1. ASSUME NEW j \in SubHals, NEW h \in connected'[j]
        PROVE  h \in connected[j] /\ h \in Nat /\ (j = i => h \notin handles)
    BY <1>1, <1>5 DEF Shapes
  <2>2. \A g \in KeptHandles(handles, i) : ExtractSubHalIndex(g) = i /\ ClearSubHalIndex(g) \in handles
    BY KeptLaws, SensorTypes
  <2>. QED BY <2>1, <2>2, HandleLaws
<1>11. ConnectedKnown'
  <2>1. ASSUME binder # "replacing", NEW j \in SubHals, NEW h \in connected'[j],
               SubHalIndexIsClear(h), ToldOf(SetSubHalIndex(h, j))'
        PROVE  SetSubHalIndex(h, j) \in mDynamicSensors' \cup raced'
    <3>1. h \in connected[j] /\ SetSubHalIndex(h, j) \notin gone /\ ToldOf(SetSubHalIndex(h, j))
      BY <1>4, <1>10, <2>1
    <3>2. SetSubHalIndex(h, j) \in mDynamicSensors \cup raced
      BY <1>1, <2>1, <3>1 DEF DynamicInv, ConnectedKnown
    <3>. QED BY <1>3, <1>4, <3>1, <3>2
  <2>. QED BY <1>3, <2>1 DEF ConnectedKnown
<1>12. DynamicSensorsAgree'
  BY <1>1, <1>3, <1>4 DEF DynamicInv, DynamicSensorsAgree
<1>13. ActiveInStep'
  <2>1. ASSUME NEW j \in SubHals, NEW h \in active'[j]
        PROVE  /\ h \in active[j] /\ h \in Nat /\ SubHalIndexIsClear(h)
               /\ h \in DOMAIN StaticSensors[j] \cup connected'[j]
               /\ SetSubHalIndex(h, j) \notin gone
    <3>1. h \in active[j] /\ h \in Nat /\ SubHalIndexIsClear(h) /\ (j = i => h \notin handles)
          /\ h \in DOMAIN StaticSensors[j] \cup connected[j]
      BY <1>1, <1>5 DEF ActiveInStep, Shapes
    <3>2. h \in DOMAIN StaticSensors[j] \cup connected'[j]
      BY <1>5, <3>1
    <3>3. \A g \in KeptHandles(handles, i) : ExtractSubHalIndex(g) = i /\ ClearSubHalIndex(g) \in handles
      BY KeptLaws, SensorTypes
    <3>. QED BY <3>1, <3>2, <3>3, HandleLaws
  <2>. QED BY <1>1, <1>3, <1>4, <2>1 DEF ActiveInStep, listVars
<1>. QED BY <1>6, <1>7, <1>8, <1>9, <1>11, <1>12, <1>13 DEF IInv, ListInv

LEMMA NotifyKeeps ==
  ASSUME IInv, NEW i \in SubHals, NEW t \in Threads, NotifyFramework(i, t)
  PROVE  IInv'
<1>0. PICK c \in Callers : c = <<i, t>> /\ c[1] = i
  BY CallerLaws
<1> DEFINE S == notifying[c].sensors
<1>1. Shapes /\ ConstructedFirst /\ ListInv /\ ModesInStep /\ DynamicInv /\ ActiveInStep /\ EventLookedUp
  BY InvParts
<1>2. /\ notifying[c] # None
      /\ known' = IF notifying[c].connected THEN known \cup S ELSE known \ S
      /\ notifying' = [notifying EXCEPT ![c] = None]
      /\ UNCHANGED <<listVars, modeVars, binder, inits, active, mDynamicSensors, connected, raced, crossed,
                     event>>
  BY <1>0 DEF NotifyFramework
<1>3. /\ notifying'[c] = None /\ \A d \in Callers \ {c} : notifying'[d] = notifying[d]
      /\ notifying' \in [Callers -> Notifications \cup {None}]
  BY <1>1, <1>2 DEF Shapes
<1>4. S \subseteq InFlight /\ InFlight \subseteq InFlight' \cup S /\ InFlight' \subseteq InFlight
  <2>1. ASSUME NEW g \in InFlight
        PROVE  g \in InFlight' \cup S
    BY <1>3 DEF InFlight
  <2>2. ASSUME NEW g \in InFlight'
        PROVE  g \in InFlight
    BY <1>3 DEF InFlight
  <2>3. S \subseteq InFlight
    BY <1>2 DEF InFlight
  <2>. QED BY <2>1, <2>2, <2>3
<1>5. Shapes'
  BY <1>1, <1>2, <1>3 DEF Shapes, listVars, modeVars
<1>6. ModesInStep' /\ EventLookedUp' /\ ActiveInStep' /\ ListInv'
  BY <1>1, <1>2, ListFrame, ModesFrame, EventFrame, ActiveFrame DEF listVars
<1>7. ConstructedFirst'
  <2>1. known' \subseteq known \cup InFlight
    BY <1>2, <1>4
  <2>. QED BY <1>1, <1>2, <1>4, <2>1 DEF ConstructedFirst, listVars
<1>8. OnlyDynamicTold'
  <2>1. known' \subseteq known \cup DynamicHandles(i)
    BY <1>0, <1>1, <1>2 DEF DynamicInv, OnlyDynamicTold
  <2>. QED BY <1>1, <1>2, <1>3, <2>1 DEF DynamicInv, OnlyDynamicTold
<1>9. NotificationsInStep'
  BY <1>1, <1>2, <1>3 DEF DynamicInv, NotificationsInStep
<1>10. ConnectedKnown'
  <2>1. \A g : ToldOf(g)' => ToldOf(g)
    BY <1>2, <1>3 DEF ToldOf
  <2>. QED BY <1>1, <1>2, <2>1 DEF DynamicInv, ConnectedKnown
<1>11. DynamicSensorsAgree'
  <2>1. ASSUME NEW g \in S \ (raced \cup crossed)
        PROVE  IF notifying[c].connected THEN binder = "replacing" \/ g \in mDynamicSensors
                                         ELSE g \notin mDynamicSensors
    BY <1>1, <1>2 DEF DynamicInv, NotificationsInStep
  <2>2. ASSUME NEW g, g \in (known' \ mDynamicSensors) \cup (mDynamicSensors \ known'),
               g \notin InFlight' \cup raced \cup crossed
        PROVE  g \in IF binder = "replacing" THEN known' ELSE {}
    <3>1. CASE g \in S
      BY <1>2, <2>1, <2>2, <3>1
    <3>2. CASE g \notin S
      <4>1. g \in known' <=> g \in known
        BY <1>2, <3>2
      <4>2. g \in IF binder = "replacing" THEN known ELSE {}
        BY <1>1, <1>4, <2>2, <3>2, <4>1 DEF DynamicInv, DynamicSensorsAgree
      <4>. QED BY <4>1, <4>2
    <3>. QED BY <3>1, <3>2
  <2>. QED BY <1>2, <2>2 DEF DynamicSensorsAgree
<1>. QED BY <1>5, <1>6, <1>7, <1>8, <1>9, <1>10, <1>11 DEF IInv, ListInv
-----------------------------------------------------------------------------
(***************************************************************************)
(* Events.                                                                 *)
(***************************************************************************)
LEMMA PostKeeps ==
  ASSUME IInv, NEW i \in SubHals, NEW h \in active[i], NEW dropped \in BOOLEAN,
         PostEvents(i, h, dropped)
  PROVE  IInv'
<1> DEFINE g == SetSubHalIndex(h, i)
<1>1. Shapes /\ ConstructedFirst /\ ListInv /\ ModesInStep /\ DynamicInv /\ ActiveInStep
  BY InvParts
<1>2. /\ LookUp(g)
      /\ event' = [sensorHandle |-> IF dropped THEN 0 ELSE g, from |-> [subHal |-> i, handle |-> h],
                   counted |-> "WAKE_UP" \in mSensors'[g].flags]
      /\ UNCHANGED <<loaded, mDirectChannelSubHal, dynamicVars, modeVars, binder, inits, active>>
      /\ binder # "constructing"
  BY DEF PostEvents, LookedUp, ThreadsRunning
<1>3. h \in Nat /\ SubHalIndexIsClear(h) /\ h \in DOMAIN StaticSensors[i] \cup DOMAIN DynamicSensors[i]
  BY <1>1 DEF ActiveInStep, Shapes
<1>4. g \in DOMAIN mSensors \cup Unlisted
  <2>1. CASE h \in DOMAIN StaticSensors[i]
    <3>1. i \in 0..loaded - 1
      BY <1>1, <1>2 DEF ConstructedFirst, SubHals
    <3>. QED BY <1>1, <1>3, <2>1, <3>1 DEF ListInv, ListComplete
  <2>2. CASE h \in DOMAIN DynamicSensors[i]
    BY <1>3, <2>2, KeptLaws, SensorTypes DEF DynamicHandles
  <2>. QED BY <1>3, <2>1, <2>2
<1>5. ListInv' /\ DOMAIN mSensors' = DOMAIN mSensors \cup {g}
  BY <1>1, <1>2, <1>4, LookUpKeeps
<1>6. Shapes' /\ ConstructedFirst'
  BY <1>1, <1>2 DEF Shapes, ConstructedFirst, dynamicVars, modeVars
<1>7. ModesInStep' /\ DynamicInv'
  BY <1>1, <1>2, ModesFrame, DynamicFrame
<1>8. ActiveInStep'
  BY <1>1, <1>2, <1>5, ActiveFrame DEF dynamicVars
<1>9. EventLookedUp'
  <2>1. event'.from.subHal = i /\ event'.from.handle = h /\ event'.sensorHandle \in {0, g}
    BY <1>2
  <2>2. event'.counted \in BOOLEAN /\ (event'.counted <=> "WAKE_UP" \in mSensors'[g].flags)
    <3>1. PICK flags : flags = mSensors'[g].flags
      OBVIOUS
    <3>2. event'.counted = ("WAKE_UP" \in flags)
      BY <1>2, <3>1
    <3>3. event'.counted \in BOOLEAN
      BY <3>2
    <3>4. event'.counted <=> "WAKE_UP" \in flags
      BY <3>2
    <3>. QED BY <3>1, <3>3, <3>4
  <2>3. h \in SensorsOfSubHal(i)
    BY <1>3 DEF SensorsOfSubHal
  <2>. QED BY <1>3, <1>5, <2>1, <2>2, <2>3 DEF EventLookedUp
<1>. QED BY <1>5, <1>6, <1>7, <1>8, <1>9 DEF IInv, ListInv, DynamicInv

LEMMA CountKeeps ==
  ASSUME IInv, CountNumWakeupEvents
  PROVE  IInv'
<1>1. Shapes /\ ConstructedFirst /\ ListInv /\ ModesInStep /\ DynamicInv /\ ActiveInStep /\ EventLookedUp
  BY InvParts
<1>2. PICK g : g = event.sensorHandle
  OBVIOUS
<1>3. /\ LookUp(g) /\ event # None /\ event' = None
      /\ UNCHANGED <<loaded, mDirectChannelSubHal, dynamicVars, modeVars, binder, inits, active>>
  BY <1>2 DEF CountNumWakeupEvents
<1>4. g \in DOMAIN mSensors \cup Unlisted
  BY <1>1, <1>2, <1>3 DEF EventLookedUp, Unlisted
<1>5. ListInv' /\ DOMAIN mSensors' = DOMAIN mSensors \cup {g}
  BY <1>1, <1>3, <1>4, LookUpKeeps
<1>6. Shapes' /\ ConstructedFirst'
  BY <1>1, <1>3 DEF Shapes, ConstructedFirst, dynamicVars, modeVars
<1>7. ModesInStep' /\ DynamicInv' /\ EventLookedUp'
  BY <1>1, <1>3, ModesFrame, DynamicFrame, EventFrame
<1>8. ActiveInStep'
  BY <1>1, <1>3, <1>5, ActiveFrame DEF dynamicVars
<1>. QED BY <1>5, <1>6, <1>7, <1>8 DEF IInv, ListInv, DynamicInv
-----------------------------------------------------------------------------
(***************************************************************************)
(* The framework's calls.                                                  *)
(***************************************************************************)

\* What the framework is offered or told of leads to a sensor the proxy knows, if
\* its sub-HAL has it: a removal it was not told of is one the sub-HAL made.
LEMMA ActivatedKnown ==
  ASSUME IInv, Serving, NEW g \in {sensor.sensorHandle : sensor \in Listed} \cup known
  PROVE  LET i == ExtractSubHalIndex(g)
             h == ClearSubHalIndex(g)
         IN  h \in DOMAIN StaticSensors[i] \cup connected[i] =>
               /\ i \in SubHals /\ h \in Nat /\ SubHalIndexIsClear(h) /\ g = SetSubHalIndex(h, i)
               /\ g \in DOMAIN mSensors \cup mDynamicSensors \cup raced \cup OfferedByEmptyEntries
<1> DEFINE i == ExtractSubHalIndex(g)
           h == ClearSubHalIndex(g)
<1>1. Shapes /\ ConstructedFirst /\ ListInv /\ DynamicInv
  BY InvParts
<1>2. SubHals = 0..loaded - 1 /\ binder = "idle"
  BY <1>1 DEF ConstructedFirst, Serving, SubHals
<1>3. CASE g \in DOMAIN mSensors /\ ~IsEmptyEntry(g)
  <2>1. PICK j \in SubHals : \E k \in DOMAIN StaticSensors[j] : IsSensorOf(g, j, k)
    BY <1>1, <1>3 DEF ListInv, EntriesExplained
  <2>2. PICK k \in DOMAIN StaticSensors[j] : IsSensorOf(g, j, k)
    BY <2>1
  <2>3. i = j /\ h = k /\ k \in Nat
    BY <2>1, <2>2, HandleLaws, SensorTypes DEF IsSensorOf
  <2>. QED BY <1>3, <2>2, <2>3 DEF IsSensorOf
<1>4. CASE g = 0
  <2>1. 0 \in SubHals /\ 0 \in Nat /\ SubHalIndexIsClear(0) /\ SetSubHalIndex(0, 0) = 0
    BY RegistryAssumption DEF SubHals, SubHalIndexIsClear, SetSubHalIndex
  <2>2. i = 0 /\ h = 0
    BY <1>4, <2>1, HandleLaws
  <2>3. 0 \in DOMAIN StaticSensors[0] => 0 \in DOMAIN mSensors
    BY <1>1, <1>2, <2>1 DEF ListInv, ListComplete
  <2>. QED BY <1>4, <2>1, <2>2, <2>3 DEF OfferedByEmptyEntries
<1>5. CASE g \in known
  <2>1. PICK j \in SubHals : g \in DynamicHandles(j)
    BY <1>1, <1>5 DEF DynamicInv, OnlyDynamicTold
  <2>2. i = j /\ h \in Nat /\ SubHalIndexIsClear(h) /\ g = SetSubHalIndex(h, i)
    BY <2>1, KeptLaws, SensorTypes DEF DynamicHandles
  <2>3. h \in connected[i] => g \in mDynamicSensors \cup raced
    BY <1>1, <1>2, <1>5, <2>1, <2>2 DEF DynamicInv, ConnectedKnown, ToldOf
  <2>5. h \in DOMAIN StaticSensors[i] => g \in DOMAIN mSensors
    BY <1>1, <1>2, <2>2 DEF ListInv, ListComplete
  <2>. QED BY <2>1, <2>2, <2>3, <2>5
<1>6. g \in known \/ g = 0 \/ (g \in DOMAIN mSensors /\ ~IsEmptyEntry(g))
  <2>1. ASSUME NEW e \in DOMAIN mSensors, g = mSensors[e].sensorHandle
        PROVE  g = 0 \/ (g \in DOMAIN mSensors /\ ~IsEmptyEntry(g))
    <3>1. CASE IsEmptyEntry(e)
      BY <2>1, <3>1 DEF IsEmptyEntry
    <3>2. CASE ~IsEmptyEntry(e)
      BY <1>1, <2>1, <3>2 DEF ListInv, EntriesExplained, IsSensorOf
    <3>. QED BY <3>1, <3>2
  <2>. QED BY <2>1 DEF Listed
<1>. QED BY <1>3, <1>4, <1>5, <1>6

LEMMA ActivateKeeps ==
  ASSUME IInv, NEW g \in {sensor.sensorHandle : sensor \in Listed} \cup known,
         NEW enabled \in BOOLEAN, Activate(g, enabled)
  PROVE  IInv'
<1> DEFINE i == ExtractSubHalIndex(g)
           h == ClearSubHalIndex(g)
<1>1. Shapes /\ ConstructedFirst /\ ListInv /\ ModesInStep /\ DynamicInv /\ ActiveInStep /\ EventLookedUp
  BY InvParts
<1>2. /\ Serving /\ h \in DOMAIN StaticSensors[i] \cup connected[i]
      /\ active' = [active EXCEPT ![i] = IF enabled THEN @ \cup {h} ELSE @ \ {h}]
      /\ UNCHANGED <<listVars, dynamicVars, modeVars, binder, inits, event>>
  BY DEF Activate
<1>3. /\ i \in SubHals /\ h \in Nat /\ SubHalIndexIsClear(h) /\ g = SetSubHalIndex(h, i)
      /\ g \in DOMAIN mSensors \cup mDynamicSensors \cup raced \cup OfferedByEmptyEntries
  BY <1>2, ActivatedKnown
<1>4. /\ \A j \in SubHals \ {i} : active'[j] = active[j]
      /\ active'[i] \subseteq active[i] \cup {h}
      /\ active' \in [SubHals -> SUBSET Nat]
  BY <1>1, <1>2, <1>3 DEF Shapes
<1>5. Shapes' /\ ConstructedFirst'
  BY <1>1, <1>2, <1>4, ConstructedFrame DEF Shapes, listVars, dynamicVars, modeVars
<1>6. ListInv' /\ ModesInStep' /\ DynamicInv' /\ EventLookedUp'
  BY <1>1, <1>2, ListFrame, ModesFrame, DynamicFrame, EventFrame DEF listVars
<1>7. ActiveInStep'
  <2>1. ASSUME NEW j \in SubHals, NEW k \in active'[j]
        PROVE  k \in active[j] \/ (j = i /\ k = h)
    BY <1>4
  <2>. QED BY <1>1, <1>2, <1>3, <2>1 DEF ActiveInStep, Serving, listVars, dynamicVars
<1>. QED BY <1>5, <1>6, <1>7 DEF IInv, ListInv, DynamicInv

\* A switch of the operation mode, or one that fails, keeps it.
LEMMA ModeKeeps ==
  ASSUME IInv, NEW m \in Modes,
         \/ SetOperationMode(m)
         \/ \E failing \in SubHals : \E refusing \in SUBSET (0..failing - 1) :
              SetOperationModeFails(m, failing, refusing)
  PROVE  IInv'
<1>1. Shapes /\ ConstructedFirst /\ ListInv /\ ModesInStep /\ DynamicInv /\ ActiveInStep /\ EventLookedUp
  BY InvParts
<1>2. UNCHANGED <<listVars, dynamicVars, binder, inits, active, event>>
  BY DEF SetOperationMode, SetOperationModeFails
<1>3. ConstructedFirst' /\ ListInv' /\ DynamicInv' /\ ActiveInStep' /\ EventLookedUp'
  <2>1. ListInv' /\ DynamicInv' /\ EventLookedUp'
    BY <1>1, <1>2, ListFrame, DynamicFrame, EventFrame DEF listVars
  <2>2. ActiveInStep' /\ ConstructedFirst'
    BY <1>1, <1>2, ActiveFrame, ConstructedFrame DEF listVars, dynamicVars
  <2>. QED BY <2>1, <2>2
<1>4. CASE SetOperationMode(m)
  <2>1. mode' \in [SubHals -> Modes] /\ unrestored' = {} /\ mCurrentOperationMode' = m
    BY <1>4 DEF SetOperationMode
  <2>2. \A i \in SubHals : mode'[i] = m
    BY <1>4 DEF SetOperationMode
  <2>3. Shapes' /\ ModesInStep'
    BY <1>1, <1>2, <2>1, <2>2 DEF Shapes, ModesInStep, listVars, dynamicVars
  <2>. QED BY <1>3, <2>3 DEF IInv, ListInv, DynamicInv
<1>5. ASSUME NEW failing \in SubHals, NEW refusing \in SUBSET (0..failing - 1),
             SetOperationModeFails(m, failing, refusing)
      PROVE  Shapes' /\ ModesInStep'
  <2>1. /\ mode' = [i \in SubHals |->
                      IF i >= failing THEN mode[i] ELSE IF i \in refusing THEN m ELSE mCurrentOperationMode]
        /\ unrestored' = (unrestored \ (0..failing - 1)) \cup refusing
        /\ mCurrentOperationMode' = mCurrentOperationMode
    BY <1>5 DEF SetOperationModeFails, ModeBefore
  <2>2. mode' \in [SubHals -> Modes] /\ unrestored' \subseteq SubHals
    BY <1>1, <2>1, RegistryAssumption DEF Shapes, SubHals
  <2>3. ASSUME NEW i \in SubHals \ unrestored'
        PROVE  mode'[i] = mCurrentOperationMode
    <3>1. i \notin refusing /\ i \in Nat /\ failing \in Nat
      BY <2>1 DEF SubHals
    <3>2. CASE i >= failing
      BY <1>1, <2>1, <2>3, <3>1, <3>2 DEF ModesInStep
    <3>3. CASE i < failing
      BY <2>1, <3>1, <3>3
    <3>. QED BY <3>1, <3>2, <3>3
  <2>. QED BY <1>1, <1>2, <2>1, <2>2, <2>3 DEF Shapes, ModesInStep, listVars, dynamicVars
<1>. QED BY <1>3, <1>4, <1>5 DEF IInv, ListInv, DynamicInv
-----------------------------------------------------------------------------
(***************************************************************************)
(* initialize().                                                           *)
(***************************************************************************)
LEMMA DisableKeeps ==
  ASSUME IInv, DisableAllSensors
  PROVE  IInv'
<1>1. Shapes /\ ConstructedFirst /\ ListInv /\ ModesInStep /\ DynamicInv /\ ActiveInStep /\ EventLookedUp
  BY InvParts
<1>2. /\ binder = "idle" /\ binder' = "clearing" /\ inits < MaxInits /\ inits' = inits + 1
      /\ active' = [i \in SubHals |-> active[i] \ SensorsOf(i)]
      /\ UNCHANGED <<listVars, dynamicVars, modeVars, event>>
  BY DEF DisableAllSensors, Disabled
<1>3. Shapes'
  <2>1. active' \in [SubHals -> SUBSET Nat]
    BY <1>1, <1>2 DEF Shapes
  <2>2. inits' \in 0..MaxInits
    BY <1>1, <1>2, RegistryAssumption DEF Shapes
  <2>. QED BY <1>1, <1>2, <2>1, <2>2 DEF Shapes, listVars, dynamicVars, modeVars
<1>4. ConstructedFirst' /\ ListInv' /\ ModesInStep' /\ DynamicInv' /\ EventLookedUp'
  BY <1>1, <1>2, ListFrame, ModesFrame, DynamicFrame, EventFrame DEF ConstructedFirst, listVars
<1>5. ASSUME NEW i \in SubHals, NEW h \in active'[i]
      PROVE  /\ h \in active[i] /\ SubHalIndexIsClear(h) /\ h \in connected[i]
             /\ h \notin DOMAIN StaticSensors[i]
             /\ SetSubHalIndex(h, i) \in raced \cup OfferedByEmptyEntries
  <2>1. h \in active[i] /\ h \notin SensorsOf(i) /\ h \in Nat
    BY <1>1, <1>2 DEF Shapes
  <2>2. /\ SubHalIndexIsClear(h) /\ h \in DOMAIN StaticSensors[i] \cup connected[i]
        /\ SetSubHalIndex(h, i) \in DOMAIN mSensors \cup mDynamicSensors \cup raced \cup OfferedByEmptyEntries
    BY <1>1, <1>2, <2>1 DEF ActiveInStep
  <2>3. SetSubHalIndex(h, i) \notin DOMAIN mSensors \cup mDynamicSensors
    BY <2>1, <2>2, HandleLaws DEF SensorsOf
  <2>4. i \in 0..loaded - 1
    BY <1>1, <1>2 DEF ConstructedFirst, SubHals
  <2>5. h \notin DOMAIN StaticSensors[i]
    BY <1>1, <2>2, <2>3, <2>4 DEF ListInv, ListComplete
  <2>. QED BY <2>1, <2>2, <2>3, <2>5
<1>6. ActiveInStep'
  BY <1>2, <1>5 DEF ActiveInStep, dynamicVars
<1>. QED BY <1>3, <1>4, <1>6 DEF IInv, ListInv, DynamicInv

LEMMA ClearKeeps ==
  ASSUME IInv, ClearDynamicSensors
  PROVE  IInv'
<1>1. Shapes /\ ConstructedFirst /\ ListInv /\ ModesInStep /\ DynamicInv /\ ActiveInStep /\ EventLookedUp
  BY InvParts
<1>2. /\ binder = "clearing" /\ binder' = "replacing" /\ mDynamicSensors' = {} /\ event' = None
      /\ UNCHANGED <<listVars, modeVars, inits, active, notifying, known, connected, raced, crossed>>
  BY DEF ClearDynamicSensors
<1>3. Shapes' /\ ConstructedFirst'
  BY <1>1, <1>2 DEF Shapes, ConstructedFirst, listVars, modeVars
<1>4. ListInv' /\ ModesInStep' /\ EventLookedUp'
  BY <1>1, <1>2, ListFrame, ModesFrame, EventFrame
<1>5. OnlyDynamicTold' /\ NotificationsInStep' /\ ConnectedKnown' /\ DynamicSensorsAgree'
  BY <1>1, <1>2 DEF DynamicInv, OnlyDynamicTold, NotificationsInStep, ConnectedKnown, DynamicSensorsAgree
<1>6. ActiveInStep'
  BY <1>1, <1>2 DEF ActiveInStep
<1>. QED BY <1>3, <1>4, <1>5, <1>6 DEF IInv, ListInv

LEMMA ReplaceKeeps ==
  ASSUME IInv, ReplaceCallback
  PROVE  IInv'
<1>1. Shapes /\ ConstructedFirst /\ ListInv /\ ModesInStep /\ DynamicInv /\ ActiveInStep /\ EventLookedUp
  BY InvParts
<1>2. /\ binder = "replacing" /\ binder' = "initializing" /\ known' = {}
      /\ raced' = InFlight \cup mDynamicSensors \cup (raced \cap Activated) /\ crossed' = {}
      /\ UNCHANGED <<listVars, modeVars, inits, active, mDynamicSensors, notifying, connected, event>>
  BY DEF ReplaceCallback
<1>3. raced' \subseteq Handles
  <2>1. InFlight \subseteq Handles
    BY <1>1, SensorTypes, CallerLaws DEF InFlight, DynamicInv, OnlyDynamicTold
  <2>2. mDynamicSensors \subseteq Handles
    BY <1>1, SensorTypes DEF DynamicInv, OnlyDynamicTold
  <2>. QED BY <1>1, <1>2, <2>1, <2>2 DEF Shapes
<1>4. Shapes' /\ ConstructedFirst'
  BY <1>1, <1>2, <1>3 DEF Shapes, ConstructedFirst, listVars, modeVars
<1>5. ListInv' /\ ModesInStep' /\ EventLookedUp'
  BY <1>1, <1>2, ListFrame, ModesFrame, EventFrame DEF listVars
<1>6. OnlyDynamicTold' /\ DynamicSensorsAgree'
  BY <1>1, <1>2 DEF DynamicInv, OnlyDynamicTold, DynamicSensorsAgree
<1>7. NotificationsInStep' /\ ConnectedKnown'
  <2>1. \A c \in Callers : notifying[c] # None => notifying[c].sensors \subseteq InFlight
    BY DEF InFlight
  <2>2. \A g : ToldOf(g)' => g \in InFlight
    BY <1>2, <2>1 DEF ToldOf
  <2>. QED BY <1>2, <2>1, <2>2 DEF NotificationsInStep, ConnectedKnown
<1>8. ActiveInStep'
  <2>1. ASSUME NEW i \in SubHals, NEW h \in active[i]
        PROVE  /\ SubHalIndexIsClear(h) /\ h \in DOMAIN StaticSensors[i] \cup connected[i]
               /\ SetSubHalIndex(h, i) \in raced' \cup OfferedByEmptyEntries
    <3>1. /\ SubHalIndexIsClear(h) /\ h \in DOMAIN StaticSensors[i] \cup connected[i]
          /\ SetSubHalIndex(h, i) \in raced \cup OfferedByEmptyEntries
      BY <1>1, <1>2 DEF ActiveInStep
    <3>2. SetSubHalIndex(h, i) \in Activated
      BY <3>1 DEF Activated, KeptHandles
    <3>. QED BY <1>2, <3>1, <3>2
  <2>. QED BY <1>2, <2>1 DEF ActiveInStep
<1>. QED BY <1>4, <1>5, <1>6, <1>7, <1>8 DEF IInv, ListInv

LEMMA InitializeKeeps ==
  ASSUME IInv, NEW failing \in SUBSET SubHals, InitializeSubHals(failing)
  PROVE  IInv'
<1>1. Shapes /\ ConstructedFirst /\ ListInv /\ ModesInStep /\ DynamicInv /\ ActiveInStep /\ EventLookedUp
  BY InvParts
<1>2. /\ binder = "initializing" /\ binder' = "idle"
      /\ mode' = [i \in SubHals |-> IF i \in failing THEN mode[i] ELSE "NORMAL"]
      /\ connected' = [i \in SubHals |-> IF i \in failing THEN connected[i] ELSE {}]
      /\ active' = [i \in SubHals |-> IF i \in failing THEN active[i] ELSE active[i] \ connected[i]]
      /\ unrestored' = {i \in failing : mode[i] # "NORMAL"} /\ mCurrentOperationMode' = "NORMAL"
      /\ UNCHANGED <<listVars, inits, mDynamicSensors, notifying, known, raced, crossed, event>>
  BY DEF InitializeSubHals
<1>3. Shapes' /\ ConstructedFirst'
  <2>1. /\ mode' \in [SubHals -> Modes] /\ connected' \in [SubHals -> SUBSET Nat]
        /\ active' \in [SubHals -> SUBSET Nat] /\ mCurrentOperationMode' \in Modes
        /\ unrestored' \subseteq SubHals
    BY <1>1, <1>2 DEF Shapes, Modes
  <2>2. \A i \in SubHals : connected'[i] \subseteq DOMAIN DynamicSensors[i]
    BY <1>1, <1>2 DEF Shapes
  <2>. QED BY <1>1, <1>2, <2>1, <2>2 DEF Shapes, ConstructedFirst, listVars
<1>4. ListInv' /\ EventLookedUp'
  BY <1>1, <1>2, ListFrame, EventFrame DEF listVars
<1>5. ModesInStep'
  BY <1>2 DEF ModesInStep
<1>6. OnlyDynamicTold' /\ DynamicSensorsAgree'
  BY <1>1, <1>2 DEF DynamicInv, OnlyDynamicTold, DynamicSensorsAgree, InFlight
<1>7. NotificationsInStep' /\ ConnectedKnown'
  <2>1. \A i \in SubHals : connected'[i] \subseteq connected[i]
    BY <1>2
  <2>2. \A g : ToldOf(g)' => ToldOf(g)
    BY <1>2 DEF ToldOf
  <2>3. ConnectedKnown'
    BY <1>1, <1>2, <2>1, <2>2 DEF DynamicInv, ConnectedKnown
  <2>. QED BY <1>1, <1>2, <2>3 DEF DynamicInv, NotificationsInStep
<1>8. ActiveInStep'
  <2>1. \A i \in SubHals : \A h \in active'[i] :
          h \in active[i] /\ (h \in connected[i] => h \in connected'[i])
    BY <1>2
  <2>. QED BY <1>1, <1>2, <2>1 DEF ActiveInStep, listVars
<1>. QED BY <1>3, <1>4, <1>5, <1>6, <1>7, <1>8 DEF IInv, ListInv
-----------------------------------------------------------------------------
(***************************************************************************)
(* The invariant is inductive.                                             *)
(***************************************************************************)
LEMMA InvInit == Init => IInv
<1> SUFFICES ASSUME Init PROVE IInv
  OBVIOUS
<1>1. Shapes
  <2>1. mode \in [SubHals -> Modes] /\ mCurrentOperationMode \in Modes
    BY DEF Init, Modes
  <2>2. 0 \in 0..MaxInits
    BY RegistryAssumption
  <2>. QED BY <2>1, <2>2 DEF Init, Shapes
<1>2. ConstructedFirst
  BY RegistryAssumption DEF Init, ConstructedFirst, InFlight
<1>3. DOMAIN mSensors = {} /\ loaded = 0
  BY DEF Init
<1>4. ListComplete /\ EntriesExplained /\ DirectFirst /\ FlagsFollow
  <2>1. mDirectChannelSubHal = None /\ 0..loaded - 1 = {}
    BY <1>3 DEF Init
  <2>. QED BY <1>3, <2>1 DEF ListComplete, EntriesExplained, DirectFirst, FlagsFollow
<1>5. ModesInStep /\ OnlyDynamicTold /\ NotificationsInStep /\ ConnectedKnown /\ DynamicSensorsAgree
  BY DEF Init, ModesInStep, OnlyDynamicTold, NotificationsInStep, ConnectedKnown, DynamicSensorsAgree
<1>6. ActiveInStep /\ EventLookedUp
  BY DEF Init, ActiveInStep, EventLookedUp
<1>. QED BY <1>1, <1>2, <1>4, <1>5, <1>6 DEF IInv

LEMMA InvNext == IInv /\ [Next]_vars => IInv'
<1> SUFFICES ASSUME IInv, [Next]_vars PROVE IInv'
  OBVIOUS
<1>0. Shapes /\ ConstructedFirst /\ ListInv /\ ModesInStep /\ DynamicInv /\ ActiveInStep /\ EventLookedUp
  BY InvParts
<1>1. CASE LoadSensorList
  <2>1. UNCHANGED <<dynamicVars, modeVars, inits, active, event>>
        /\ binder' \in {"constructing", "idle"} /\ binder = "constructing"
    BY <1>1 DEF LoadSensorList
  <2>2. ListInv' /\ ConstructedFirst' /\ Shapes'
    BY <1>0, <1>1, LoadKeeps
  <2>3. DOMAIN mSensors \subseteq DOMAIN mSensors'
    BY <1>1 DEF LoadSensorList
  <2>4. ModesInStep' /\ DynamicInv'
    BY <1>0, <2>1, ModesFrame, DynamicFrame
  <2>5. ActiveInStep'
    BY <1>0, <2>1, <2>3, ActiveFrame DEF dynamicVars
  <2>6. event' = None
    BY <1>0, <2>1 DEF ConstructedFirst
  <2>. QED BY <2>2, <2>4, <2>5, <2>6 DEF IInv, ListInv, DynamicInv, EventLookedUp
<1>2. CASE Framework
  <2>1. CASE ReadEvent
    <3>1. event' = None /\ UNCHANGED <<listVars, dynamicVars, modeVars, binder, inits, active>>
      BY <2>1 DEF ReadEvent
    <3>2. ListInv' /\ ModesInStep' /\ DynamicInv' /\ EventLookedUp'
      BY <1>0, <3>1, ListFrame, ModesFrame, DynamicFrame, EventFrame
    <3>3. Shapes' /\ ConstructedFirst' /\ ActiveInStep'
      BY <1>0, <3>1, ActiveFrame, ConstructedFrame DEF Shapes, listVars, dynamicVars, modeVars
    <3>. QED BY <3>2, <3>3 DEF IInv, ListInv, DynamicInv
  <2>. QED BY <1>2, <2>1, ActivateKeeps, ModeKeeps DEF Framework
<1>3. CASE \E i \in SubHals : SubHalThread(i)
  BY <1>3, ConnectKeeps, DisconnectKeeps, NotifyKeeps, PostKeeps DEF SubHalThread
<1>4. CASE CountNumWakeupEvents
  BY <1>4, CountKeeps
<1>5. CASE Initialize
  BY <1>5, DisableKeeps, ClearKeeps, ReplaceKeeps, InitializeKeeps DEF Initialize
<1>6. CASE UNCHANGED vars
  <2>1. UNCHANGED <<listVars, dynamicVars, modeVars, binder, inits, active, event>>
    BY <1>6 DEF vars
  <2>2. ListInv' /\ ModesInStep' /\ DynamicInv' /\ EventLookedUp'
    BY <1>0, <2>1, ListFrame, ModesFrame, DynamicFrame, EventFrame DEF listVars
  <2>3. Shapes' /\ ConstructedFirst' /\ ActiveInStep'
    BY <1>0, <2>1, ActiveFrame, ConstructedFrame DEF Shapes, listVars, dynamicVars, modeVars
  <2>. QED BY <2>2, <2>3 DEF IInv, ListInv, DynamicInv
<1>. QED BY <1>1, <1>2, <1>3, <1>4, <1>5, <1>6 DEF Next
-----------------------------------------------------------------------------
(***************************************************************************)
(* What it implies.                                                        *)
(***************************************************************************)
LEMMA InvTypes == IInv => TypeOK
<1> SUFFICES ASSUME IInv PROVE TypeOK
  OBVIOUS
<1>1. /\ DOMAIN mSensors \subseteq Handles
      /\ \A h \in DOMAIN mSensors : mSensors[h] \in [sensorHandle : Handles, flags : SUBSET Flags]
  BY EntryTypes DEF IInv
<1>2. mDynamicSensors \subseteq Handles /\ known \subseteq Handles
  BY SensorTypes DEF IInv, OnlyDynamicTold
<1>3. \A i \in SubHals : active[i] \subseteq SensorsOfSubHal(i) /\ connected[i] \subseteq DOMAIN DynamicSensors[i]
  BY DEF IInv, Shapes, ActiveInStep, SensorsOfSubHal
<1>4. event # None => event.sensorHandle \in Handles /\ event.counted \in BOOLEAN
  <2>1. 0 \in Handles
    BY RegistryAssumption DEF Handles
  <2>2. event # None => event.sensorHandle \in Handles
    BY <1>1, <2>1 DEF IInv, EventLookedUp
  <2>3. event # None => event.counted \in BOOLEAN
    BY DEF IInv, EventLookedUp
  <2>. QED BY <2>2, <2>3
<1>. QED BY <1>1, <1>2, <1>3, <1>4 DEF IInv, Shapes, ConstructedFirst, TypeOK

LEMMA InvRouted == IInv => HandlesRouted
<1> SUFFICES ASSUME IInv PROVE HandlesRouted
  OBVIOUS
<1>1. ASSUME NEW g \in DOMAIN mSensors \ Unlisted
      PROVE  LET i == ExtractSubHalIndex(g) IN
             /\ IsSubHalIndexValid(g) /\ ClearSubHalIndex(g) \in DOMAIN StaticSensors[i]
             /\ mSensors[g].sensorHandle = g
             /\ mSensors[g].flags \cup {"DIRECT"} = StaticSensors[i][ClearSubHalIndex(g)] \cup {"DIRECT"}
  <2>1. PICK i \in SubHals : \E h \in DOMAIN StaticSensors[i] : IsSensorOf(g, i, h)
    BY <1>1 DEF IInv, EntriesExplained, IsEmptyEntry
  <2>2. PICK h \in DOMAIN StaticSensors[i] : IsSensorOf(g, i, h)
    BY <2>1
  <2>3. ExtractSubHalIndex(g) = i /\ ClearSubHalIndex(g) = h
    BY <2>2, HandleLaws, SensorTypes DEF IsSensorOf
  <2>4. i < NumSubHals
    BY RegistryAssumption DEF SubHals
  <2>. QED BY <2>2, <2>3, <2>4 DEF IsSensorOf, IsSubHalIndexValid
<1>2. ASSUME NEW g \in mDynamicSensors \cup known
      PROVE  /\ IsSubHalIndexValid(g)
             /\ ClearSubHalIndex(g) \in DOMAIN DynamicSensors[ExtractSubHalIndex(g)]
  <2>1. PICK i \in SubHals : g \in DynamicHandles(i)
    BY <1>2 DEF IInv, OnlyDynamicTold
  <2>. QED BY <2>1, KeptLaws, SensorTypes DEF DynamicHandles
<1>. QED BY <1>1, <1>2 DEF HandlesRouted

LEMMA InvDirect == IInv => DirectReportsReachSensor
<1> SUFFICES ASSUME IInv PROVE DirectReportsReachSensor
  OBVIOUS
<1>1. ASSUME NEW g \in known, Serves(ExtractSubHalIndex(g))
      PROVE  mDirectChannelSubHal = ExtractSubHalIndex(g)
  <2>1. PICK i \in SubHals : g \in DynamicHandles(i)
    BY <1>1 DEF IInv, OnlyDynamicTold
  <2>2. ExtractSubHalIndex(g) = i
    BY <2>1, KeptLaws, SensorTypes DEF DynamicHandles
  <2>3. loaded = NumSubHals
    BY <1>1 DEF IInv, ConstructedFirst
  <2>. QED BY <1>1, <2>2, <2>3 DEF IInv, DirectFirst, SubHals
<1>. QED BY <1>1 DEF IInv, FlagsFollow, DirectReportsReachSensor, DirectReportTarget

LEMMA InvModes == IInv => ModesAgree
<1> SUFFICES ASSUME IInv, NEW g \in DOMAIN mSensors, Serving
             PROVE  LET i == ExtractSubHalIndex(g) IN
                    i \in unrestored \/ (InjectSensorData(g, FALSE) <=> mode[i] = "DATA_INJECTION")
  BY DEF ModesAgree
<1>1. ExtractSubHalIndex(g) \in SubHals
  <2>1. g \in Handles
    BY EntryTypes DEF IInv
  <2>2. /\ NumSubHals \in Nat \ {0} /\ HandleSpan \in Nat \ {0}
        /\ g \in Nat /\ g < NumSubHals * HandleSpan
    BY <2>1, RegistryAssumption DEF Handles
  <2>3. g \div HandleSpan \in Nat /\ g \div HandleSpan < NumSubHals
    BY <2>2
  <2>. QED BY <2>2, <2>3 DEF SubHals, ExtractSubHalIndex
<1>2. ExtractSubHalIndex(g) < NumSubHals
  BY <1>1, RegistryAssumption DEF SubHals
<1>. QED BY <1>1, <1>2 DEF IInv, Shapes, Modes, ModesInStep, InjectSensorData, IsSubHalIndexValid

LEMMA InvWakeups == IInv => WakeupsAgree
<1> SUFFICES ASSUME IInv, event # None PROVE WakeupsAgree
  BY DEF WakeupsAgree
<1> DEFINE i == event.from.subHal
           h == event.from.handle
           g == SetSubHalIndex(h, i)
           wakes == "WAKE_UP" \in FlagsOf(h, i)
<1>1. /\ i \in SubHals /\ h \in SensorsOfSubHal(i) /\ SubHalIndexIsClear(h) /\ h \in Nat
      /\ g \in DOMAIN mSensors /\ event.sensorHandle \in {0, g}
      /\ event.counted \in BOOLEAN /\ (event.counted <=> "WAKE_UP" \in mSensors[g].flags)
  BY SensorTypes DEF IInv, EventLookedUp, SensorsOfSubHal
<1>2. ExtractSubHalIndex(g) = i /\ ClearSubHalIndex(g) = h
  BY <1>1, HandleLaws
<1>3. ASSUME ~IsEmptyEntry(g)
      PROVE  mSensors[g].sensorHandle = g /\ event.counted = wakes
  <2>1. PICK j \in SubHals : \E k \in DOMAIN StaticSensors[j] : IsSensorOf(g, j, k)
    BY <1>1, <1>3 DEF IInv, EntriesExplained
  <2>2. PICK k \in DOMAIN StaticSensors[j] : IsSensorOf(g, j, k)
    BY <2>1
  <2>3. j = i /\ k = h
    BY <1>2, <2>2, HandleLaws, SensorTypes DEF IsSensorOf
  <2>4. mSensors[g].sensorHandle = g
        /\ ("WAKE_UP" \in mSensors[g].flags <=> "WAKE_UP" \in StaticSensors[i][h])
    BY <2>2, <2>3 DEF IsSensorOf
  <2>. QED BY <1>1, <2>2, <2>3, <2>4 DEF FlagsOf
<1>4. IsEmptyEntry(g) => ~event.counted /\ g \in Unlisted
  <2>1. IsEmptyEntry(g) => "WAKE_UP" \notin mSensors[g].flags /\ g \in Unlisted
    BY DEF IsEmptyEntry
  <2>. QED BY <1>1, <2>1
<1>5. ASSUME event.sensorHandle \notin Unlisted
      PROVE  FrameworkWakes(event.sensorHandle) = event.counted
  <2>1. event.sensorHandle = g /\ g \notin Unlisted /\ g # 0
    BY <1>1, <1>5 DEF Unlisted
  <2>2. g \notin known
    BY <2>1, SensorTypes DEF IInv, OnlyDynamicTold
  <2>3. ASSUME NEW e \in DOMAIN mSensors, mSensors[e].sensorHandle = g
        PROVE  e = g
    BY <2>1, <2>3 DEF IInv, EntriesExplained, IsEmptyEntry, IsSensorOf
  <2>4. mSensors[g].sensorHandle = g
    BY <1>3, <2>1 DEF IsEmptyEntry
  <2>5. FrameworkWakes(g) <=> "WAKE_UP" \in mSensors[g].flags
    BY <1>1, <2>2, <2>3, <2>4 DEF FrameworkWakes, Listed
  <2>6. FrameworkWakes(g) \in BOOLEAN
    BY DEF FrameworkWakes
  <2>7. FrameworkWakes(g) = event.counted
    BY <1>1, <2>5, <2>6
  <2>. QED BY <2>1, <2>7
<1>. QED BY <1>1, <1>3, <1>4, <1>5 DEF WakeupsAgree, IsEmptyEntry

LEMMA InvDisabled == IInv => DisabledBeforeClear
<1> SUFFICES ASSUME IInv, binder \in {"clearing", "replacing"}, NEW g \in Activated
             PROVE  g \in raced \cup ({0} \ DOMAIN StaticSensors[0])
  BY DEF DisabledBeforeClear
<1>1. PICK i \in SubHals : g \in KeptHandles(active[i], i)
  BY DEF Activated
<1>2. PICK h \in active[i] : g = SetSubHalIndex(h, i)
  BY <1>1 DEF KeptHandles
<1>. QED BY <1>2 DEF IInv, ActiveInStep, OfferedByEmptyEntries
-----------------------------------------------------------------------------
(***************************************************************************)
(* Theorems.                                                               *)
(***************************************************************************)

\* The inductive invariant holds in every reachable state.
THEOREM Inductive == Spec => []IInv
BY InvInit, InvNext, PTL DEF Spec

\* Every reachable state has the types of TypeOK: no handle is out of the range
\* of a sub-HAL's, and no sensor is active that its sub-HAL does not have.
THEOREM TypeCorrect == Spec => []TypeOK
BY Inductive, InvTypes, PTL

\* Every sensor told to the framework leads back to the sub-HAL that reported it,
\* for any number of sub-HALs and any handles, coinciding ones and ones whose
\* index bits are in use included.
THEOREM Routed == Spec => []HandlesRouted
BY Inductive, InvRouted, PTL

\* The direct reports of a listed sensor offered with direct channels reach it, and
\* those of a dynamic sensor if its sub-HAL is the one that has them.
THEOREM DirectReportsRouted == Spec => []DirectReportsReachSensor
BY Inductive, InvDirect, PTL

\* Data is injected exactly into the sub-HALs that expect it, through failed mode
\* switches and failed restarts.
THEOREM ModesInAgreement == Spec => []ModesAgree
BY Inductive, InvModes, PTL

\* The sub-HAL, the proxy and the framework agree on which events wake the device,
\* but for dynamic sensors and dropped events.
THEOREM WakeupsInAgreement == Spec => []WakeupsAgree
BY Inductive, InvWakeups, PTL

\* The framework knows the dynamic sensors of the map, but for notifications on
\* their way, raced by a restart or told in another order than the map was changed.
THEOREM DynamicSensorsInAgreement == Spec => []DynamicSensorsAgree
<1>1. IInv => DynamicSensorsAgree
  BY DEF IInv
<1>. QED BY Inductive, <1>1, PTL

\* The queues are cleared with every sensor disabled, but for the two exceptions
\* DisabledBeforeClear names.
THEOREM Disabling == Spec => []DisabledBeforeClear
BY Inductive, InvDisabled, PTL
=============================================================================
