------------------------- MODULE CameraMotor_proofs -------------------------
(* What holds of the pop-up camera for any delay and any number of events.  *)
EXTENDS CameraMotor, WellFoundedInduction, TLAPS

(***************************************************************************)
(* The inductive invariant.                                                *)
(***************************************************************************)

\* There are no more dialogs than there were events to show one.
DialogsCounted == \A kind \in DialogKinds : dialogs[kind] <= inputs

\* The last callback posted says how the camera is.
CallbacksCurrent == callbacks # <<>> => Last(callbacks) = frontCamera

\* A message is due at most the delay after the last event of its kind, by the
\* clock of the events but for what the device has slept since it was sent.
LastEvent(what) == IF what = "OPEN" THEN mOpenEvent ELSE mClosedEvent

DelaysKept ==
  /\ mOpenEvent <= now + slept /\ mClosedEvent <= now + slept
  /\ \A i \in 1..Len(messages) :
       messages[i].due + messages[i].slept <= LastEvent(messages[i].what) + CAMERA_EVENT_DELAY_TIME

\* A direction the motor does not go in yet has somebody who will enable it, or
\* an event that makes up for a crash, or could not be enabled.
CommandsUnderWay ==
  target # direction =>
    \/ mainThread = "enabling" \/ keyThread = "enabling"
    \/ callbacks # <<>> \/ messages # <<>> \/ "enable" \in unwritten

\* After a fall that found the camera closed nothing raises it: no message is to,
\* and the direction is down unless it could not be written.
NothingRaises ==
  fell = "closed" =>
    /\ \A i \in 1..Len(messages) : messages[i].what # "OPEN"
    /\ direction = "DOWN" \/ "direction" \in unwritten
    /\ \/ mainThread = "enabling" \/ keyThread = "enabling"
       \/ target = "DOWN" \/ unwritten # {}

\* The last task is to do what the screen says; only that of a start in the dark
\* is not.
TasksFollowScreen ==
  IF tasks = <<>> THEN listening = screenOn \/ startedDark
                  ELSE Last(tasks) = screenOn \/ (startedDark /\ tasks = <<TRUE>>)

IInv ==
  /\ TypeOK /\ DialogsCounted /\ CallbacksCurrent /\ LastEventWins /\ DelaysKept /\ Debounced
  /\ CommandsUnderWay /\ NothingRaises /\ TasksFollowScreen
-----------------------------------------------------------------------------
(***************************************************************************)
(* Sequences.                                                              *)
(***************************************************************************)

\* Induction, over a set: its smallest exception would be one more than a member.
LEMMA Induction ==
  ASSUME NEW S \in SUBSET Nat, 0 \in S, \A n \in S : n + 1 \in S
  PROVE  S = Nat
<1> SUFFICES ASSUME Nat \ S # {} PROVE FALSE
  OBVIOUS
<1>1. \E n \in Nat \ S : \A k \in Nat \ S : ~(<<k, n>> \in OpToRel(<, Nat))
  BY NatLessThanWellFounded, WFMin
<1>2. PICK n \in Nat \ S : \A k \in Nat \ S : ~(<<k, n>> \in OpToRel(<, Nat))
  BY <1>1
<1>3. n # 0 /\ n - 1 \in Nat /\ n - 1 \notin S
  OBVIOUS
<1>4. <<n - 1, n>> \in OpToRel(<, Nat)
  BY <1>3 DEF OpToRel
<1>. QED BY <1>2, <1>3, <1>4

\* removeMessages leaves messages of the queue, and none of that kind: by induction
\* over how much of the queue was gone through, first that the recursion defines
\* a function at all, then what it returns.
LEMMA WithoutLaws ==
  ASSUME messages \in Seq(Message), NEW what
  PROVE  Without(what) \in Seq({m \in Message :
                                 m.what # what /\ \E i \in 1..Len(messages) : messages[i] = m})
<1> DEFINE N == Len(messages)
           Step(f, n) == IF n = 0 THEN <<>>
                         ELSE IF messages[n].what = what THEN f[n - 1] ELSE Append(f[n - 1], messages[n])
           kept == CHOOSE f : f = [n \in 0..N |-> Step(f, n)]
           T == {m \in Message : m.what # what /\ \E i \in 1..N : messages[i] = m}
<1>0. N \in Nat
  OBVIOUS
<1>1. Without(what) = kept[N]
  BY DEF Without
<1>2. \E f : f = [n \in 0..N |-> Step(f, n)]
  <2> DEFINE S == {k \in Nat : \E f : f = [n \in 0..k |-> Step(f, n)]}
  <2>1. 0 \in S
    <3>1. [n \in 0..0 |-> <<>>] = [n \in 0..0 |-> Step([i \in 0..0 |-> <<>>], n)]
      OBVIOUS
    <3>. QED BY <3>1
  <2>2. ASSUME NEW k \in S PROVE k + 1 \in S
    <3>0. k \in Nat
      OBVIOUS
    <3>1. PICK f : f = [n \in 0..k |-> Step(f, n)]
      OBVIOUS
    <3> DEFINE g == [n \in 0..k + 1 |-> IF n = k + 1 THEN Step(f, k + 1) ELSE f[n]]
    <3>2. \A n \in 0..k : g[n] = f[n]
      BY <3>0
    <3>3. ASSUME NEW n \in 0..k PROVE g[n] = Step(g, n)
      <4>1. f[n] = Step(f, n)
        BY <3>1
      <4>2. n # 0 => n - 1 \in 0..k
        BY <3>0
      <4>3. Step(f, n) = Step(g, n)
        BY <3>2, <4>2
      <4>. QED BY <3>2, <4>1, <4>3
    <3>4. g[k + 1] = Step(g, k + 1)
      <4>1. g[k + 1] = Step(f, k + 1) /\ k + 1 - 1 = k /\ k \in 0..k
        BY <3>0
      <4>2. Step(f, k + 1) = Step(g, k + 1)
        BY <4>1, <3>2
      <4>. QED BY <4>1, <4>2
    <3>5. \A n \in 0..k + 1 : n = k + 1 \/ n \in 0..k
      BY <3>0
    <3>6. \A n \in 0..k + 1 : g[n] = Step(g, n)
      BY <3>3, <3>4, <3>5
    <3>7. g = [n \in 0..k + 1 |-> Step(g, n)]
      <4>1. g = [n \in 0..k + 1 |-> g[n]]
        OBVIOUS
      <4>. HIDE DEF g
      <4>. QED BY <4>1, <3>6
    <3>8. \E h : h = [n \in 0..k + 1 |-> Step(h, n)]
      <4>. HIDE DEF g
      <4>. QED BY <3>7
    <3>. HIDE DEF Step
    <3>. QED BY <3>0, <3>8
  <2>. HIDE DEF S
  <2>3. S = Nat
    <3>1. S \subseteq Nat
      BY DEF S
    <3>. QED BY <2>1, <2>2, <3>1, Induction
  <2>. QED BY <1>0, <2>3 DEF S
<1>3. kept = [n \in 0..N |-> Step(kept, n)]
  BY <1>2
<1>4. \A n \in 0..N : kept[n] \in Seq(T)
  <2> DEFINE S == {k \in Nat : k <= N => kept[k] \in Seq(T)}
  <2>. HIDE DEF kept
  <2>1. 0 \in S
    BY <1>0, <1>3
  <2>2. ASSUME NEW k \in S PROVE k + 1 \in S
    <3>1. k \in Nat /\ (k + 1 <= N => kept[k] \in Seq(T))
      BY <1>0
    <3>2. k + 1 <= N => kept[k + 1] = IF messages[k + 1].what = what
                                          THEN kept[k] ELSE Append(kept[k], messages[k + 1])
      <4>1. k + 1 <= N => kept[k + 1] = Step(kept, k + 1)
        <5>1. k + 1 <= N => k + 1 \in 0..N
          BY <1>0, <3>1
        <5>. HIDE DEF Step
        <5>. QED BY <5>1, <1>3
      <4>2. k + 1 # 0 /\ k + 1 - 1 = k
        BY <3>1
      <4>. QED BY <4>1, <4>2
    <3>3. k + 1 <= N /\ messages[k + 1].what # what => messages[k + 1] \in T
      BY <1>0, <3>1
    <3>. HIDE DEF T
    <3>4. ASSUME k + 1 <= N PROVE kept[k + 1] \in Seq(T)
      <4>1. kept[k] \in Seq(T)
        BY <3>1, <3>4
      <4>2. CASE messages[k + 1].what = what
        BY <3>2, <3>4, <4>1, <4>2
      <4>3. CASE messages[k + 1].what # what
        <5>1. messages[k + 1] \in T
          BY <3>3, <3>4, <4>3
        <5>2. Append(kept[k], messages[k + 1]) \in Seq(T)
          BY <4>1, <5>1
        <5>. QED BY <3>2, <3>4, <4>3, <5>2
      <4>. QED BY <4>2, <4>3
    <3>. QED BY <3>1, <3>4
  <2>3. S = Nat
    <3>1. S \subseteq Nat
      OBVIOUS
    <3>. HIDE DEF S
    <3>. QED BY <2>1, <2>2, <3>1, Induction, SMTT(30)
  <2>. QED BY <1>0, <2>3
<1>5. kept[N] \in Seq(T)
  <2>. HIDE DEF T, kept
  <2>. QED BY <1>0, <1>4
<1>. QED BY <1>1, <1>5

\* A sequence that gains its last element or loses its first.
LEMMA SequenceLaws ==
  ASSUME NEW S, NEW s \in Seq(S)
  PROVE  /\ \A x \in S : /\ Append(s, x) \in Seq(S) /\ Append(s, x) # <<>>
                         /\ Last(Append(s, x)) = x
                         /\ Len(Append(s, x)) = Len(s) + 1 /\ Append(s, x)[Len(s) + 1] = x
                         /\ \A i \in 1..Len(s) : Append(s, x)[i] = s[i]
         /\ s # <<>> => /\ Head(s) \in S /\ Head(s) = s[1] /\ Tail(s) \in Seq(S)
                        /\ Len(Tail(s)) = Len(s) - 1
                        /\ \A i \in 1..Len(Tail(s)) : Tail(s)[i] = s[i + 1]
                        /\ IF Tail(s) = <<>> THEN Head(s) = Last(s) /\ s = <<Head(s)>>
                                             ELSE Last(Tail(s)) = Last(s)
<1>1. ASSUME NEW x \in S
      PROVE  /\ Append(s, x) \in Seq(S) /\ Append(s, x) # <<>> /\ Last(Append(s, x)) = x
             /\ Len(Append(s, x)) = Len(s) + 1 /\ Append(s, x)[Len(s) + 1] = x
             /\ \A i \in 1..Len(s) : Append(s, x)[i] = s[i]
  BY DEF Last
<1>2. ASSUME s # <<>>
      PROVE  /\ Head(s) \in S /\ Head(s) = s[1] /\ Tail(s) \in Seq(S) /\ Len(Tail(s)) = Len(s) - 1
             /\ \A i \in 1..Len(Tail(s)) : Tail(s)[i] = s[i + 1]
  BY <1>2
<1>3. ASSUME s # <<>>, Tail(s) = <<>>
      PROVE  Head(s) = Last(s) /\ s = <<Head(s)>>
  <2>1. Len(s) = 1
    <3>1. Len(Tail(s)) = 0
      <4>1. Len(<<>>) = 0
        OBVIOUS
      <4>. QED BY <1>3, <4>1, Zenon
    <3>. QED BY <1>2, <1>3, <3>1
  <2>. QED BY <1>3, <2>1 DEF Last
<1>4. ASSUME s # <<>>, Tail(s) # <<>>
      PROVE  Last(Tail(s)) = Last(s)
  <2>1. Len(Tail(s)) \in 1..Len(s)
    BY <1>2, <1>4
  <2>. QED BY <1>2, <1>4, <2>1 DEF Last
<1>. QED BY <1>1, <1>2, <1>3, <1>4
-----------------------------------------------------------------------------
(***************************************************************************)
(* Types.                                                                  *)
(***************************************************************************)
Types == TypeOK /\ DialogsCounted

\* What an event or a write does to the counter.
LEMMA InputLaws ==
  ASSUME Types
  PROVE  /\ Input => inputs' = inputs + 1 /\ inputs' \in 0..MaxInputs
         /\ \A ok \in BOOLEAN : Write(ok) => inputs' \in 0..MaxInputs /\ inputs <= inputs'
BY MotorAssumption DEF Types, TypeOK, Input, Write

\* What a write of a node leaves of the types.
LEMMA WriteLaws ==
  ASSUME TypeOK, NEW ok \in BOOLEAN
  PROVE  /\ \A to \in {"UP", "DOWN"} : SetMotorDirection(to, ok) =>
              /\ direction' \in {"UP", "DOWN"} /\ unwritten' \subseteq {"direction", "enable"}
              /\ direction' = to \/ "direction" \in unwritten'
              /\ direction' = direction \/ ok
              /\ "enable" \in unwritten => "enable" \in unwritten'
         /\ SetMotorEnabled(ok) =>
              /\ direction' = direction /\ position' = position /\ target' \in {"UP", "DOWN"}
              /\ unwritten' \subseteq {"direction", "enable"}
              /\ target' = direction \/ "enable" \in unwritten'
              /\ "direction" \in unwritten => "direction" \in unwritten'
<1>1. {direction, target} \subseteq {"UP", "DOWN"} /\ unwritten \subseteq {"direction", "enable"}
  BY DEF TypeOK
<1>. QED BY <1>1 DEF SetMotorDirection, SetMotorEnabled, Written

LEMMA EnabledMoving ==
  ASSUME TypeOK, NEW ok \in BOOLEAN, SetMotorEnabled(ok) PROVE moving' \in BOOLEAN
<1>1. moving \in BOOLEAN
  BY DEF TypeOK
<1>2. moving' = IF ok THEN position # direction ELSE moving
  BY DEF SetMotorEnabled
<1>3. (position # direction) \in BOOLEAN
  OBVIOUS
<1>. QED BY <1>1, <1>2, <1>3, Zenon

\* What an event does to the dialogs.
LEMMA DialogLaws ==
  ASSUME Types, inputs' = inputs + 1, inputs' \in 0..MaxInputs, NEW kind \in DialogKinds,
         \/ dialogs' = dialogs \/ dialogs' = [dialogs EXCEPT ![kind] = 0]
         \/ dialogs' = Shown(kind)
         \/ dialogs' = Clicked(kind) /\ Shows(kind)
  PROVE  dialogs' \in [DialogKinds -> 0..MaxInputs] /\ DialogsCounted'
<1>1. /\ dialogs \in [DialogKinds -> Nat] /\ inputs \in Nat /\ MaxInputs \in Nat
      /\ \A k \in DialogKinds : dialogs[k] <= inputs
  BY MotorAssumption DEF Types, TypeOK, DialogsCounted
<1>2. dialogs' \in [DialogKinds -> Int]
  BY <1>1 DEF Shown, Clicked
<1>3. \A k \in DialogKinds : dialogs'[k] \in 0..inputs'
  BY <1>1, <1>2 DEF Shown, Clicked, Shows
<1>. QED BY <1>1, <1>2, <1>3 DEF DialogsCounted

\* The queue after a message of that kind.
LEMMA QueueLaws ==
  ASSUME TypeOK, NEW what \in {"OPEN", "CLOSED"}, NEW opposite \in {"OPEN", "CLOSED"}, NEW last \in Nat,
         QueueMessage(what, opposite, last)
  PROVE  \E kept \in Seq(Message) :
           /\ messages' = Append(kept, [what |-> what, due |-> now + CAMERA_EVENT_DELAY_TIME, slept |-> slept])
           /\ [what |-> what, due |-> now + CAMERA_EVENT_DELAY_TIME, slept |-> slept] \in Message
           /\ \/ kept = messages /\ (Recent(last) => ~HasMessages(opposite))
              \/ \A i \in 1..Len(kept) :
                   kept[i].what # opposite /\ \E j \in 1..Len(messages) : kept[i] = messages[j]
<1> DEFINE kept == IF Recent(last) /\ HasMessages(opposite) THEN Without(opposite) ELSE messages
<1>1. /\ messages' = Append(kept, [what |-> what, due |-> now + CAMERA_EVENT_DELAY_TIME, slept |-> slept])
      /\ [what |-> what, due |-> now + CAMERA_EVENT_DELAY_TIME, slept |-> slept] \in Message
  BY MotorAssumption DEF QueueMessage, Sent, TypeOK, Message
<1>2. CASE Recent(last) /\ HasMessages(opposite)
  <2> DEFINE T == {m \in Message : m.what # opposite /\ \E j \in 1..Len(messages) : messages[j] = m}
  <2>1. Without(opposite) \in Seq(T)
    BY WithoutLaws DEF TypeOK
  <2>2. Without(opposite) \in Seq(Message) /\ \A i \in 1..Len(Without(opposite)) : Without(opposite)[i] \in T
    BY <2>1
  <2>. QED BY <1>1, <1>2, <2>2
<1>3. CASE ~(Recent(last) /\ HasMessages(opposite))
  BY <1>1, <1>3 DEF TypeOK
<1>. QED BY <1>2, <1>3

LEMMA TypesNext == Types /\ [Next]_vars => Types'
<1> SUFFICES ASSUME Types, [Next]_vars PROVE Types'
  OBVIOUS
<1> USE MotorAssumption DEF Types, DialogsCounted
<1>1. CASE CameraChanges
  <2>1. callbacks' \in Seq({"OPEN", "CLOSED"})
    BY <1>1 DEF CameraChanges, TypeOK
  <2>. QED BY <1>1, <2>1, InputLaws DEF CameraChanges, TypeOK, timeVars, writeVars, motorVars, screenVars
<1>2. CASE OnCameraAvailable
  <2>0. elapsedRealtime \in Nat
    BY DEF TypeOK, elapsedRealtime
  <2>1. callbacks' \in Seq({"OPEN", "CLOSED"})
    BY <1>2 DEF OnCameraAvailable, TypeOK
  <2>2. messages' \in Seq(Message)
    <3>1. PICK last \in Nat : QueueMessage("CLOSED", "OPEN", last)
      BY <1>2 DEF OnCameraAvailable, TypeOK
    <3>2. \E kept \in Seq(Message) : \E m \in Message : messages' = Append(kept, m)
      BY <3>1, QueueLaws
    <3>. QED BY <3>2
  <2>. QED BY <1>2, <2>0, <2>1, <2>2 DEF OnCameraAvailable, TypeOK, callbackFrame, writeVars, motorVars, screenVars
<1>3. CASE OnCameraUnavailable
  <2>0. elapsedRealtime \in Nat
    BY DEF TypeOK, elapsedRealtime
  <2>1. callbacks' \in Seq({"OPEN", "CLOSED"})
    BY <1>3 DEF OnCameraUnavailable, TypeOK
  <2>2. messages' \in Seq(Message)
    <3>1. PICK last \in Nat : QueueMessage("OPEN", "CLOSED", last)
      BY <1>3 DEF OnCameraUnavailable, TypeOK
    <3>2. \E kept \in Seq(Message) : \E m \in Message : messages' = Append(kept, m)
      BY <3>1, QueueLaws, SMTT(30)
    <3>. QED BY <3>2
  <2>. QED BY <1>3, <2>0, <2>1, <2>2 DEF OnCameraUnavailable, TypeOK, callbackFrame, writeVars, motorVars, screenVars
<1>4. ASSUME NEW ok \in BOOLEAN, HandleMessage(ok) PROVE Types'
  <2>1. messages' \in Seq(Message)
    BY <1>4 DEF HandleMessage, TypeOK
  <2>. QED BY <1>4, <2>1, InputLaws, WriteLaws
       DEF HandleMessage, DirectionOf, TypeOK, cameraVars, motorVars, screenVars
<1>5. ASSUME NEW ok \in BOOLEAN, MainEnable(ok) \/ KeyEnable(ok) PROVE Types'
  <2>1. SetMotorEnabled(ok) /\ Write(ok)
    BY <1>5 DEF MainEnable, KeyEnable
  <2>2. moving' \in BOOLEAN
    BY <2>1, EnabledMoving
  <2>3. inputs' \in 0..MaxInputs /\ DialogsCounted'
    BY <1>5, <2>1, InputLaws DEF MainEnable, KeyEnable, TypeOK
  <2>. QED BY <1>5, <2>1, <2>2, <2>3, WriteLaws DEF MainEnable, KeyEnable, TypeOK, cameraVars, timeVars, screenVars
<1>6. CASE Tick
  BY <1>6 DEF Tick, TypeOK, cameraVars, writeVars, motorVars, screenVars
<1>16. ASSUME NEW time \in 1..CAMERA_EVENT_DELAY_TIME, Suspend(time) PROVE Types'
  <2>1. slept' \in Nat
    BY <1>16 DEF Suspend, TypeOK
  <2>. QED BY <1>16, <2>1, InputLaws DEF Suspend, TypeOK, cameraVars, writeVars, motorVars, screenVars
<1>7. CASE MotorMoves
  BY <1>7 DEF MotorMoves, TypeOK, cameraVars, timeVars, writeVars, screenVars
<1>8. ASSUME NEW ok \in BOOLEAN, OnSensorChanged(ok) PROVE Types'
  <2>1. dialogs' \in [DialogKinds -> 0..MaxInputs] /\ DialogsCounted' /\ inputs' \in 0..MaxInputs
    <3>1. inputs' = inputs + 1 /\ inputs' \in 0..MaxInputs
      BY <1>8, InputLaws DEF OnSensorChanged
    <3>2. \E kind \in DialogKinds : dialogs' = dialogs \/ dialogs' = Shown(kind)
      BY <1>8 DEF OnSensorChanged, DialogKinds
    <3>. QED BY <3>1, <3>2, DialogLaws
  <2>. QED BY <1>8, <2>1, WriteLaws
       DEF OnSensorChanged, FallFinds, TypeOK, cameraVars, timeVars, writeVars, motorVars, screenVars
<1>9. CASE Restart
  <2>1. dialogs' \in [DialogKinds -> 0..MaxInputs] /\ DialogsCounted' /\ inputs' \in 0..MaxInputs
    BY <1>9, InputLaws, DialogLaws DEF Restart, DialogKinds
  <2>2. callbacks' \in Seq({"OPEN", "CLOSED"}) /\ messages' \in Seq(Message) /\ tasks' \in Seq(BOOLEAN)
    BY <1>9 DEF Restart, ReportedAtStart, TypeOK
  <2>3. startedDark' \in BOOLEAN
    BY <1>9, Zenon DEF Restart, TypeOK
  <2>4. {now', slept', mOpenEvent', mClosedEvent'} \subseteq Nat
    BY <1>9 DEF Restart, TypeOK
  <2>5. /\ frontCamera' \in {"OPEN", "CLOSED"} /\ screenOn' \in BOOLEAN /\ listening' \in BOOLEAN
        /\ moving' \in BOOLEAN /\ position' \in {"UP", "DOWN", "BETWEEN"}
        /\ cause' \in {"camera", "fall", "user"} /\ fell' \in {"no", "opening", "closed"}
        /\ mainThread' \in {"idle", "enabling"} /\ keyThread' \in {"idle", "enabling"}
        /\ {direction', target'} \subseteq {"UP", "DOWN"} /\ unwritten' \subseteq {"direction", "enable"}
    BY <1>9 DEF Restart, TypeOK, writeVars, motorVars
  <2>. QED BY <2>1, <2>2, <2>3, <2>4, <2>5 DEF TypeOK
<1>10. ASSUME NEW ok \in BOOLEAN, NEW raise \in BOOLEAN, ClickFallDialog(raise, ok) PROVE Types'
  <2>1. dialogs' \in [DialogKinds -> 0..MaxInputs] /\ DialogsCounted' /\ inputs' \in 0..MaxInputs
    BY <1>10, InputLaws, DialogLaws DEF ClickFallDialog, DialogKinds
  <2>. QED BY <1>10, <2>1, WriteLaws, ZenonT(30)
       DEF ClickFallDialog, TypeOK, cameraVars, timeVars, writeVars, motorVars, screenVars
<1>11. ASSUME NEW ok \in BOOLEAN, NEW stuck \in {"UP", "DOWN"}, NEW command \in {"UP", "DOWN"},
              ClickStuckDialog(stuck, command, ok)
       PROVE  Types'
  <2>1. dialogs' \in [DialogKinds -> 0..MaxInputs] /\ DialogsCounted' /\ inputs' \in 0..MaxInputs
    BY <1>11, InputLaws, DialogLaws DEF ClickStuckDialog, DialogKinds
  <2>. QED BY <1>11, <2>1, WriteLaws
       DEF ClickStuckDialog, TypeOK, cameraVars, timeVars, motorVars, screenVars
<1>12. CASE ScreenChanges
  <2>1. tasks' \in Seq(BOOLEAN)
    BY <1>12 DEF ScreenChanges, Submitted, TypeOK
  <2>. QED BY <1>12, <2>1, InputLaws DEF ScreenChanges, TypeOK, cameraVars, timeVars, writeVars, motorVars
<1>13. CASE RunTask
  <2>1. tasks' \in Seq(BOOLEAN) /\ listening' \in BOOLEAN
    BY <1>13 DEF RunTask, TypeOK
  <2>. QED BY <1>13, <2>1 DEF RunTask, TypeOK, cameraVars, timeVars, writeVars, motorVars
<1>14. CASE HandleKeyEvent
  <2>1. dialogs' \in [DialogKinds -> 0..MaxInputs] /\ DialogsCounted' /\ inputs' \in 0..MaxInputs
    <3>1. inputs' = inputs + 1 /\ inputs' \in 0..MaxInputs
      BY <1>14, InputLaws DEF HandleKeyEvent
    <3>2. \E kind \in DialogKinds : dialogs' = Shown(kind)
      BY <1>14 DEF HandleKeyEvent, DialogKinds, TypeOK
    <3>. QED BY <3>1, <3>2, DialogLaws
  <2>. QED BY <1>14, <2>1
       DEF HandleKeyEvent, TypeOK, cameraVars, timeVars, writeVars, screenVars
<1>15. CASE UNCHANGED vars
  BY <1>15 DEF vars, TypeOK, cameraVars, timeVars, writeVars, motorVars, screenVars
<1>. QED BY <1>1, <1>2, <1>3, <1>4, <1>5, <1>6, <1>7, <1>8, <1>9, <1>10, <1>11, <1>12, <1>13, <1>14, <1>15, <1>16
     DEF Next, MainLooper, SystemServer, Dialogs, FallPositionUnreadable
-----------------------------------------------------------------------------
(***************************************************************************)
(* The last event.                                                         *)
(***************************************************************************)
EventsInv == CallbacksCurrent /\ LastEventWins

\* The steps that leave the events and the messages and do not write a direction
\* for the camera.
LEMMA EventsFrame ==
  ASSUME EventsInv, UNCHANGED <<frontCamera, callbacks, messages>>,
         \/ cause' # "camera"
         \/ cause' = cause /\ (direction' = direction)
            /\ ("direction" \in unwritten => "direction" \in unwritten')
  PROVE  EventsInv'
BY DEF EventsInv, CallbacksCurrent, LastEventWins

LEMMA EventsNext == TypeOK /\ EventsInv /\ [Next]_vars => EventsInv'
<1> SUFFICES ASSUME TypeOK, EventsInv, [Next]_vars PROVE EventsInv'
  OBVIOUS
<1>0. /\ callbacks \in Seq({"OPEN", "CLOSED"}) /\ messages \in Seq(Message)
      /\ frontCamera \in {"OPEN", "CLOSED"}
  BY DEF TypeOK
<1>1. CASE CameraChanges
  <2>1. callbacks' = Append(callbacks, frontCamera') /\ frontCamera' \in {"OPEN", "CLOSED"}
    BY <1>1, <1>0 DEF CameraChanges
  <2>2. callbacks' # <<>> /\ Last(callbacks') = frontCamera'
    BY <1>0, <2>1, SequenceLaws
  <2>. QED BY <2>2 DEF EventsInv, CallbacksCurrent, LastEventWins
<1>2. ASSUME NEW what \in {"OPEN", "CLOSED"}, NEW opposite \in {"OPEN", "CLOSED"}, NEW last \in Nat,
             callbacks # <<>>, Head(callbacks) = what, callbacks' = Tail(callbacks),
             QueueMessage(what, opposite, last), frontCamera' = frontCamera
      PROVE  EventsInv'
  <2>1. \E kept \in Seq(Message) : \E m \in Message : m.what = what /\ messages' = Append(kept, m)
    BY <1>2, QueueLaws, ZenonT(30)
  <2>2. messages' # <<>> /\ Last(messages').what = what
    BY <2>1, SequenceLaws
  <2>3. IF callbacks' = <<>> THEN what = frontCamera ELSE Last(callbacks') = frontCamera
    BY <1>0, <1>2, SequenceLaws DEF EventsInv, CallbacksCurrent
  <2>. QED BY <1>2, <2>2, <2>3 DEF EventsInv, CallbacksCurrent, LastEventWins
<1>3. CASE OnCameraAvailable
  <2>1. mOpenEvent \in Nat
    BY DEF TypeOK
  <2>. QED BY <1>2, <1>3, <2>1 DEF OnCameraAvailable, callbackFrame
<1>4. CASE OnCameraUnavailable
  <2>1. mClosedEvent \in Nat
    BY DEF TypeOK
  <2>. QED BY <1>2, <1>4, <2>1 DEF OnCameraUnavailable, callbackFrame
<1>5. ASSUME NEW ok \in BOOLEAN, HandleMessage(ok) PROVE EventsInv'
  <2>1. /\ messages # <<>> /\ messages' = Tail(messages)
        /\ SetMotorDirection(DirectionOf(Head(messages).what), ok)
        /\ UNCHANGED <<frontCamera, callbacks>>
    BY <1>5 DEF HandleMessage, cameraVars
  <2>2. IF messages' = <<>> THEN Head(messages) = Last(messages) ELSE Last(messages') = Last(messages)
    BY <1>0, <2>1, SequenceLaws
  <2>3. direction' = DirectionOf(Head(messages).what) \/ "direction" \in unwritten'
    BY <2>1 DEF SetMotorDirection, Written
  <2>. QED BY <2>1, <2>2, <2>3 DEF EventsInv, CallbacksCurrent, LastEventWins
<1>6. ASSUME NEW ok \in BOOLEAN, MainEnable(ok) \/ KeyEnable(ok) PROVE EventsInv'
  BY <1>6, EventsFrame, WriteLaws DEF MainEnable, KeyEnable, cameraVars, timeVars
<1>13. ASSUME NEW time, Suspend(time) PROVE EventsInv'
  BY <1>13, EventsFrame DEF Suspend, cameraVars, writeVars
<1>7. CASE Tick \/ MotorMoves \/ ScreenChanges \/ RunTask \/ HandleKeyEvent
  BY <1>7, EventsFrame
  DEF Tick, MotorMoves, ScreenChanges, RunTask, HandleKeyEvent, cameraVars, timeVars, writeVars
<1>8. ASSUME NEW ok \in BOOLEAN, OnSensorChanged(ok) PROVE EventsInv'
  BY <1>8, EventsFrame DEF OnSensorChanged, cameraVars, timeVars, writeVars
<1>9. CASE Restart
  <2>1. callbacks' = <<frontCamera>> /\ frontCamera' = frontCamera
    BY <1>9 DEF Restart, ReportedAtStart
  <2>2. callbacks' # <<>> /\ Last(callbacks') = frontCamera'
    BY <1>0, <2>1 DEF Last
  <2>. QED BY <2>2 DEF EventsInv, CallbacksCurrent, LastEventWins
<1>10. ASSUME NEW ok \in BOOLEAN, NEW raise \in BOOLEAN, ClickFallDialog(raise, ok) PROVE EventsInv'
  BY <1>10, EventsFrame DEF ClickFallDialog, cameraVars, timeVars, writeVars
<1>11. ASSUME NEW ok \in BOOLEAN, NEW stuck, NEW command, ClickStuckDialog(stuck, command, ok)
       PROVE  EventsInv'
  BY <1>11, EventsFrame DEF ClickStuckDialog, cameraVars, timeVars
<1>12. CASE UNCHANGED vars
  BY <1>12, EventsFrame DEF vars, cameraVars, timeVars, writeVars
<1>. QED BY <1>1, <1>3, <1>4, <1>5, <1>6, <1>7, <1>8, <1>9, <1>10, <1>11, <1>12, <1>13
     DEF Next, MainLooper, SystemServer, Dialogs, FallPositionUnreadable
-----------------------------------------------------------------------------
(***************************************************************************)
(* The delays.                                                             *)
(***************************************************************************)
DelaysInv == DelaysKept /\ Debounced

\* A message of the kind of the last event keeps them, whether the messages of
\* the opposite kind were removed or are old.
LEMMA QueueKeepsDelays ==
  ASSUME TypeOK, DelaysInv, UNCHANGED <<now, slept>>,
         \/ /\ QueueMessage("CLOSED", "OPEN", mOpenEvent)
            /\ mClosedEvent' = elapsedRealtime /\ mOpenEvent' = mOpenEvent
         \/ /\ QueueMessage("OPEN", "CLOSED", mClosedEvent)
            /\ mOpenEvent' = elapsedRealtime /\ mClosedEvent' = mClosedEvent
  PROVE  DelaysInv'
<1> DEFINE D == CAMERA_EVENT_DELAY_TIME
           E == now + slept
           newLast(w) == IF w = "OPEN" THEN mOpenEvent' ELSE mClosedEvent'
<1>0. /\ messages \in Seq(Message) /\ D \in Nat
      /\ now \in Nat /\ slept \in Nat /\ mOpenEvent \in Nat /\ mClosedEvent \in Nat
      /\ E \in Nat /\ mOpenEvent <= E /\ mClosedEvent <= E
  BY MotorAssumption DEF TypeOK, DelaysInv, DelaysKept
<1>1. PICK what \in {"OPEN", "CLOSED"}, opposite \in {"OPEN", "CLOSED"}, last \in Nat :
        /\ QueueMessage(what, opposite, last) /\ last = LastEvent(opposite) /\ what # opposite
        /\ newLast(what) = E /\ newLast(opposite) = LastEvent(opposite)
  BY <1>0 DEF LastEvent, elapsedRealtime
<1>2. PICK kept \in Seq(Message) :
        /\ messages' = Append(kept, [what |-> what, due |-> now + D, slept |-> slept])
        /\ \/ kept = messages /\ (Recent(last) => ~HasMessages(opposite))
           \/ \A i \in 1..Len(kept) :
                kept[i].what # opposite /\ \E j \in 1..Len(messages) : kept[i] = messages[j]
  <2>1. /\ QueueMessage(what, opposite, last) /\ TypeOK
        /\ what \in {"OPEN", "CLOSED"} /\ opposite \in {"OPEN", "CLOSED"} /\ last \in Nat
    BY <1>1
  <2>. QED BY ONLY <2>1, QueueLaws, ZenonT(60) DEF D
<1> DEFINE new == [what |-> what, due |-> now + D, slept |-> slept]
<1>3. new \in Message
  BY <1>0 DEF Message
<1>4. /\ Len(messages') = Len(kept) + 1 /\ messages'[Len(kept) + 1] = new /\ Len(kept) \in Nat
      /\ \A i \in 1..Len(kept) : messages'[i] = kept[i] /\ kept[i] \in Message
  BY <1>2, <1>3, SequenceLaws
<1>5. ASSUME NEW i \in 1..Len(kept)
      PROVE  \E j \in 1..Len(messages) : kept[i] = messages[j]
  BY <1>2
<1>6. ASSUME NEW i \in 1..Len(kept)
      PROVE  /\ kept[i].due \in Nat /\ kept[i].slept \in Nat /\ kept[i].what \in {what, opposite}
             /\ kept[i].due + kept[i].slept <= LastEvent(kept[i].what) + D
             /\ LastEvent(kept[i].what) <= newLast(kept[i].what)
             /\ LastEvent(kept[i].what) \in Nat /\ newLast(kept[i].what) \in Nat
  <2>1. kept[i].due \in Nat /\ kept[i].slept \in Nat /\ kept[i].what \in {"OPEN", "CLOSED"}
    BY <1>4 DEF Message
  <2>2. kept[i].due + kept[i].slept <= LastEvent(kept[i].what) + D
    BY <1>5 DEF DelaysInv, DelaysKept
  <2>3. LastEvent(what) <= E /\ LastEvent(what) \in Nat /\ LastEvent(opposite) \in Nat
    BY <1>0 DEF LastEvent
  <2>4. kept[i].what \in {what, opposite}
    BY <1>1, <2>1
  <2>. QED BY <1>0, <1>1, <2>1, <2>2, <2>3, <2>4
<1>7. DelaysKept'
  <2>1. mOpenEvent' <= now' + slept' /\ mClosedEvent' <= now' + slept'
    BY <1>0 DEF elapsedRealtime
  <2>2. ASSUME NEW i \in 1..Len(messages')
        PROVE  messages'[i].due + messages'[i].slept <= newLast(messages'[i].what) + D
    <3>1. CASE i = Len(kept) + 1
      BY <1>0, <1>1, <1>4, <3>1
    <3>2. CASE i \in 1..Len(kept)
      <4>1. PICK w, due, old : w = kept[i].what /\ due = kept[i].due + kept[i].slept /\ old = LastEvent(kept[i].what)
        OBVIOUS
      <4>2. due \in Nat /\ old \in Nat /\ newLast(w) \in Nat /\ due <= old + D /\ old <= newLast(w)
        <5>1. kept[i].due + kept[i].slept \in Nat
          BY <1>6, <3>2
        <5>. QED BY <1>6, <3>2, <4>1, <5>1, Zenon
      <4>3. due <= newLast(w) + D
        <5>1. D \in Nat
          BY <1>0
        <5> HIDE DEF newLast, D
        <5>. QED BY <4>2, <5>1
      <4>. QED BY <1>4, <3>2, <4>1, <4>3, Zenon
    <3>. QED BY <1>4, <3>1, <3>2
  <2>. QED BY <2>1, <2>2 DEF DelaysKept, LastEvent
<1>8. Debounced'
  <2> SUFFICES ASSUME NEW i \in 1..Len(messages') - 1, messages'[i].what # messages'[i + 1].what
               PROVE  messages'[i + 1].due - messages'[i].due >= D - (messages'[i + 1].slept - messages'[i].slept)
    BY DEF Debounced
  <2>1. i \in 1..Len(kept) /\ messages'[i] = kept[i]
    BY <1>4
  <2>2. CASE kept = messages /\ i = Len(kept)
    <3>1. kept[i].what = opposite /\ messages'[i + 1] = new
      BY <1>4, <1>6, <2>1, <2>2
    <3>2. HasMessages(opposite)
      BY <2>1, <2>2, <3>1 DEF HasMessages
    <3>3. E - LastEvent(opposite) >= D
      <4>1. ~(E - last < D)
        BY <1>2, <2>2, <3>2, <3>1, <2>1 DEF Recent, elapsedRealtime
      <4>. QED BY <1>0, <1>1, <4>1
    <3>4. /\ kept[i].due + kept[i].slept <= LastEvent(opposite) + D
          /\ kept[i].due \in Nat /\ kept[i].slept \in Nat /\ LastEvent(opposite) \in Nat
      BY <1>6, <2>1, <3>1
    <3>. QED BY <1>0, <2>1, <3>1, <3>3, <3>4, SMTT(30)
  <2>3. CASE kept = messages /\ i # Len(kept)
    <3>1. i \in 1..Len(messages) - 1 /\ messages'[i + 1] = messages[i + 1]
      BY <1>4, <2>1, <2>3
    <3>. QED BY <2>1, <2>3, <3>1 DEF DelaysInv, Debounced
  <2>4. CASE kept # messages
    <3>1. \A j \in 1..Len(kept) : kept[j].what = what
      BY <1>2, <1>6, <2>4
    <3>2. messages'[i + 1].what = what
      BY <1>4, <2>1, <3>1
    <3>. QED BY <2>1, <3>1, <3>2
  <2>. QED BY <2>2, <2>3, <2>4
<1>. QED BY <1>7, <1>8 DEF DelaysInv

LEMMA DelaysNext == TypeOK /\ DelaysInv /\ [Next]_vars => DelaysInv'
<1> SUFFICES ASSUME TypeOK, DelaysInv, [Next]_vars PROVE DelaysInv'
  OBVIOUS
<1>0. /\ messages \in Seq(Message) /\ CAMERA_EVENT_DELAY_TIME \in Nat
      /\ now \in Nat /\ slept \in Nat /\ mOpenEvent \in Nat /\ mClosedEvent \in Nat
  BY MotorAssumption DEF TypeOK
<1>1. CASE OnCameraAvailable \/ OnCameraUnavailable
  <2>1. UNCHANGED <<now, slept>>
    BY <1>1 DEF OnCameraAvailable, OnCameraUnavailable, callbackFrame
  <2>. QED BY <1>1, <2>1, QueueKeepsDelays DEF OnCameraAvailable, OnCameraUnavailable
<1>2. CASE \E ok \in BOOLEAN : HandleMessage(ok)
  <2>1. messages # <<>> /\ messages' = Tail(messages) /\ UNCHANGED <<now, slept, mOpenEvent, mClosedEvent>>
    BY <1>2 DEF HandleMessage
  <2>2. /\ Len(messages') = Len(messages) - 1 /\ Len(messages) \in Nat
        /\ \A i \in 1..Len(messages') : messages'[i] = messages[i + 1]
    BY <1>0, <2>1, SequenceLaws
  <2>3. DelaysKept'
    BY <2>1, <2>2 DEF DelaysInv, DelaysKept, LastEvent
  <2>4. Debounced'
    BY <2>2 DEF DelaysInv, Debounced
  <2>. QED BY <2>3, <2>4 DEF DelaysInv
<1>3. CASE Tick
  <2>1. now' = now + 1 /\ UNCHANGED <<messages, slept, mOpenEvent, mClosedEvent>>
    BY <1>3 DEF Tick
  <2>. QED BY <1>0, <2>1 DEF DelaysInv, DelaysKept, Debounced, LastEvent
<1>9. ASSUME NEW time \in 1..CAMERA_EVENT_DELAY_TIME, Suspend(time) PROVE DelaysInv'
  <2>1. slept' = slept + time /\ UNCHANGED <<messages, now, mOpenEvent, mClosedEvent>> /\ time \in Nat
    BY <1>9 DEF Suspend
  <2>. QED BY <1>0, <2>1 DEF DelaysInv, DelaysKept, Debounced, LastEvent
<1>4. CASE Restart
  <2>1. messages' = <<>> /\ now' = now /\ slept' = slept /\ mOpenEvent' = 0 /\ mClosedEvent' = 0
    BY <1>4 DEF Restart
  <2>2. Len(messages') = 0
    <3>1. Len(<<>>) = 0
      OBVIOUS
    <3>. QED BY <2>1, <3>1
  <2>. QED BY <1>0, <2>1, <2>2 DEF DelaysInv, DelaysKept, Debounced
<1>5. CASE UNCHANGED timeVars
  BY <1>5 DEF timeVars, DelaysInv, DelaysKept, Debounced, LastEvent
<1>6. CASE CameraChanges \/ MotorMoves \/ ScreenChanges \/ RunTask \/ HandleKeyEvent \/ UNCHANGED vars
  BY <1>5, <1>6 DEF CameraChanges, MotorMoves, ScreenChanges, RunTask, HandleKeyEvent, vars
<1>7. ASSUME NEW ok \in BOOLEAN, MainEnable(ok) \/ KeyEnable(ok) \/ OnSensorChanged(ok) PROVE DelaysInv'
  BY <1>5, <1>7 DEF MainEnable, KeyEnable, OnSensorChanged
<1>8. CASE Dialogs
  BY <1>5, <1>8 DEF Dialogs, ClickFallDialog, ClickStuckDialog
<1>. QED BY <1>1, <1>2, <1>3, <1>4, <1>6, <1>7, <1>8, <1>9 DEF Next, MainLooper, SystemServer, FallPositionUnreadable
-----------------------------------------------------------------------------
(***************************************************************************)
(* Commands of two processes, and falls.                                   *)
(***************************************************************************)
CommandsInv == CommandsUnderWay /\ NothingRaises

\* A message appended to the queue.
LEMMA QueueNotEmpty ==
  ASSUME TypeOK, OnCameraAvailable \/ OnCameraUnavailable
  PROVE  /\ messages' # <<>>
         /\ OnCameraAvailable /\ (\A i \in 1..Len(messages) : messages[i].what # "OPEN") =>
              \A i \in 1..Len(messages') : messages'[i].what # "OPEN"
<1>1. mOpenEvent \in Nat /\ mClosedEvent \in Nat /\ messages \in Seq(Message)
  BY DEF TypeOK
<1>2. CASE OnCameraUnavailable
  <2>1. QueueMessage("OPEN", "CLOSED", mClosedEvent)
    BY <1>2 DEF OnCameraUnavailable
  <2>2. \E kept \in Seq(Message) : \E m \in Message : messages' = Append(kept, m)
    BY <1>1, <2>1, QueueLaws
  <2>3. ~OnCameraAvailable
    BY <1>2 DEF OnCameraAvailable, OnCameraUnavailable
  <2>. QED BY <2>2, <2>3, SequenceLaws
<1>3. CASE OnCameraAvailable
  <2>1. QueueMessage("CLOSED", "OPEN", mOpenEvent)
    BY <1>3 DEF OnCameraAvailable
  <2>2. PICK kept \in Seq(Message) : \E m \in Message :
          /\ messages' = Append(kept, m) /\ m.what = "CLOSED"
          /\ \/ kept = messages
             \/ \A i \in 1..Len(kept) : kept[i].what # "OPEN"
    BY <1>1, <2>1, QueueLaws
  <2>3. PICK m \in Message : messages' = Append(kept, m) /\ m.what = "CLOSED"
    BY <2>2
  <2>4. /\ messages' # <<>> /\ Len(messages') = Len(kept) + 1 /\ messages'[Len(kept) + 1] = m
        /\ \A i \in 1..Len(kept) : messages'[i] = kept[i]
    BY <2>3, SequenceLaws
  <2>. QED BY <2>2, <2>3, <2>4
<1>. QED BY <1>2, <1>3

\* Writing a direction, which only a user's or the camera's command raises.
LEMMA DirectionKeeps ==
  ASSUME TypeOK, NEW ok \in BOOLEAN, NEW to \in {"UP", "DOWN"}, SetMotorDirection(to, ok),
         mainThread' = "enabling" \/ keyThread' = "enabling",
         fell' = "closed" => /\ to = "DOWN"
                             /\ \A i \in 1..Len(messages') : messages'[i].what # "OPEN"
  PROVE  CommandsInv'
BY WriteLaws DEF CommandsInv, CommandsUnderWay, NothingRaises

LEMMA CommandsNext == TypeOK /\ CommandsInv /\ [Next]_vars => CommandsInv'
<1> SUFFICES ASSUME TypeOK, CommandsInv, [Next]_vars PROVE CommandsInv'
  OBVIOUS
<1>0. messages \in Seq(Message) /\ callbacks \in Seq({"OPEN", "CLOSED"})
  BY DEF TypeOK
<1>1. CASE CameraChanges
  <2>1. callbacks' = Append(callbacks, frontCamera') /\ frontCamera' \in {"OPEN", "CLOSED"}
    BY <1>1 DEF CameraChanges
  <2>2. callbacks' # <<>>
    BY <1>0, <2>1
  <2>. QED BY <1>1, <2>2
       DEF CameraChanges, CommandsInv, CommandsUnderWay, NothingRaises, timeVars, writeVars, motorVars
<1>2. CASE OnCameraAvailable
  <2>1. /\ UNCHANGED <<mainThread, keyThread, direction, target, unwritten, fell>>
    BY <1>2 DEF OnCameraAvailable, callbackFrame, writeVars, motorVars
  <2>. QED BY <1>2, <2>1, QueueNotEmpty DEF CommandsInv, CommandsUnderWay, NothingRaises
<1>3. CASE OnCameraUnavailable
  <2>1. fell' = "no"
    BY <1>3 DEF OnCameraUnavailable
  <2>. QED BY <1>3, <2>1, QueueNotEmpty DEF CommandsInv, CommandsUnderWay, NothingRaises
<1>4. ASSUME NEW ok \in BOOLEAN, HandleMessage(ok) PROVE CommandsInv'
  <2>1. /\ messages # <<>> /\ messages' = Tail(messages) /\ mainThread' = "enabling" /\ fell' = fell
        /\ SetMotorDirection(DirectionOf(Head(messages).what), ok)
    BY <1>4 DEF HandleMessage
  <2>2. /\ Head(messages) = messages[1] /\ Len(messages') = Len(messages) - 1 /\ Len(messages) \in Nat
        /\ \A i \in 1..Len(messages') : messages'[i] = messages[i + 1]
    BY <1>0, <2>1, SequenceLaws
  <2>3. 1 \in 1..Len(messages)
    BY <1>0, <2>1
  <2>4. ASSUME fell' = "closed"
        PROVE  /\ DirectionOf(Head(messages).what) = "DOWN"
               /\ \A i \in 1..Len(messages') : messages'[i].what # "OPEN"
    BY <2>1, <2>2, <2>3, <2>4 DEF CommandsInv, NothingRaises, DirectionOf
  <2>5. DirectionOf(Head(messages).what) \in {"UP", "DOWN"}
    BY DEF DirectionOf
  <2>. QED BY <2>1, <2>4, <2>5, DirectionKeeps
<1>5. ASSUME NEW ok \in BOOLEAN, MainEnable(ok) \/ KeyEnable(ok) PROVE CommandsInv'
  <2>1. SetMotorEnabled(ok) /\ UNCHANGED <<messages, fell>>
    BY <1>5 DEF MainEnable, KeyEnable, timeVars
  <2>2. /\ direction' = direction /\ (target' = direction \/ "enable" \in unwritten')
        /\ "direction" \in unwritten => "direction" \in unwritten'
    BY <2>1, WriteLaws
  <2>. QED BY <2>1, <2>2 DEF CommandsInv, CommandsUnderWay, NothingRaises
<1>6. CASE Tick \/ MotorMoves \/ ScreenChanges \/ RunTask \/ HandleKeyEvent \/ UNCHANGED vars
  <2>1. UNCHANGED <<callbacks, messages, mainThread, keyThread, direction, target, unwritten, fell>>
    BY <1>6 DEF Tick, MotorMoves, ScreenChanges, RunTask, HandleKeyEvent, vars, cameraVars, timeVars,
                writeVars, motorVars
  <2>. QED BY <2>1 DEF CommandsInv, CommandsUnderWay, NothingRaises
<1>7. ASSUME NEW ok \in BOOLEAN, OnSensorChanged(ok) PROVE CommandsInv'
  <2>1. fell' = FallFinds /\ UNCHANGED <<callbacks, messages, keyThread, target>>
    BY <1>7 DEF OnSensorChanged, cameraVars, timeVars, motorVars
  <2>2. fell' = "closed" => /\ \A i \in 1..Len(messages) : messages[i].what # "OPEN"
                            /\ position = "DOWN" => direction = "DOWN" /\ target = "DOWN"
    BY <2>1 DEF FallFinds, HasMessages, TypeOK
  <2>3. CASE AlreadyClosed
    <3>1. UNCHANGED <<direction, unwritten, mainThread>>
      BY <1>7, <2>3 DEF OnSensorChanged, writeVars
    <3>. QED BY <2>1, <2>2, <2>3, <3>1 DEF CommandsInv, CommandsUnderWay, NothingRaises, AlreadyClosed
  <2>4. CASE ~AlreadyClosed
    <3>1. SetMotorDirection("DOWN", ok) /\ mainThread' = "enabling"
      BY <1>7, <2>4 DEF OnSensorChanged
    <3>. QED BY <2>1, <2>2, <3>1, DirectionKeeps
  <2>. QED BY <2>3, <2>4
<1>8. CASE Restart
  <2>1. callbacks' = <<frontCamera>> /\ fell' = "no"
    BY <1>8 DEF Restart, ReportedAtStart
  <2>2. callbacks' # <<>>
    BY <2>1
  <2>. QED BY <2>1, <2>2 DEF CommandsInv, CommandsUnderWay, NothingRaises
<1>9. ASSUME NEW ok \in BOOLEAN, NEW raise \in BOOLEAN, ClickFallDialog(raise, ok) PROVE CommandsInv'
  <2>1. CASE raise
    <3>1. SetMotorDirection("UP", ok) /\ mainThread' = "enabling" /\ fell' = "no"
      BY <1>9, <2>1 DEF ClickFallDialog
    <3>. QED BY <3>1, DirectionKeeps
  <2>2. CASE ~raise
    <3>1. UNCHANGED <<callbacks, messages, mainThread, keyThread, direction, target, unwritten, fell>>
      BY <1>9, <2>2 DEF ClickFallDialog, cameraVars, timeVars, writeVars, motorVars
    <3>. QED BY <3>1 DEF CommandsInv, CommandsUnderWay, NothingRaises
  <2>. QED BY <2>1, <2>2
<1>10. ASSUME NEW ok \in BOOLEAN, NEW stuck \in {"UP", "DOWN"}, NEW command \in {"UP", "DOWN"},
              ClickStuckDialog(stuck, command, ok)
       PROVE  CommandsInv'
  <2>1. /\ SetMotorDirection(command, ok) /\ keyThread' = "enabling" /\ messages' = messages
        /\ fell' = "closed" => fell = "closed" /\ command = "DOWN"
    BY <1>10 DEF ClickStuckDialog, timeVars
  <2>. QED BY <2>1, DirectionKeeps DEF CommandsInv, NothingRaises
<1>11. ASSUME NEW time \in 1..CAMERA_EVENT_DELAY_TIME, Suspend(time) PROVE CommandsInv'
  <2>1. UNCHANGED <<callbacks, messages, mainThread, keyThread, direction, target, unwritten, fell>>
    BY <1>11 DEF Suspend, cameraVars, writeVars, motorVars
  <2>. QED BY <2>1 DEF CommandsInv, CommandsUnderWay, NothingRaises
<1>. QED BY <1>1, <1>2, <1>3, <1>4, <1>5, <1>6, <1>7, <1>8, <1>9, <1>10, <1>11
     DEF Next, MainLooper, SystemServer, Dialogs, FallPositionUnreadable
-----------------------------------------------------------------------------
(***************************************************************************)
(* The fall sensor's registration.                                         *)
(***************************************************************************)
LEMMA TasksNext == TypeOK /\ TasksFollowScreen /\ [Next]_vars => TasksFollowScreen'
<1> SUFFICES ASSUME TypeOK, TasksFollowScreen, [Next]_vars PROVE TasksFollowScreen'
  OBVIOUS
<1>0. tasks \in Seq(BOOLEAN) /\ screenOn \in BOOLEAN
  BY DEF TypeOK
<1>1. CASE ScreenChanges
  <2>1. tasks' = Append(tasks, screenOn') /\ screenOn' \in BOOLEAN
    <3>1. screenOn' = ~screenOn /\ tasks' = Append(tasks, screenOn')
      BY <1>1 DEF ScreenChanges, Submitted
    <3>2. (~screenOn) \in BOOLEAN
      OBVIOUS
    <3>. QED BY <3>1, <3>2, Zenon
  <2>2. tasks' # <<>> /\ Last(tasks') = screenOn'
    BY <1>0, <2>1, SequenceLaws
  <2>. QED BY <2>2 DEF TasksFollowScreen
<1>2. CASE RunTask
  <2>1. /\ tasks # <<>> /\ listening' = Head(tasks) /\ tasks' = Tail(tasks)
        /\ startedDark' = (startedDark /\ listening') /\ screenOn' = screenOn
    BY <1>2 DEF RunTask
  <2>2. IF tasks' = <<>> THEN Head(tasks) = Last(tasks) /\ tasks = <<Head(tasks)>>
                         ELSE Last(tasks') = Last(tasks)
    BY <1>0, <2>1, SequenceLaws
  <2>3. CASE Last(tasks) = screenOn
    BY <2>1, <2>2, <2>3 DEF TasksFollowScreen
  <2>4. CASE startedDark /\ tasks = <<TRUE>>
    <3>1. Last(<<TRUE>>) = TRUE
      BY DEF Last
    <3>2. Tail(<<TRUE>>) = <<>>
      OBVIOUS
    <3>3. listening' = TRUE /\ tasks' = <<>>
      BY <2>1, <2>2, <2>4, <3>1, <3>2, Zenon
    <3>. QED BY <2>1, <2>4, <3>3 DEF TasksFollowScreen
  <2>. QED BY <2>1, <2>3, <2>4 DEF TasksFollowScreen
<1>3. CASE Restart
  <2>1. tasks' = <<TRUE>> /\ startedDark' = ~screenOn /\ screenOn' = screenOn
    BY <1>3 DEF Restart
  <2>2. tasks' # <<>> /\ Last(tasks') = TRUE
    BY <2>1 DEF Last
  <2>. QED BY <1>0, <2>1, <2>2 DEF TasksFollowScreen
<1>4. CASE UNCHANGED screenVars
  BY <1>4 DEF screenVars, TasksFollowScreen
<1>5. CASE CameraChanges \/ OnCameraAvailable \/ OnCameraUnavailable \/ Tick \/ MotorMoves \/ HandleKeyEvent
           \/ UNCHANGED vars
  BY <1>4, <1>5 DEF CameraChanges, OnCameraAvailable, OnCameraUnavailable, Tick, MotorMoves, HandleKeyEvent,
                    vars, callbackFrame
<1>6. ASSUME NEW ok \in BOOLEAN, HandleMessage(ok) \/ MainEnable(ok) \/ KeyEnable(ok) \/ OnSensorChanged(ok)
      PROVE  TasksFollowScreen'
  BY <1>4, <1>6 DEF HandleMessage, MainEnable, KeyEnable, OnSensorChanged
<1>7. CASE Dialogs
  BY <1>4, <1>7 DEF Dialogs, ClickFallDialog, ClickStuckDialog
<1>8. ASSUME NEW time \in 1..CAMERA_EVENT_DELAY_TIME, Suspend(time) PROVE TasksFollowScreen'
  BY <1>4, <1>8 DEF Suspend
<1>. QED BY <1>1, <1>2, <1>3, <1>5, <1>6, <1>7, <1>8 DEF Next, MainLooper, SystemServer, FallPositionUnreadable
-----------------------------------------------------------------------------
(***************************************************************************)
(* Theorems.                                                               *)
(***************************************************************************)
LEMMA InvInit == Init => IInv
<1> SUFFICES ASSUME Init PROVE IInv
  OBVIOUS
<1> USE MotorAssumption
<1>1. TypeOK /\ DialogsCounted
  <2>1. dialogs \in [DialogKinds -> 0..MaxInputs] /\ DialogsCounted
    BY DEF Init, DialogsCounted
  <2>2. callbacks \in Seq({"OPEN", "CLOSED"})
    BY DEF Init
  <2>3. messages \in Seq(Message)
    BY DEF Init
  <2>4. tasks \in Seq(BOOLEAN)
    <3>1. <<TRUE>> \in Seq(BOOLEAN)
      OBVIOUS
    <3>. QED BY <3>1, Zenon DEF Init
  <2>5. screenOn \in BOOLEAN /\ listening \in BOOLEAN /\ startedDark \in BOOLEAN /\ moving \in BOOLEAN
    BY Zenon DEF Init
  <2>6. {now, slept, mOpenEvent, mClosedEvent} \subseteq Nat /\ inputs \in 0..MaxInputs
    BY DEF Init
  <2>7. /\ frontCamera \in {"OPEN", "CLOSED"}
        /\ mainThread \in {"idle", "enabling"} /\ keyThread \in {"idle", "enabling"}
        /\ {direction, target} \subseteq {"UP", "DOWN"} /\ position \in {"UP", "DOWN", "BETWEEN"}
        /\ cause \in {"camera", "fall", "user"} /\ fell \in {"no", "opening", "closed"}
        /\ unwritten \subseteq {"direction", "enable"}
    BY Zenon DEF Init
  <2>. QED BY <2>1, <2>2, <2>3, <2>4, <2>5, <2>6, <2>7, Zenon DEF TypeOK
<1>2. callbacks # <<>> /\ Last(callbacks) = frontCamera /\ tasks # <<>> /\ Last(tasks) = screenOn
  BY DEF Init, Last
<1>3. Len(messages) = 0 /\ now \in Nat /\ slept = 0 /\ mOpenEvent = 0 /\ mClosedEvent = 0
  BY DEF Init
<1>4. CallbacksCurrent /\ LastEventWins /\ TasksFollowScreen
  BY <1>2 DEF CallbacksCurrent, LastEventWins, TasksFollowScreen
<1>5. DelaysKept /\ Debounced
  BY <1>3 DEF DelaysKept, Debounced
<1>6. CommandsUnderWay /\ NothingRaises
  BY DEF Init, CommandsUnderWay, NothingRaises
<1>. QED BY <1>1, <1>4, <1>5, <1>6 DEF IInv

\* The inductive invariant holds in every reachable state.
THEOREM Inductive == Spec => []IInv
<1>1. IInv /\ [Next]_vars => IInv'
  BY TypesNext, EventsNext, DelaysNext, CommandsNext, TasksNext
  DEF IInv, Types, EventsInv, DelaysInv, CommandsInv
<1>. QED BY InvInit, <1>1, PTL DEF Spec

\* Every reachable state has the types of TypeOK; a dialog is only clicked while
\* it is shown, and there are never more than events to show one.
THEOREM TypeCorrect == Spec => []TypeOK
<1>1. IInv => TypeOK
  BY DEF IInv
<1>. QED BY Inductive, <1>1, PTL

\* The last message, or the last direction given for the camera, is that of the
\* camera service's last callback, through crashes and for any delay.
THEOREM LastEventFollowed == Spec => []LastEventWins
<1>1. IInv => LastEventWins
  BY DEF IInv
<1>. QED BY Inductive, <1>1, PTL

\* Two opposite messages in a row are the delay apart but for the time the device
\* slept between them, however the callbacks come and whatever was removed from
\* between them.
THEOREM NoBounce == Spec => []Debounced
<1>1. IInv => Debounced
  BY DEF IInv
<1>. QED BY Inductive, <1>1, PTL

\* However the writes of the two processes interleave, with both idle the motor
\* goes where the last direction says, unless a crash is about to be made up for
\* or the enable failed.
THEOREM CommandsComplete == Spec => []CommandsCarriedOut
<1>1. IInv => CommandsCarriedOut
  BY DEF IInv, TypeOK, CommandsUnderWay, CommandsCarriedOut
<1>. QED BY Inductive, <1>1, PTL

\* A fall that found the camera closed, or closes it, leaves it down until it is
\* opened anew or raised by the user, unless a write failed.
THEOREM FallsKeepClosed == Spec => []FallKeepsClosed
<1>1. IInv => FallKeepsClosed
  BY DEF IInv, NothingRaises, FallKeepsClosed
<1>. QED BY Inductive, <1>1, PTL

\* With no task left the fall sensor listens exactly while the screen is on, but
\* after a start in the dark.
THEOREM ListeningInStep == Spec => []ListeningFollowsScreen
<1>1. IInv => ListeningFollowsScreen
  BY DEF IInv, TasksFollowScreen, ListeningFollowsScreen
<1>. QED BY Inductive, <1>1, PTL
=============================================================================
