---------------------------- MODULE CameraMotor ----------------------------
(***************************************************************************)
(* The pop-up front camera (camera_helper).  CameraMotorService turns the  *)
(* camera service's availability callbacks into delayed messages and each  *)
(* message into a motor command; FallSensor lowers the camera in a fall    *)
(* and offers to raise it again; KeyHandler, in the system server's        *)
(* process, offers a retry when the motor got stuck.  A command is two     *)
(* writes to sysfs, the direction and then the enable, so that commands of *)
(* the two processes can interleave; a write that fails is only logged.    *)
(* Events are timed by elapsedRealtime and messages by uptimeMillis, which *)
(* stands still while the device sleeps.                                   *)
(* What runs in the helper's process runs on its main looper; the process  *)
(* can crash and is then restarted.                                        *)
(***************************************************************************)
EXTENDS Integers, Sequences, FiniteSets, SequencesExt

CONSTANTS CAMERA_EVENT_DELAY_TIME,  \* in ticks of the clock
          MaxInputs                 \* bound: events from outside, of all kinds together

ASSUME MotorAssumption == CAMERA_EVENT_DELAY_TIME \in Nat \ {0} /\ MaxInputs \in Nat

VARIABLES
  frontCamera,              \* "OPEN" or "CLOSED", as the camera service has it
  callbacks,                \* availability callbacks posted to the main looper
  now, slept,               \* uptimeMillis, and the time slept since boot
  mOpenEvent, mClosedEvent,
  messages,                 \* delayed messages of mHandler: [what, due, slept]
  mainThread, keyThread,    \* "idle", or "enabling" between the two writes
  direction, target, moving, position,   \* the motor: sysfs nodes and hardware
  dialogs,                  \* how many dialogs of each kind wait for a click
  screenOn, tasks, listening,   \* the screen, FallSensor's executor, its registration
  inputs

\* Ghosts: who gave the last command; what the last fall found; whether the
\* fall sensor was enabled by a start of its service while the screen was off;
\* the nodes whose last write failed; of a message, how long the device had slept
\* when it was sent.
VARIABLES cause, fell, startedDark, unwritten

cameraVars == <<frontCamera, callbacks>>
timeVars   == <<now, slept, mOpenEvent, mClosedEvent, messages>>
motorVars  == <<target, moving, position>>
writeVars  == <<direction, unwritten>>
screenVars == <<screenOn, tasks, listening, startedDark>>
vars == <<cameraVars, timeVars, mainThread, keyThread, writeVars, motorVars, dialogs,
          screenVars, inputs, cause, fell>>

\* After a fall; and the motor stuck on its way up or down.
DialogKinds == {"FALL", "UP", "DOWN"}

Init ==
  /\ frontCamera = "CLOSED" /\ callbacks = <<"CLOSED">>
  /\ now = CAMERA_EVENT_DELAY_TIME /\ slept = 0 /\ mOpenEvent = 0 /\ mClosedEvent = 0 /\ messages = <<>>
  /\ mainThread = "idle" /\ keyThread = "idle"
  /\ direction = "DOWN" /\ target = "DOWN" /\ moving = FALSE /\ position = "DOWN"
  /\ dialogs = [kind \in DialogKinds |-> 0]
  /\ screenOn = TRUE /\ tasks = <<TRUE>> /\ listening = FALSE /\ startedDark = FALSE
  /\ inputs = 0 /\ cause = "camera" /\ fell = "no" /\ unwritten = {}

Shown(kind)   == [dialogs EXCEPT ![kind] = @ + 1]
Clicked(kind) == [dialogs EXCEPT ![kind] = @ - 1]

Input == inputs < MaxInputs /\ inputs' = inputs + 1

\* A write that fails counts as such an event.
Write(ok) == IF ok THEN UNCHANGED inputs ELSE Input

HasMessages(what) == \E i \in 1..Len(messages) : messages[i].what = what

\* removeMessages.
Without(what) ==
  LET kept[n \in 0..Len(messages)] ==
        IF n = 0 THEN <<>>
        ELSE IF messages[n].what = what THEN kept[n - 1] ELSE Append(kept[n - 1], messages[n])
  IN  kept[Len(messages)]
-----------------------------------------------------------------------------
(* The camera service, and CameraMotorService's callbacks.                 *)

CameraChanges ==
  /\ Input
  /\ frontCamera' = IF frontCamera = "OPEN" THEN "CLOSED" ELSE "OPEN"
  /\ callbacks' = Append(callbacks, frontCamera')
  /\ UNCHANGED <<timeVars, mainThread, keyThread, writeVars, motorVars, dialogs,
                 screenVars, cause, fell>>

\* Mutant: the opposite message stays in the queue.
NotRecent(lastOpposite) == FALSE

elapsedRealtime == now + slept

Recent(lastOpposite) == elapsedRealtime - lastOpposite < CAMERA_EVENT_DELAY_TIME

\* Mutant: the message is sent before the others are removed, and goes with them.
SentFirst(kept, message) == IF kept # messages THEN kept ELSE Append(kept, message)

Sent(kept, message) == Append(kept, message)

\* A message replaces those of the opposite event if that is recent, and is
\* delivered after the delay.
QueueMessage(what, opposite, lastOpposite) ==
  LET kept == IF Recent(lastOpposite) /\ HasMessages(opposite) THEN Without(opposite) ELSE messages
  IN  messages' = Sent(kept, [what |-> what, due |-> now + CAMERA_EVENT_DELAY_TIME,
                              slept |-> slept])

callbackFrame == <<frontCamera, now, slept, mainThread, keyThread, writeVars, motorVars, dialogs,
                   screenVars, inputs, cause>>

OnCameraAvailable ==
  /\ mainThread = "idle" /\ callbacks # <<>> /\ Head(callbacks) = "CLOSED"
  /\ callbacks' = Tail(callbacks)
  /\ mClosedEvent' = elapsedRealtime
  /\ QueueMessage("CLOSED", "OPEN", mOpenEvent)
  /\ UNCHANGED <<callbackFrame, mOpenEvent, fell>>

OnCameraUnavailable ==
  /\ mainThread = "idle" /\ callbacks # <<>> /\ Head(callbacks) = "OPEN"
  /\ callbacks' = Tail(callbacks)
  /\ mOpenEvent' = elapsedRealtime
  /\ QueueMessage("OPEN", "CLOSED", mClosedEvent)
  /\ fell' = "no"
  /\ UNCHANGED <<callbackFrame, mClosedEvent>>

\* Time matters only while a message waits.
Tick ==
  /\ messages # <<>> /\ now < Last(messages).due
  /\ now' = now + 1
  /\ UNCHANGED <<cameraVars, slept, mOpenEvent, mClosedEvent, messages, mainThread, keyThread,
                 writeVars, motorVars, dialogs, screenVars, inputs, cause, fell>>

\* The device sleeps for a while, which a waiting message does not prevent.
Suspend(time) ==
  /\ Input /\ messages # <<>>
  /\ slept' = slept + time
  /\ UNCHANGED <<cameraVars, now, mOpenEvent, mClosedEvent, messages, mainThread, keyThread,
                 writeVars, motorVars, dialogs, screenVars, cause, fell>>
-----------------------------------------------------------------------------
(* Motor commands: setMotorDirection, then setMotorEnabled.                *)

Written(node, ok) == unwritten' = IF ok THEN unwritten \ {node} ELSE unwritten \cup {node}

SetMotorDirection(to, ok) ==
  direction' = (IF ok THEN to ELSE direction) /\ Written("direction", ok)

\* Mutant: the enable of the command is forgotten.
SetMotorEnabledForgotten(ok) == UNCHANGED <<motorVars, writeVars>>

\* The motor starts in the direction the node holds now, whoever wrote it, also
\* if the write of the direction just failed.
SetMotorEnabled(ok) ==
  /\ target' = IF ok THEN direction ELSE target
  /\ moving' = IF ok THEN position # direction ELSE moving
  /\ Written("enable", ok) /\ UNCHANGED <<position, direction>>

DirectionOf(what) == IF what = "OPEN" THEN "UP" ELSE "DOWN"

\* handleMessage: the direction is written.
HandleMessage(ok) ==
  /\ mainThread = "idle" /\ messages # <<>> /\ Head(messages).due <= now
  /\ messages' = Tail(messages)
  /\ SetMotorDirection(DirectionOf(Head(messages).what), ok) /\ Write(ok)
  /\ mainThread' = "enabling" /\ cause' = "camera"
  /\ UNCHANGED <<cameraVars, now, slept, mOpenEvent, mClosedEvent, keyThread, motorVars,
                 dialogs, screenVars, fell>>

\* The second write of a command of the helper's process.
MainEnable(ok) ==
  /\ mainThread = "enabling"
  /\ SetMotorEnabled(ok) /\ Write(ok)
  /\ mainThread' = "idle"
  /\ UNCHANGED <<cameraVars, timeVars, keyThread, dialogs, screenVars, cause, fell>>

\* The second write of a command of the system server.
KeyEnable(ok) ==
  /\ keyThread = "enabling"
  /\ SetMotorEnabled(ok) /\ Write(ok)
  /\ keyThread' = "idle"
  /\ UNCHANGED <<cameraVars, timeVars, mainThread, dialogs, screenVars, cause, fell>>

\* The hardware: the camera leaves its place, and arrives.
MotorMoves ==
  /\ moving
  /\ \/ position' = "BETWEEN" /\ position # "BETWEEN" /\ UNCHANGED moving
     \/ position = "BETWEEN" /\ position' = target /\ moving' = FALSE
  /\ UNCHANGED <<cameraVars, timeVars, mainThread, keyThread, writeVars, target, dialogs,
                 screenVars, inputs, cause, fell>>
-----------------------------------------------------------------------------
(* FallSensor, on the main looper.                                         *)

\* What a fall finds: nothing is about to raise the camera, or something is.
FallFinds ==
  IF HasMessages("OPEN") \/ (position = "DOWN" /\ "UP" \in {direction, target})
    THEN "opening" ELSE "closed"

\* Mutant: the position is compared with the wrong value.
AlreadyUp == position = "UP"

AlreadyClosed == position = "DOWN"

\* onSensorChanged with a fall: nothing to do if the camera is down, else it
\* is lowered and a dialog offers to raise it again.
OnSensorChanged(ok) ==
  /\ Input /\ listening /\ mainThread = "idle"
  /\ IF AlreadyClosed
       THEN UNCHANGED <<writeVars, mainThread, dialogs, cause>>
       ELSE /\ SetMotorDirection("DOWN", ok) /\ mainThread' = "enabling"
            /\ dialogs' = Shown("FALL") /\ cause' = "fall"
  /\ fell' = FallFinds
  /\ UNCHANGED <<cameraVars, timeVars, keyThread, motorVars, screenVars>>

Shows(kind) == dialogs[kind] > 0

\* A button of that dialog: "raise the camera", or "close", which goes home.
ClickFallDialog(raise, ok) ==
  /\ Input /\ Shows("FALL") /\ mainThread = "idle"
  /\ dialogs' = Clicked("FALL")
  /\ IF raise
       THEN /\ SetMotorDirection("UP", ok) /\ mainThread' = "enabling"
            /\ cause' = "user" /\ fell' = "no"
       ELSE UNCHANGED <<writeVars, mainThread, cause, fell>>
  /\ UNCHANGED <<cameraVars, timeVars, keyThread, motorVars, screenVars>>

\* Mutant: the executor runs the newest task first.
SubmittedFirst(task) == <<task>> \o tasks

Submitted(task) == Append(tasks, task)

\* The screen goes on or off: a task is submitted to the single-thread executor.
ScreenChanges ==
  /\ Input
  /\ screenOn' = ~screenOn
  /\ tasks' = Submitted(screenOn')
  /\ UNCHANGED <<cameraVars, timeVars, mainThread, keyThread, writeVars, motorVars,
                 dialogs, listening, startedDark, cause, fell>>

\* The executor registers or unregisters the listener.
RunTask ==
  /\ tasks # <<>>
  /\ listening' = Head(tasks) /\ tasks' = Tail(tasks)
  /\ startedDark' = (startedDark /\ listening')
  /\ UNCHANGED <<cameraVars, timeVars, mainThread, keyThread, writeVars, motorVars,
                 dialogs, screenOn, inputs, cause, fell>>
-----------------------------------------------------------------------------
(* KeyHandler, in the system server; and a crash of the helper's process.  *)

\* The motor gets stuck and reports it with a key; handleKeyEvent shows a dialog.
HandleKeyEvent ==
  /\ Input /\ moving
  /\ moving' = FALSE
  /\ dialogs' = Shown(target)
  /\ UNCHANGED <<cameraVars, timeVars, mainThread, keyThread, writeVars, target, position,
                 screenVars, cause, fell>>

\* A button of it: retry, or "close" where the camera cannot go up.
ClickStuckDialog(stuck, command, ok) ==
  /\ Input /\ Shows(stuck) /\ keyThread = "idle"
  /\ command = "UP" => stuck = "UP"
  /\ dialogs' = Clicked(stuck)
  /\ SetMotorDirection(command, ok) /\ keyThread' = "enabling" /\ cause' = "user"
  /\ fell' = IF command = "UP" THEN "no" ELSE fell
  /\ UNCHANGED <<cameraVars, timeVars, mainThread, motorVars, screenVars>>

\* Mutant: after a restart nobody asks for the state of the camera.
ReportedNever == <<>>

\* Registering the callback reports the camera as it is.
ReportedAtStart == <<frontCamera>>

\* The helper's process dies and both services are started again, which also
\* enables the fall sensor.
Restart ==
  /\ Input
  /\ mOpenEvent' = 0 /\ mClosedEvent' = 0 /\ messages' = <<>>
  /\ callbacks' = ReportedAtStart
  /\ mainThread' = "idle" /\ dialogs' = [dialogs EXCEPT !["FALL"] = 0] /\ fell' = "no"
  /\ tasks' = <<TRUE>> /\ listening' = FALSE /\ startedDark' = ~screenOn
  /\ UNCHANGED <<frontCamera, now, slept, keyThread, writeVars, motorVars, screenOn, cause>>

\* getMotorPosition cannot read the position: onSensorChanged throws on its null.
FallPositionUnreadable == listening /\ mainThread = "idle" /\ Restart
-----------------------------------------------------------------------------
MainLooper ==
  \/ OnCameraAvailable
  \/ OnCameraUnavailable
  \/ \E ok \in BOOLEAN : HandleMessage(ok) \/ MainEnable(ok)

Dialogs ==
  \E ok \in BOOLEAN :
    \/ \E raise \in BOOLEAN : ClickFallDialog(raise, ok)
    \/ \E stuck, command \in {"UP", "DOWN"} : ClickStuckDialog(stuck, command, ok)

SystemServer == \E ok \in BOOLEAN : KeyEnable(ok)

Next ==
  \/ CameraChanges
  \/ MainLooper
  \/ Tick
  \/ \E time \in 1..CAMERA_EVENT_DELAY_TIME : Suspend(time)
  \/ SystemServer
  \/ MotorMoves
  \/ \E ok \in BOOLEAN : OnSensorChanged(ok)
  \/ FallPositionUnreadable
  \/ Dialogs
  \/ ScreenChanges \/ RunTask
  \/ HandleKeyEvent
  \/ Restart

Spec == Init /\ [][Next]_vars

\* The main looper, the system server and the motor go on; nobody has to click.
FairSpec ==
  Spec /\ WF_vars(MainLooper) /\ WF_vars(Tick) /\ WF_vars(SystemServer) /\ WF_vars(MotorMoves)
-----------------------------------------------------------------------------
Message == [what : {"OPEN", "CLOSED"}, due : Nat, slept : Nat]

\* Every variable has its type.
TypeOK ==
  /\ frontCamera \in {"OPEN", "CLOSED"} /\ callbacks \in Seq({"OPEN", "CLOSED"})
  /\ {now, slept, mOpenEvent, mClosedEvent} \subseteq Nat /\ messages \in Seq(Message)
  /\ mainThread \in {"idle", "enabling"} /\ keyThread \in {"idle", "enabling"}
  /\ {direction, target} \subseteq {"UP", "DOWN"} /\ moving \in BOOLEAN
  /\ position \in {"UP", "DOWN", "BETWEEN"}
  /\ dialogs \in [DialogKinds -> 0..MaxInputs]
  /\ screenOn \in BOOLEAN /\ tasks \in Seq(BOOLEAN) /\ listening \in BOOLEAN
  /\ inputs \in 0..MaxInputs /\ cause \in {"camera", "fall", "user"}
  /\ fell \in {"no", "opening", "closed"} /\ startedDark \in BOOLEAN
  /\ unwritten \subseteq {"direction", "enable"}

\* However opening and closing alternate, and through a restart, the last thing
\* the service does or is about to do is what the camera service said last; a
\* direction that could not be written is made good by the next one that can.
LastEventWins ==
  callbacks = <<>> =>
    IF messages # <<>> THEN Last(messages).what = frontCamera
    ELSE cause = "camera" => direction = DirectionOf(frontCamera) \/ "direction" \in unwritten

\* The camera does not bounce: two opposite messages in a row are never closer
\* than the delay, so that a shorter opening or closing does not move it; but for
\* the time the device slept between them, which counts for how recent an event
\* is and not for the delivery: after a long sleep they may come at once.
Debounced ==
  \A i \in 1..Len(messages) - 1 :
    messages[i].what # messages[i + 1].what =>
      messages[i + 1].due - messages[i].due >=
        CAMERA_EVENT_DELAY_TIME - (messages[i + 1].slept - messages[i].slept)

\* However the writes of the two processes interleave, the motor goes where the
\* last direction says once both are done; after a crash between the two writes
\* a new command is on its way.  Only an enable that failed leaves it undone.
CommandsCarriedOut ==
  mainThread = "idle" /\ keyThread = "idle" /\ target # direction =>
    callbacks # <<>> \/ messages # <<>> \/ "enable" \in unwritten

\* After a fall the camera stays down until it is opened anew or the user raises
\* it, unless the fall came while a command to raise it waited or the camera had
\* not yet left its place: onSensorChanged ignores that one.
FallKeepsClosed ==
  fell = "closed" /\ mainThread = "idle" /\ keyThread = "idle" =>
    target = "DOWN" \/ unwritten # {}

\* Once no task waits, the fall sensor listens exactly while the screen is on,
\* unless its service was started while it was off.
ListeningFollowsScreen == tasks = <<>> => listening = screenOn \/ startedDark

Stuck == dialogs["UP"] + dialogs["DOWN"] > 0

\* A camera that is closed is lowered, unless the user raised it, it is stuck or
\* the last command could not be written: nothing tries that one again.
LoweredAfterClose ==
  frontCamera = "CLOSED" ~>
    \/ frontCamera = "OPEN" \/ position = "DOWN" \/ cause = "user" \/ Stuck
    \/ unwritten # {}
=============================================================================
