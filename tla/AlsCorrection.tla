--------------------------- MODULE AlsCorrection ---------------------------
(***************************************************************************)
(* The correction of the light sensor under the display                    *)
(* (sensors/AlsCorrection.cpp).  A raw reading is corrected by the light   *)
(* of the screen, known from a screenshot of the area above the sensor     *)
(* (als/default/AreaCapture.cpp).  A screenshot is expensive: events that  *)
(* come too fast are dropped, the last value is reused within a            *)
(* hysteresis, and a screenshot is forced from time to time.  process()    *)
(* runs with mEventQueueWriteMutex held, so that it is one action.         *)
(*                                                                         *)
(* Times are kept as ages in ticks, and an age stays at Old once no test   *)
(* tells it from a greater one.  The polynomials over the colours amount   *)
(* to any estimate up to the white of the panel, to which process() clips  *)
(* it.  Light is in a unit of the raw reading, times a gain in a fraction  *)
(* of a lux: fixed-point numbers in the place of the code's floats, with   *)
(* gains below one as well.                                                *)
(***************************************************************************)
EXTENDS Integers, Sequences, FiniteSetsExt

CONSTANTS Readings,       \* event.u.scalar: what the sensor reports
          Bias,           \* conf.bias
          Whites,         \* brightness_fullwhite at each brightness; 0: the panel is off
          Estimates,      \* of the screen's light above the sensor
          Lux,            \* one lux, in the unit of corrected light
          BaseGain,       \* conf.sensor_inverse_gain[0] * conf.calib_gain
          Gains,          \* all of conf.sensor_inverse_gain, likewise
          AgcThreshold,   \* conf.agc_threshold
          MinInterval,    \* ms2ns(100), in ticks
          ForceInterval,  \* s2ns(3), in ticks
          Never,          \* the age of what has not happened
          MaxFailures     \* bound: screenshots that fail

\* HUGE_VALF, in lux, which no reading reaches.
Infinity == 10000000

ASSUME AlsAssumption ==
  /\ Readings \cup Whites \cup Estimates \cup {Bias, AgcThreshold} \subseteq Nat
  /\ Lux \in Nat \ {0} /\ Gains \subseteq Nat \ {0} /\ BaseGain \in Gains
  /\ MinInterval \in Nat \ {0} /\ ForceInterval \in Nat /\ MinInterval <= ForceInterval
  /\ MaxFailures \in Nat /\ Never \notin Nat
  /\ \A reading \in Readings, gain \in Gains : reading * gain <= Infinity * Lux

VARIABLES
  service,                          \* the capture service was found
  white,                            \* brightness_fullwhite of the panel
  last_update, last_forced_update,  \* ages
  force_update, hyst_min, hyst_max, \* the limits, times the base gain
  last_corrected_value, last_agc_gain,
  outcome,                          \* of the last event: [kind, reading]
  failures                          \* counter for the bound

\* Ghosts: the ages of the last screenshot and of the last value computed.
VARIABLES captured, computed

panelVars == <<service, white>>
timeVars  == <<last_update, last_forced_update, captured, computed>>
valueVars == <<hyst_min, hyst_max, last_corrected_value, last_agc_gain>>
vars == <<panelVars, timeVars, force_update, valueVars, outcome, failures>>

Old == ForceInterval + 1

Older(age) == IF age \in {Never, Old} THEN age ELSE age + 1

hysteresis_ranges ==
  << [middle |-> 0,        min |-> -1,   max |-> 4],
     [middle |-> 7,        min |-> 1,    max |-> 12],
     [middle |-> 15,       min |-> 5,    max |-> 30],
     [middle |-> 30,       min |-> 10,   max |-> 50],
     [middle |-> 360,      min |-> 25,   max |-> 700],
     [middle |-> 1200,     min |-> 300,  max |-> 1600],
     [middle |-> 2250,     min |-> 1000, max |-> 2940],
     [middle |-> 4600,     min |-> 2000, max |-> 5900],
     [middle |-> 10000,    min |-> 4000, max |-> 80000],
     [middle |-> Infinity, min |-> 8000, max |-> Infinity] >>

Init ==
  /\ service \in BOOLEAN /\ white \in Whites
  /\ last_update = Never /\ last_forced_update = Never /\ force_update = TRUE
  /\ hyst_min = -1 /\ hyst_max = -1 /\ last_corrected_value = 0 /\ last_agc_gain = 0
  /\ outcome = [kind |-> "none", reading |-> 0] /\ failures = 0
  /\ captured = Never /\ computed = Never

Tick ==
  /\ last_update' = Older(last_update) /\ last_forced_update' = Older(last_forced_update)
  /\ captured' = Older(captured) /\ computed' = Older(computed)
  /\ UNCHANGED <<panelVars, force_update, valueVars, outcome, failures>>

\* The brightness changes, or the panel goes on or off.
PanelChanges ==
  /\ white' \in Whites \ {white}
  /\ UNCHANGED <<service, timeVars, force_update, valueVars, outcome, failures>>
-----------------------------------------------------------------------------
(* process(), up to the decision to take a screenshot.                     *)

Debiased(raw) == IF raw > Bias THEN raw - Bias ELSE raw

Lit == white > 0

ForceDue == last_update # Never /\ Lit /\ last_forced_update > ForceInterval

Forced == force_update \/ ForceDue

TooFast == last_update # Never /\ last_update < MinInterval

\* What the first event, and one that forces a screenshot, does to the time.
NoteForced == last_forced_update' = IF last_update = Never \/ ForceDue THEN 0 ELSE last_forced_update

OutsideHysteresis(reading) == reading * BaseGain < hyst_min \/ reading * BaseGain > hyst_max

\* A screenshot is worth its cost in the dark and in the light: 5 / .07 lux.
DarkOrBright(reading) ==
  LET light == reading * last_agc_gain
  IN  light < 10 * Lux \/ 7 * light > 500 * Lux

NeedsScreenshot(reading) == Forced \/ (OutsideHysteresis(reading) /\ DarkOrBright(reading))

\* Mutant: the time of the last event is noted before the test.
UpdateOfDroppedNow == 0

\* An event that comes too fast does not count as the last one.
UpdateOfDropped == last_update

DropTooFast ==
  /\ TooFast
  /\ NoteForced /\ force_update' = Forced /\ last_update' = UpdateOfDropped
  /\ outcome' = [kind |-> "dropped", reading |-> 0]
  /\ UNCHANGED <<panelVars, captured, computed, valueVars, failures>>

Reuse(raw) ==
  /\ ~TooFast /\ ~NeedsScreenshot(Debiased(raw))
  /\ NoteForced /\ last_update' = 0
  /\ outcome' = [kind |-> "reused", reading |-> 0]
  /\ UNCHANGED <<panelVars, captured, computed, force_update, valueVars, failures>>
-----------------------------------------------------------------------------
(* process(), with a screenshot.                                           *)

\* Mutant: an event without a screenshot does not count as the last one.
UpdateOfFailedKept == last_update

\* An event whose screenshot fails counts as the last one.
UpdateOfFailed == 0

\* Mutant: a screenshot that fails is not asked for again.
ForceAfterFailureForgotten == FALSE

ForceAfterFailure == Forced

\* There is no service, or it has no screenshot: the event is dropped, and what
\* forced the screenshot stays.
CaptureFails(raw) ==
  /\ ~TooFast /\ NeedsScreenshot(Debiased(raw))
  /\ service => failures < MaxFailures /\ failures' = failures + 1
  /\ ~service => UNCHANGED failures
  /\ NoteForced /\ force_update' = ForceAfterFailure
  /\ last_update' = UpdateOfFailed /\ captured' = 0
  /\ outcome' = [kind |-> "dropped", reading |-> 0]
  /\ UNCHANGED <<panelVars, computed, valueVars>>

\* The estimates process() can arrive at, clipped between none and the white.
ScreenLight == {Min({estimate, white}) : estimate \in Estimates}

\* The gains the sensor may have had for a reading: in the light any of them.
AgcGains(rawCorrected) == IF rawCorrected > AgcThreshold THEN Gains ELSE {BaseGain}

\* An estimate far above a reading in full light is not believed.
Believed(reading, light, gain) ==
  100 * light <= 135 * reading \/ reading * gain < 10000 * Lux \/ Forced

\* Mutant: the light of the panel is left out of the limits.
PanelLightIgnored == 0

\* The light of the panel, at most.
PanelLight == white * BaseGain

\* The limits of the first range that reaches up to the corrected value.
HysteresisOf(corrected) ==
  LET i == Min({j \in 1..Len(hysteresis_ranges) : corrected <= hysteresis_ranges[j].middle * Lux})
  IN  /\ hyst_min' = hysteresis_ranges[i].min * Lux
      /\ hyst_max' = hysteresis_ranges[i].max * Lux + PanelLight

\* Mutant: the offset is subtracted without a lower limit.
OffsetUnclipped(corrected) == corrected - 14 * Lux

Offset(corrected) == Max({corrected - 14 * Lux, 0})

\* A screenshot is there: a new value is computed, unless it is not believed.
Correct(raw, light, gain) ==
  LET reading      == Debiased(raw)
      rawCorrected == Max({reading - light, 0})
      corrected    == rawCorrected * gain
  IN  /\ service /\ ~TooFast /\ NeedsScreenshot(reading)
      /\ gain \in AgcGains(rawCorrected)
      /\ IF Believed(reading, light, gain)
           THEN /\ last_agc_gain' = gain /\ HysteresisOf(corrected)
                /\ last_corrected_value' = Offset(corrected) /\ computed' = 0
                /\ outcome' = [kind |-> "computed", reading |-> reading]
           ELSE /\ outcome' = [kind |-> "reused", reading |-> 0]
                /\ UNCHANGED <<valueVars, computed>>
      /\ NoteForced /\ force_update' = FALSE /\ last_update' = 0 /\ captured' = 0
      /\ UNCHANGED <<panelVars, failures>>
-----------------------------------------------------------------------------
Capture ==
  \E raw \in Readings :
    CaptureFails(raw) \/ \E light \in ScreenLight, gain \in Gains : Correct(raw, light, gain)

Process == DropTooFast \/ (\E raw \in Readings : Reuse(raw)) \/ Capture

Next == Tick \/ PanelChanges \/ Process

Spec == Init /\ [][Next]_vars

\* Time passes and the sensor goes on reporting, at any rate.
FairSpec == Spec /\ WF_vars(Tick) /\ WF_vars(Process)
-----------------------------------------------------------------------------
Ages == 0..Old \cup {Never}

\* Every variable has its type: no negative light is reported.
TypeOK ==
  /\ service \in BOOLEAN /\ white \in Whites /\ force_update \in BOOLEAN
  /\ last_update \in Ages /\ last_forced_update \in Ages
  /\ captured \in Ages /\ computed \in Ages
  /\ hyst_min \in Int /\ hyst_max \in Int
  /\ last_corrected_value \in Nat /\ last_agc_gain \in Gains \cup {0}
  /\ outcome.kind \in {"none", "dropped", "reused", "computed"} /\ outcome.reading \in Nat
  /\ failures \in 0..MaxFailures

\* No value is reported before one was computed; and while the panel is lit a
\* value that is reused was computed within the interval of forced screenshots,
\* through events that come too fast and screenshots that fail.
ReusedFresh ==
  [][Process /\ outcome'.kind = "reused" =>
       computed # Never /\ (Lit => computed <= ForceInterval)]_vars

\* However fast the sensor reports, and also while screenshots fail, the service
\* is not asked for them more often than once in the shortest interval.
CapturesSpaced == [][Capture => captured = Never \/ captured >= MinInterval]_vars

\* Between no light and one lux: the first range ends at the one, and the limits
\* of the second begin at the other.
BetweenRanges(reading) == 0 < reading * BaseGain /\ reading * BaseGain < Lux

\* The limits fit the reading they were computed from, for every estimate of
\* the screen's light: the same reading does not ask for the next screenshot
\* again.  Not so for a reading below one lux but not zero, which is below its
\* own limits and asks again at every event; nor for a value at another gain,
\* as the limits are those of the base gain.
HysteresisFits ==
  outcome.kind = "computed" /\ last_agc_gain = BaseGain =>
    ~OutsideHysteresis(outcome.reading) \/ BetweenRanges(outcome.reading)

\* Where there is a service, light values keep coming, though events come too
\* fast and some screenshots fail.
ValuesKeepComing == service => []<>(outcome.kind \in {"reused", "computed"})
=============================================================================
