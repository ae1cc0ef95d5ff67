------------------------ MODULE AlsCorrection_proofs ------------------------
(* What holds of the correction for any readings, estimates, gains and      *)
(* intervals.                                                               *)
EXTENDS AlsCorrection, TLAPS

(***************************************************************************)
(* The inductive invariant.                                                *)
(***************************************************************************)

\* Once an event was seen the time of the forced screenshots is known.
ForcedTimeKnown == last_update # Never => last_forced_update # Never

\* Unless a screenshot is to be forced there is a value, and it is no older than
\* the last time one was forced: what forces a screenshot stays until it is there.
ValueNoted ==
  ~force_update =>
    /\ last_update # Never /\ computed # Never
    /\ computed <= last_forced_update

\* A screenshot is never younger than the last event that counts.
CaptureNoted == captured # Never => last_update # Never /\ last_update <= captured

IInv == TypeOK /\ ForcedTimeKnown /\ ValueNoted /\ CaptureNoted /\ HysteresisFits
-----------------------------------------------------------------------------
(***************************************************************************)
(* The operators.                                                          *)
(***************************************************************************)
LEMMA MinLaws ==
  ASSUME NEW a \in Int, NEW b \in Int
  PROVE  Min({a, b}) \in {a, b} /\ Min({a, b}) <= a /\ Min({a, b}) <= b
<1>1. \E x \in {a, b} : \A y \in {a, b} : x <= y
  <2>1. CASE a <= b
    BY <2>1
  <2>2. CASE b <= a
    BY <2>2
  <2>. QED BY <2>1, <2>2
<1>. QED BY <1>1 DEF Min

LEMMA MaxLaws ==
  ASSUME NEW a \in Int, NEW b \in Int
  PROVE  Max({a, b}) \in {a, b} /\ Max({a, b}) >= a /\ Max({a, b}) >= b
<1>1. \E x \in {a, b} : \A y \in {a, b} : x >= y
  <2>1. CASE a >= b
    BY <2>1
  <2>2. CASE b >= a
    BY <2>2
  <2>. QED BY <2>1, <2>2
<1>. QED BY <1>1 DEF Max

\* Ages grow, and keep their order.
LEMMA OlderLaws ==
  ASSUME NEW age \in Ages, NEW other \in Ages
  PROVE  /\ Older(age) \in Ages /\ (Older(age) = Never <=> age = Never)
         /\ age # Never /\ other # Never /\ age <= other => Older(age) <= Older(other)
BY AlsAssumption DEF Older, Ages, Old

LEMMA DebiasedLaws ==
  ASSUME NEW raw \in Readings
  PROVE  Debiased(raw) \in Nat /\ Debiased(raw) <= raw /\ raw \in Nat
BY AlsAssumption DEF Debiased

\* A limit below nought, or below one that a value is above of, is below the value.
LEMMA BelowLaws ==
  ASSUME NEW value \in Nat, NEW limit \in Int, NEW factor \in Nat \ {0}
  PROVE  /\ limit < 0 => limit * factor <= value
         /\ \A above \in Int : limit <= above /\ ~(value <= above * factor) => limit * factor <= value
<1>1. limit < 0 => limit * factor <= 0 /\ limit * factor \in Int
  OBVIOUS
<1>2. ASSUME NEW above \in Int, limit <= above, ~(value <= above * factor)
      PROVE  limit * factor <= value
  <2>1. limit * factor <= above * factor /\ limit * factor \in Int /\ above * factor \in Int
    BY <1>2
  <2>. QED BY <1>2, <2>1
<1>. QED BY <1>1, <1>2

\* Of the ranges that reach up to a value, if the last one does, there is a first.
LEMMA FirstReaching ==
  ASSUME NEW corrected, corrected <= hysteresis_ranges[10].middle * Lux
  PROVE  \E i \in 1..10 : /\ corrected <= hysteresis_ranges[i].middle * Lux
                          /\ \A j \in 1..10 : j < i => ~(corrected <= hysteresis_ranges[j].middle * Lux)
<1> DEFINE Reaches(j) == corrected <= hysteresis_ranges[j].middle * Lux
<1>1. Reaches(10)
  OBVIOUS
<1> HIDE DEF Reaches
<1>2. \E i \in 1..10 : Reaches(i) /\ \A j \in 1..10 : j < i => ~Reaches(j)
  BY <1>1
<1>. QED BY <1>2 DEF Reaches

\* For every corrected value there is a first range that reaches up to it; its
\* limits are around the value, but for a value below one lux, which is below
\* those of the second range.
LEMMA RangeLaws ==
  ASSUME NEW corrected \in Nat, corrected <= Infinity * Lux
  PROVE  \E i \in 1..Len(hysteresis_ranges) :
           /\ i = Min({j \in 1..Len(hysteresis_ranges) : corrected <= hysteresis_ranges[j].middle * Lux})
           /\ hysteresis_ranges[i].min * Lux \in Int /\ hysteresis_ranges[i].max * Lux \in Int
           /\ \/ hysteresis_ranges[i].min * Lux <= corrected
              \/ corrected > 0 /\ hysteresis_ranges[i].min * Lux = Lux
           /\ corrected <= hysteresis_ranges[i].max * Lux
<1> DEFINE Reaching == {j \in 1..Len(hysteresis_ranges) : corrected <= hysteresis_ranges[j].middle * Lux}
<1>0. Lux \in Nat \ {0}
  BY AlsAssumption
<1>1. /\ Len(hysteresis_ranges) = 10
      /\ hysteresis_ranges[1]  = [middle |-> 0,        min |-> -1,   max |-> 4]
      /\ hysteresis_ranges[2]  = [middle |-> 7,        min |-> 1,    max |-> 12]
      /\ hysteresis_ranges[3]  = [middle |-> 15,       min |-> 5,    max |-> 30]
      /\ hysteresis_ranges[4]  = [middle |-> 30,       min |-> 10,   max |-> 50]
      /\ hysteresis_ranges[5]  = [middle |-> 360,      min |-> 25,   max |-> 700]
      /\ hysteresis_ranges[6]  = [middle |-> 1200,     min |-> 300,  max |-> 1600]
      /\ hysteresis_ranges[7]  = [middle |-> 2250,     min |-> 1000, max |-> 2940]
      /\ hysteresis_ranges[8]  = [middle |-> 4600,     min |-> 2000, max |-> 5900]
      /\ hysteresis_ranges[9]  = [middle |-> 10000,    min |-> 4000, max |-> 80000]
      /\ hysteresis_ranges[10] = [middle |-> Infinity, min |-> 8000, max |-> Infinity]
  BY DEF hysteresis_ranges
<1>2. \A i \in 1..10 :
        /\ hysteresis_ranges[i].middle \in Int /\ hysteresis_ranges[i].min \in Int
        /\ hysteresis_ranges[i].max \in Int /\ hysteresis_ranges[i].middle <= hysteresis_ranges[i].max
        /\ i > 2 => hysteresis_ranges[i].min <= hysteresis_ranges[i - 1].middle
  BY <1>1, SMTT(20) DEF Infinity
<1>3. PICK i \in 1..10 : /\ corrected <= hysteresis_ranges[i].middle * Lux
                         /\ \A j \in 1..10 : j < i => ~(corrected <= hysteresis_ranges[j].middle * Lux)
  <2>1. corrected <= hysteresis_ranges[10].middle * Lux
    BY <1>1
  <2>. QED BY ONLY <2>1, FirstReaching
<1>4. Min(Reaching) = i
  <2>1. Reaching = {j \in 1..10 : corrected <= hysteresis_ranges[j].middle * Lux}
    <3>1. Len(hysteresis_ranges) = 10
      BY <1>1
    <3>. QED BY ONLY <3>1, Zenon
  <2>2. i \in Reaching /\ \A j \in Reaching : j \in 1..10 /\ ~(j < i)
    BY <1>3, <2>1, Zenon
  <2> HIDE DEF Reaching
  <2>3. \A j \in Reaching : j \in Int /\ i <= j
    BY ONLY <2>2, i \in 1..10
  <2>4. Min(Reaching) \in Reaching /\ Min(Reaching) <= i
    BY <2>2, <2>3, Zenon DEF Min
  <2>. QED BY ONLY <2>3, <2>4, i \in 1..10
<1>5. PICK middle, min, max : /\ middle = hysteresis_ranges[i].middle
                              /\ min = hysteresis_ranges[i].min /\ max = hysteresis_ranges[i].max
  OBVIOUS
<1>6. {middle, min, max} \subseteq Int /\ middle <= max /\ corrected <= middle * Lux
  BY <1>2, <1>3, <1>5
<1>7. min * Lux \in Int /\ max * Lux \in Int /\ corrected <= max * Lux
  <2>1. middle * Lux <= max * Lux /\ middle * Lux \in Int /\ max * Lux \in Int /\ min * Lux \in Int
    BY ONLY <1>0, <1>6
  <2>. QED BY ONLY <1>6, <2>1, corrected \in Nat
<1>8. min * Lux <= corrected \/ (corrected > 0 /\ min * Lux = Lux)
  <2>1. CASE i = 1
    <3>1. min < 0
      BY <1>1, <1>5, <2>1
    <3>2. min * Lux <= corrected
      BY <1>0, <1>6, <3>1, BelowLaws
    <3>. QED BY <3>2
  <2>2. CASE i = 2
    <3>1. min = 1 /\ ~(corrected <= 0 * Lux)
      BY <1>1, <1>3, <1>5, <2>2
    <3>. QED BY ONLY <1>0, <3>1, corrected \in Nat
  <2>3. CASE i > 2
    <3>1. PICK before : before = hysteresis_ranges[i - 1].middle
      OBVIOUS
    <3>2. i - 1 \in 1..10 /\ i - 1 < i
      BY <2>3
    <3>3. before \in Int /\ min <= before /\ ~(corrected <= before * Lux)
      BY <1>2, <1>3, <1>5, <2>3, <3>1, <3>2
    <3>4. min * Lux <= corrected
      BY <1>0, <1>6, <3>3, BelowLaws
    <3>. QED BY <3>4
  <2>. QED BY <2>1, <2>2, <2>3
<1>9. i \in 1..Len(hysteresis_ranges)
  <2>1. Len(hysteresis_ranges) = 10
    BY <1>1
  <2>. QED BY ONLY <2>1, i \in 1..10
<1>10. /\ hysteresis_ranges[i].min * Lux \in Int /\ hysteresis_ranges[i].max * Lux \in Int
       /\ \/ hysteresis_ranges[i].min * Lux <= corrected
          \/ corrected > 0 /\ hysteresis_ranges[i].min * Lux = Lux
       /\ corrected <= hysteresis_ranges[i].max * Lux
  BY <1>5, <1>7, <1>8, Zenon
<1>. QED BY <1>4, <1>9, <1>10, Zenon
-----------------------------------------------------------------------------
(***************************************************************************)
(* The steps.                                                              *)
(***************************************************************************)

\* The values a correction computes fit their types, and the limits the reading.
LEMMA CorrectComputes ==
  ASSUME TypeOK, NEW raw \in Readings, NEW light \in ScreenLight, NEW gain \in Gains,
         Correct(raw, light, gain), Believed(Debiased(raw), light, gain)
  PROVE  /\ hyst_min' \in Int /\ hyst_max' \in Int /\ last_corrected_value' \in Nat
         /\ last_agc_gain' = gain
         /\ outcome' = [kind |-> "computed", reading |-> Debiased(raw)]
         /\ gain = BaseGain =>
              /\ hyst_min' <= Debiased(raw) * BaseGain \/ BetweenRanges(Debiased(raw))
              /\ Debiased(raw) * BaseGain <= hyst_max'
<1> USE AlsAssumption
<1> DEFINE reading      == Debiased(raw)
           rawCorrected == Max({reading - light, 0})
           corrected    == rawCorrected * gain
<1>1. reading \in Nat /\ reading <= raw /\ raw \in Nat
  BY DebiasedLaws
<1>2. PICK estimate \in Estimates : light = Min({estimate, white})
  BY DEF ScreenLight
<1>3. light \in Nat /\ light <= white /\ white \in Nat
  <2>1. estimate \in Nat /\ white \in Nat
    BY <1>2 DEF TypeOK
  <2>2. light \in {estimate, white} /\ light <= white
    <3>1. estimate \in Int /\ white \in Int
      BY <2>1
    <3>. QED BY <1>2, <3>1, MinLaws, Zenon
  <2>. QED BY <2>1, <2>2
<1>4. rawCorrected \in Nat /\ rawCorrected <= reading /\ reading <= rawCorrected + light
  <2>1. reading - light \in Int /\ 0 \in Int
    BY <1>1, <1>3
  <2>2. rawCorrected \in {reading - light, 0} /\ rawCorrected >= reading - light /\ rawCorrected >= 0
    BY <2>1, MaxLaws, Zenon
  <2> HIDE DEF rawCorrected, reading
  <2>. QED BY <2>1, <2>2, <1>1, <1>3
<1>5. gain \in Nat /\ BaseGain \in Nat
  OBVIOUS
<1> HIDE DEF rawCorrected, reading
<1>6. corrected \in Nat /\ corrected <= Infinity * Lux
  <2>1. raw * gain <= Infinity * Lux
    OBVIOUS
  <2>2. rawCorrected <= raw
    BY <1>1, <1>4
  <2>3. rawCorrected * gain <= raw * gain /\ rawCorrected * gain \in Nat
    BY <2>2, <1>1, <1>4, <1>5
  <2>4. raw * gain \in Nat /\ Infinity * Lux \in Nat
    BY <1>1, <1>5 DEF Infinity
  <2>. QED BY <2>1, <2>3, <2>4
<1>7. /\ HysteresisOf(corrected) /\ last_agc_gain' = gain /\ last_corrected_value' = Offset(corrected)
      /\ outcome' = [kind |-> "computed", reading |-> reading]
  BY DEF Correct, rawCorrected, reading
<1> HIDE DEF corrected
<1>8. Offset(corrected) \in Nat
  <2>1. corrected - 14 * Lux \in Int /\ 0 \in Int
    BY <1>6
  <2>2. Offset(corrected) \in {corrected - 14 * Lux, 0} /\ Offset(corrected) >= 0
    BY <2>1, MaxLaws, Zenon DEF Offset
  <2>. QED BY <2>1, <2>2
<1>9. PICK i \in 1..Len(hysteresis_ranges) :
        /\ i = Min({j \in 1..Len(hysteresis_ranges) : corrected <= hysteresis_ranges[j].middle * Lux})
        /\ hysteresis_ranges[i].min * Lux \in Int /\ hysteresis_ranges[i].max * Lux \in Int
        /\ \/ hysteresis_ranges[i].min * Lux <= corrected
           \/ corrected > 0 /\ hysteresis_ranges[i].min * Lux = Lux
        /\ corrected <= hysteresis_ranges[i].max * Lux
  BY <1>6, RangeLaws
<1>10. /\ hyst_min' = hysteresis_ranges[i].min * Lux
       /\ hyst_max' = hysteresis_ranges[i].max * Lux + white * BaseGain
  BY <1>7, <1>9, Zenon DEF HysteresisOf, PanelLight
<1>11. white * BaseGain \in Nat
  BY <1>3, <1>5
<1>12. ASSUME gain = BaseGain
       PROVE  /\ hyst_min' <= reading * BaseGain \/ BetweenRanges(reading)
              /\ reading * BaseGain <= hyst_max'
  <2>1. corrected = rawCorrected * BaseGain
    BY <1>12 DEF corrected
  <2>2. /\ rawCorrected * BaseGain <= reading * BaseGain
        /\ reading * BaseGain <= rawCorrected * BaseGain + white * BaseGain
    <3>1. reading <= rawCorrected + white
      BY <1>1, <1>3, <1>4
    <3>. QED BY <3>1, <1>1, <1>3, <1>4, <1>5
  <2>3. rawCorrected * BaseGain \in Nat /\ reading * BaseGain \in Nat
    BY <1>1, <1>4, <1>5
  <2>4. /\ hyst_min' <= corrected \/ (corrected > 0 /\ hyst_min' = Lux)
        /\ corrected + white * BaseGain <= hyst_max'
    BY <1>6, <1>9, <1>10, <1>11
  <2>5. hyst_min' \in Int /\ hyst_max' \in Int
    BY <1>9, <1>10, <1>11
  <2>. QED BY <2>1, <2>2, <2>3, <2>4, <2>5, <1>6, <1>11 DEF BetweenRanges
<1>. QED BY <1>7, <1>8, <1>9, <1>10, <1>11, <1>12 DEF reading

LEMMA TypesNext == TypeOK /\ [Next]_vars => TypeOK'
<1> SUFFICES ASSUME TypeOK, [Next]_vars PROVE TypeOK'
  OBVIOUS
<1> USE AlsAssumption
<1>1. 0 \in Ages
  BY DEF Ages, Old
<1>2. CASE Tick
  BY <1>2, OlderLaws DEF Tick, TypeOK, panelVars, valueVars
<1>3. CASE PanelChanges
  BY <1>3 DEF PanelChanges, TypeOK, timeVars, valueVars
<1>4. Forced \in BOOLEAN
  BY DEF Forced, ForceDue, TypeOK
<1>5. CASE DropTooFast
  BY <1>1, <1>4, <1>5 DEF DropTooFast, NoteForced, UpdateOfDropped, TypeOK, panelVars, valueVars
<1>6. ASSUME NEW raw \in Readings, Reuse(raw)
      PROVE  TypeOK'
  BY <1>1, <1>6 DEF Reuse, NoteForced, TypeOK, panelVars, valueVars
<1>7. ASSUME NEW raw \in Readings, CaptureFails(raw)
      PROVE  TypeOK'
  <2>1. failures' \in 0..MaxFailures
    BY <1>7 DEF CaptureFails, TypeOK
  <2>. QED BY <1>1, <1>4, <1>7, <2>1
           DEF CaptureFails, NoteForced, UpdateOfFailed, ForceAfterFailure, TypeOK, panelVars, valueVars
<1>8. ASSUME NEW raw \in Readings, NEW light \in ScreenLight, NEW gain \in Gains,
             Correct(raw, light, gain)
      PROVE  TypeOK'
  <2>1. CASE Believed(Debiased(raw), light, gain)
    <3>1. /\ hyst_min' \in Int /\ hyst_max' \in Int /\ last_corrected_value' \in Nat
          /\ last_agc_gain' = gain
          /\ outcome' = [kind |-> "computed", reading |-> Debiased(raw)]
      BY <1>8, <2>1, CorrectComputes
    <3>2. Debiased(raw) \in Nat
      BY DebiasedLaws
    <3>3. computed' = 0 /\ NoteForced /\ force_update' = FALSE /\ last_update' = 0 /\ captured' = 0
          /\ UNCHANGED <<panelVars, failures>>
      BY <1>8, <2>1 DEF Correct
    <3>. QED BY <1>1, <3>1, <3>2, <3>3 DEF NoteForced, TypeOK, panelVars
  <2>2. CASE ~Believed(Debiased(raw), light, gain)
    <3>1. /\ outcome' = [kind |-> "reused", reading |-> 0] /\ UNCHANGED <<valueVars, computed>>
          /\ NoteForced /\ force_update' = FALSE /\ last_update' = 0 /\ captured' = 0
          /\ UNCHANGED <<panelVars, failures>>
      BY <1>8, <2>2 DEF Correct
    <3>. QED BY <1>1, <3>1 DEF NoteForced, TypeOK, panelVars, valueVars
  <2>. QED BY <2>1, <2>2
<1>9. CASE UNCHANGED vars
  BY <1>9 DEF vars, panelVars, timeVars, valueVars, TypeOK
<1>. QED BY <1>2, <1>3, <1>5, <1>6, <1>7, <1>8, <1>9 DEF Next, Process, Capture

\* Whatever corrects with a screenshot forced does compute a value.
LEMMA ForcedComputes ==
  ASSUME NEW raw, NEW light, NEW gain, Correct(raw, light, gain), Forced
  PROVE  computed' = 0
BY DEF Correct, Believed

LEMMA ForcedTimeNext == TypeOK /\ ForcedTimeKnown /\ [Next]_vars => ForcedTimeKnown'
<1> SUFFICES ASSUME TypeOK, ForcedTimeKnown, [Next]_vars PROVE ForcedTimeKnown'
  OBVIOUS
<1> USE AlsAssumption
<1>1. CASE Tick
  BY <1>1, OlderLaws DEF Tick, ForcedTimeKnown, TypeOK
<1>2. CASE PanelChanges \/ UNCHANGED vars
  BY <1>2 DEF PanelChanges, vars, timeVars, ForcedTimeKnown
<1>3. CASE Process
  <2>1. NoteForced
    BY <1>3 DEF Process, DropTooFast, Reuse, Capture, CaptureFails, Correct
  <2>. QED BY <2>1 DEF NoteForced, ForcedTimeKnown
<1>. QED BY <1>1, <1>2, <1>3 DEF Next

LEMMA ValueNext == TypeOK /\ ForcedTimeKnown /\ ValueNoted /\ [Next]_vars => ValueNoted'
<1> SUFFICES ASSUME TypeOK, ForcedTimeKnown, ValueNoted, [Next]_vars, ~force_update'
             PROVE  last_update' # Never /\ computed' # Never /\ computed' <= last_forced_update'
  BY DEF ValueNoted
<1> USE AlsAssumption
<1>1. CASE Tick
  BY <1>1, OlderLaws DEF Tick, ValueNoted, ForcedTimeKnown, TypeOK
<1>2. CASE PanelChanges \/ UNCHANGED vars
  BY <1>2 DEF PanelChanges, vars, timeVars, ValueNoted
<1>3. CASE DropTooFast
  BY <1>3 DEF DropTooFast, Forced, NoteForced, UpdateOfDropped, ValueNoted
<1>4. ASSUME NEW raw \in Readings, Reuse(raw)
      PROVE  last_update' # Never /\ computed' # Never /\ computed' <= last_forced_update'
  BY <1>4 DEF Reuse, NeedsScreenshot, Forced, NoteForced, ValueNoted
<1>5. ASSUME NEW raw \in Readings, CaptureFails(raw)
      PROVE  last_update' # Never /\ computed' # Never /\ computed' <= last_forced_update'
  <2>1. /\ force_update' = Forced /\ NoteForced /\ last_update' = 0 /\ computed' = computed
    BY <1>5, Zenon DEF CaptureFails, ForceAfterFailure, UpdateOfFailed
  <2>2. ~Forced
    BY <2>1, Zenon
  <2>. QED BY <2>1, <2>2 DEF Forced, NoteForced, ValueNoted
<1>6. ASSUME NEW raw \in Readings, NEW light \in ScreenLight, NEW gain \in Gains,
             Correct(raw, light, gain)
      PROVE  last_update' # Never /\ computed' # Never /\ computed' <= last_forced_update'
  <2>1. NoteForced /\ last_update' = 0 /\ computed' \in {0, computed}
    BY <1>6 DEF Correct
  <2>2. CASE computed' = 0
    BY <2>1, <2>2 DEF NoteForced, ForcedTimeKnown, TypeOK, Ages
  <2>3. CASE computed' # 0
    <3>1. ~Forced /\ computed' = computed
      BY <1>6, <2>1, <2>3, ForcedComputes
    <3>. QED BY <2>1, <3>1 DEF Forced, NoteForced, ValueNoted
  <2>. QED BY <2>2, <2>3
<1>. QED BY <1>1, <1>2, <1>3, <1>4, <1>5, <1>6 DEF Next, Process, Capture

LEMMA CaptureNext == TypeOK /\ CaptureNoted /\ [Next]_vars => CaptureNoted'
<1> SUFFICES ASSUME TypeOK, CaptureNoted, [Next]_vars, captured' # Never
             PROVE  last_update' # Never /\ last_update' <= captured'
  BY DEF CaptureNoted
<1> USE AlsAssumption
<1>1. CASE Tick
  BY <1>1, OlderLaws DEF Tick, CaptureNoted, TypeOK
<1>2. CASE PanelChanges \/ UNCHANGED vars
  BY <1>2 DEF PanelChanges, vars, timeVars, CaptureNoted
<1>3. CASE DropTooFast
  BY <1>3 DEF DropTooFast, UpdateOfDropped, CaptureNoted
<1>4. CASE \E raw \in Readings : Reuse(raw)
  BY <1>4 DEF Reuse, CaptureNoted, TypeOK, Ages
<1>5. CASE Capture
  <2>1. last_update' = 0 /\ captured' = 0
    BY <1>5 DEF Capture, CaptureFails, Correct, UpdateOfFailed
  <2>. QED BY <2>1
<1>. QED BY <1>1, <1>2, <1>3, <1>4, <1>5 DEF Next, Process

LEMMA HysteresisNext == TypeOK /\ HysteresisFits /\ [Next]_vars => HysteresisFits'
<1> SUFFICES ASSUME TypeOK, HysteresisFits, [Next]_vars PROVE HysteresisFits'
  OBVIOUS
<1>1. CASE Tick \/ PanelChanges \/ UNCHANGED vars
  BY <1>1 DEF Tick, PanelChanges, vars, valueVars, HysteresisFits, OutsideHysteresis, BetweenRanges
<1>2. CASE DropTooFast \/ (\E raw \in Readings : Reuse(raw) \/ CaptureFails(raw))
  <2>1. outcome'.kind # "computed"
    BY <1>2 DEF DropTooFast, Reuse, CaptureFails
  <2>. QED BY <2>1 DEF HysteresisFits
<1>3. ASSUME NEW raw \in Readings, NEW light \in ScreenLight, NEW gain \in Gains,
             Correct(raw, light, gain)
      PROVE  HysteresisFits'
  <2>1. CASE Believed(Debiased(raw), light, gain)
    <3>1. /\ hyst_min' \in Int /\ hyst_max' \in Int /\ last_agc_gain' = gain
          /\ outcome' = [kind |-> "computed", reading |-> Debiased(raw)]
          /\ gain = BaseGain =>
               /\ hyst_min' <= Debiased(raw) * BaseGain \/ BetweenRanges(Debiased(raw))
               /\ Debiased(raw) * BaseGain <= hyst_max'
      BY <1>3, <2>1, CorrectComputes
    <3>2. Debiased(raw) * BaseGain \in Int
      BY AlsAssumption, DebiasedLaws
    <3>. QED BY <3>1, <3>2 DEF HysteresisFits, OutsideHysteresis, BetweenRanges
  <2>2. CASE ~Believed(Debiased(raw), light, gain)
    <3>1. outcome'.kind # "computed"
      BY <1>3, <2>2 DEF Correct
    <3>. QED BY <3>1 DEF HysteresisFits
  <2>. QED BY <2>1, <2>2
<1>. QED BY <1>1, <1>2, <1>3 DEF Next, Process, Capture
-----------------------------------------------------------------------------
(***************************************************************************)
(* Theorems.                                                               *)
(***************************************************************************)

\* The inductive invariant holds in every reachable state.
THEOREM Inductive == Spec => []IInv
<1>1. Init => IInv
  <2> SUFFICES ASSUME Init PROVE IInv
    OBVIOUS
  <2>1. TypeOK
    BY AlsAssumption DEF Init, TypeOK, Ages
  <2>2. ForcedTimeKnown /\ ValueNoted /\ CaptureNoted /\ HysteresisFits
    BY DEF Init, ForcedTimeKnown, ValueNoted, CaptureNoted, HysteresisFits
  <2>. QED BY <2>1, <2>2 DEF IInv
<1>2. IInv /\ [Next]_vars => IInv'
  BY TypesNext, ForcedTimeNext, ValueNext, CaptureNext, HysteresisNext DEF IInv
<1>. QED BY <1>1, <1>2, PTL DEF Spec

\* Every reachable state has the types of TypeOK: no negative light is reported,
\* for any readings, bias, estimates and gains.
THEOREM TypeCorrect == Spec => []TypeOK
<1>1. IInv => TypeOK
  BY DEF IInv
<1>. QED BY Inductive, <1>1, PTL

\* The limits fit the reading they were computed from, for every reading, gain,
\* and estimate of the screen's light, but for readings between none and one lux.
THEOREM LimitsFit == Spec => []HysteresisFits
<1>1. IInv => HysteresisFits
  BY DEF IInv
<1>. QED BY Inductive, <1>1, PTL

\* A reused value exists, and while the panel is lit it was computed within the
\* interval of forced screenshots, for any intervals and through any failures.
THEOREM ReuseIsFresh == Spec => ReusedFresh
<1>1. IInv /\ [Next]_vars =>
        [Process /\ outcome'.kind = "reused" =>
           computed # Never /\ (Lit => computed <= ForceInterval)]_vars
  <2> SUFFICES ASSUME IInv, Process, outcome'.kind = "reused"
               PROVE  computed # Never /\ (Lit => computed <= ForceInterval)
    OBVIOUS
  <2>1. ~Forced
    <3>1. CASE \E raw \in Readings : Reuse(raw)
      BY <3>1 DEF Reuse, NeedsScreenshot
    <3>2. CASE DropTooFast \/ \E raw \in Readings : CaptureFails(raw)
      BY <3>2 DEF DropTooFast, CaptureFails
    <3>3. ASSUME NEW raw \in Readings, NEW light \in ScreenLight, NEW gain \in Gains,
                 Correct(raw, light, gain)
          PROVE  ~Forced
      BY <3>3 DEF Correct, Believed
    <3>. QED BY <3>1, <3>2, <3>3 DEF Process, Capture
  <2>2. /\ last_update # Never /\ computed # Never /\ last_forced_update # Never
        /\ computed <= last_forced_update
    BY <2>1 DEF Forced, IInv, ValueNoted, ForcedTimeKnown
  <2>3. computed \in Int /\ last_forced_update \in Int /\ ForceInterval \in Int
    BY <2>2, AlsAssumption DEF IInv, TypeOK, Ages, Old
  <2>4. Lit => last_forced_update <= ForceInterval
    BY <2>1, <2>2, <2>3 DEF Forced, ForceDue
  <2>. QED BY <2>2, <2>3, <2>4
<1>. QED BY Inductive, <1>1, PTL DEF Spec, ReusedFresh

\* The service is not asked more often than once in the shortest interval,
\* however fast the sensor reports and whichever screenshots fail.
THEOREM CapturesApart == Spec => CapturesSpaced
<1>1. IInv /\ [Next]_vars => [Capture => captured = Never \/ captured >= MinInterval]_vars
  <2> SUFFICES ASSUME IInv, Capture, captured # Never
               PROVE  captured >= MinInterval
    OBVIOUS
  <2>1. last_update # Never /\ last_update <= captured
    BY DEF IInv, CaptureNoted
  <2>2. last_update \in Int /\ captured \in Int /\ MinInterval \in Int
    BY <2>1, AlsAssumption DEF IInv, TypeOK, Ages, Old
  <2>3. ~TooFast
    BY DEF Capture, CaptureFails, Correct
  <2>. QED BY <2>1, <2>2, <2>3 DEF TooFast
<1>. QED BY Inductive, <1>1, PTL DEF Spec, CapturesSpaced
=============================================================================
