------------------------- MODULE ModemConfig_proofs -------------------------
(* What holds of the copy of the modem's configuration for any firmware     *)
(* versions, any set of configs and any number of resets.                   *)
EXTENDS ModemConfig, TLAPS

(***************************************************************************)
(* The inductive invariant.  The comparison at the next boot looks at      *)
(* ver_info alone: that is enough because ver_info stands for the configs  *)
(* from before the first step of a copy to after the last.                 *)
(***************************************************************************)
CopySteps == {"mbn_ota", "setprop", "trigger", "done"}

\* While nothing went wrong, a ver_info vouches for all configs ...
VerInfoVouches ==
  pc # "remove" /\ flaws \subseteq {"no mbn_ota"} /\ dir["ver_info"] # NoFile =>
    \A f \in Configs : dir[f] = dir["ver_info"]

\* ... and for mbn_ota, except between the two copies.
VerInfoVouchesMbnOta ==
  pc \notin {"remove", "mbn_ota"} /\ flaws = {} /\ dir["ver_info"] # NoFile =>
    dir["mbn_ota"] = dir["ver_info"]

\* How far the copy is.
CopyInStep ==
  /\ flaws \subseteq {"no mbn_ota"} =>
       /\ pc = "remove" => dir["ver_info"] = NoFile \/ "ver_info" \in todo
       /\ pc = "configs" => dir["ver_info"] = NoFile
       /\ pc = "mbn_ota" => dir["ver_info"] \in {NoFile, firmware}
       /\ pc = "configs" => \A f \in Configs \ todo : dir[f] = firmware
       /\ pc \in CopySteps => \A f \in Configs : dir[f] = firmware
  /\ pc \in CopySteps \ {"mbn_ota"} /\ flaws = {} => dir["mbn_ota"] = firmware

IInv ==
  /\ TypeOK /\ FlagOfThisBoot
  /\ VerInfoVouches /\ VerInfoVouchesMbnOta /\ CopyInStep

LEMMA InvInit == Init => IInv
<1> SUFFICES ASSUME Init PROVE IInv
  OBVIOUS
<1>1. dir["ver_info"] = NoFile
  BY DEF Init, Files
<1>2. copy_complete \in BOOLEAN
  BY Zenon DEF Init
<1>. QED
  BY <1>1, <1>2, ModemAssumption
  DEF Init, IInv, TypeOK, Steps, FlagOfThisBoot, VerInfoVouches, VerInfoVouchesMbnOta,
      CopyInStep, CopySteps
-----------------------------------------------------------------------------
\* A reset keeps within the bound.
LEMMA ResetsBounded ==
  ASSUME TypeOK, resets < MaxResets
  PROVE  resets + 1 \in 0..MaxResets
BY ModemAssumption DEF TypeOK

\* Every step keeps the types.
LEMMA TypeStep == TypeOK /\ [Next]_vars => TypeOK'
<1> SUFFICES ASSUME TypeOK, [Next]_vars PROVE TypeOK'
  OBVIOUS
<1> USE ModemAssumption DEF TypeOK, Steps, Flaws, Goto
<1>1. CASE PostFsData
  BY <1>1 DEF PostFsData, ClearedFlag
<1>2. CASE Compare
  BY <1>2 DEF Compare, AfterCompare
<1>3. ASSUME NEW f \in Files, NEW ok \in BOOLEAN, Remove(f, ok) PROVE TypeOK'
  BY <1>3 DEF Remove
<1>4. CASE StartCopy
  <2>1. Configs \subseteq Files
    BY DEF Files
  <2>. QED BY <1>4, <2>1 DEF StartCopy, Removed
<1>5. ASSUME NEW left, NEW f \in Configs, CopyConfig(f, left) PROVE TypeOK'
  BY <1>5 DEF CopyConfig, Copy, Files
<1>6. ASSUME NEW left, CopyVerInfo(left) \/ CopyMbnOta(left) PROVE TypeOK'
  <2>1. dir' \in [Files -> Versions \cup {NoFile}]
    <3>1. PICK f \in {"ver_info", "mbn_ota"} : Copy(f, left)
      BY <1>6 DEF CopyVerInfo, CopyMbnOta
    <3>2. f \in Files /\ left \in Versions \cup {NoFile}
      BY <3>1 DEF Copy, Files
    <3>. QED BY <3>1, <3>2 DEF Copy
  <2>2. flaws' \subseteq Flaws
    BY <1>6 DEF CopyVerInfo, CopyMbnOta, Copy
  <2>3. CASE CopyVerInfo(left)
    BY <2>1, <2>2, <2>3 DEF CopyVerInfo, Copy
  <2>4. CASE CopyMbnOta(left)
    BY <2>1, <2>2, <2>4 DEF CopyMbnOta, Copy
  <2>. QED BY <1>6, <2>3, <2>4
<1>7. CASE CopyNoVerInfo \/ SetProp
  BY <1>7 DEF CopyNoVerInfo, SetProp
<1>8. CASE CopyCompleted
  BY <1>8 DEF CopyCompleted
<1>9. ASSUME NEW f \in Files, WriteBack(f) PROVE TypeOK'
  BY <1>9 DEF WriteBack
<1>10. ASSUME NEW v \in Versions, NEW flag \in BOOLEAN, Reset(v, flag) PROVE TypeOK'
  <2>1. copy_complete' \in BOOLEAN
    BY <1>10, Zenon DEF Reset
  <2>2. FlawsOfReset \subseteq Flaws
    BY DEF FlawsOfReset
  <2>3. resets' \in 0..MaxResets
    BY <1>10, ResetsBounded DEF Reset
  <2>. QED BY <1>10, <2>1, <2>2, <2>3 DEF Reset
<1>11. CASE UNCHANGED vars
  BY <1>11 DEF vars
<1>. QED
  BY <1>1, <1>2, <1>3, <1>4, <1>5, <1>6, <1>7, <1>8, <1>9, <1>10, <1>11 DEF Next, Boot, Script

\* No step of the script comes after the flag is set.
LEMMA FlagStep == FlagOfThisBoot /\ [Next]_vars => FlagOfThisBoot'
<1> SUFFICES ASSUME FlagOfThisBoot, [Next]_vars PROVE FlagOfThisBoot'
  OBVIOUS
<1>1. CASE Boot
  BY <1>1
  DEF Boot, Script, PostFsData, ClearedFlag, Compare, Remove, StartCopy, CopyConfig, CopyVerInfo,
      CopyMbnOta, Copy, CopyNoVerInfo, SetProp, CopyCompleted, Goto, FlagOfThisBoot
<1>2. CASE ~Boot
  BY <1>2 DEF Next, WriteBack, Reset, vars, FlagOfThisBoot
<1>. QED BY <1>1, <1>2
-----------------------------------------------------------------------------
\* What a reset finds on the disk when it did no damage: no ver_info, or all files
\* as the script last left them.
LEMMA ResetKeepsFiles ==
  ASSUME NEW v, NEW flag, Reset(v, flag),
         flaws' \subseteq {"no mbn_ota"}, dir'["ver_info"] # NoFile
  PROVE  /\ dir' = dir /\ pc # "remove" /\ flaws \subseteq {"no mbn_ota"}
         /\ flaws' = {} => flaws = {} /\ pc # "mbn_ota"
<1>1. FlawsOfReset \subseteq flaws' /\ flaws \subseteq flaws' /\ dir' = disk
  BY DEF Reset
<1>2. /\ dir # disk => "lost" \in FlawsOfReset
      /\ pc = "remove" => "half removed" \in FlawsOfReset
      /\ pc = "mbn_ota" => "no mbn_ota" \in FlawsOfReset
  BY <1>1 DEF FlawsOfReset
<1>. QED BY <1>1, <1>2

\* Every step of a boot keeps the invariant of the files.
LEMMA BootKeepsFiles ==
  ASSUME IInv, Boot
  PROVE  VerInfoVouches' /\ VerInfoVouchesMbnOta' /\ CopyInStep'
<1> USE ModemAssumption
    DEF IInv, TypeOK, Steps, VerInfoVouches, VerInfoVouchesMbnOta, CopyInStep, CopySteps, Goto
<1>1. CASE PostFsData
  BY <1>1 DEF PostFsData
<1>2. CASE Compare
  <2>1. CASE UpToDate
    BY <1>2, <2>1 DEF Compare, AfterCompare, UpToDate
  <2>2. CASE ~UpToDate
    <3>1. "ver_info" \in Files
      BY DEF Files
    <3>2. dir'["ver_info"] # NoFile => "ver_info" \in todo'
      BY <1>2, <2>2, <3>1 DEF Compare
    <3>. QED BY <1>2, <2>2, <3>2 DEF Compare
  <2>. QED BY <2>1, <2>2
<1>3. ASSUME NEW f \in Files, NEW ok \in BOOLEAN, Remove(f, ok)
      PROVE  VerInfoVouches' /\ VerInfoVouchesMbnOta' /\ CopyInStep'
  <2>1. pc' = "remove" /\ pc = "remove" /\ todo' = todo \ {f}
    BY <1>3 DEF Remove
  <2>2. ASSUME flaws' \subseteq {"no mbn_ota"}
        PROVE  dir'["ver_info"] = NoFile \/ "ver_info" \in todo'
    BY <1>3, <2>2 DEF Remove, Files
  <2>. QED BY <2>1, <2>2
<1>4. CASE StartCopy
  BY <1>4 DEF StartCopy, Removed
<1>5. ASSUME NEW left, NEW f \in Configs, CopyConfig(f, left)
      PROVE  VerInfoVouches' /\ VerInfoVouchesMbnOta' /\ CopyInStep'
  <2>1. dir'["ver_info"] = dir["ver_info"]
    BY <1>5 DEF CopyConfig, Copy, Files
  <2>2. flaws' \subseteq {"no mbn_ota"} => left = firmware /\ flaws' = flaws
    BY <1>5 DEF CopyConfig, Copy
  <2>3. ASSUME flaws' \subseteq {"no mbn_ota"}, NEW g \in Configs \ todo' PROVE dir'[g] = firmware
    BY <1>5, <2>2, <2>3 DEF CopyConfig, Copy, Files
  <2>. QED BY <1>5, <2>1, <2>2, <2>3 DEF CopyConfig
<1>6. ASSUME NEW left, CopyVerInfo(left)
      PROVE  VerInfoVouches' /\ VerInfoVouchesMbnOta' /\ CopyInStep'
  <2>1. dir'["ver_info"] = left /\ \A f \in Configs : dir'[f] = dir[f]
    BY <1>6 DEF CopyVerInfo, Copy, Files
  <2>2. flaws' \subseteq {"no mbn_ota"} => left = firmware /\ flaws \subseteq {"no mbn_ota"}
    BY <1>6 DEF CopyVerInfo, Copy
  <2>. QED BY <1>6, <2>1, <2>2 DEF CopyVerInfo
<1>7. CASE CopyNoVerInfo
  BY <1>7 DEF CopyNoVerInfo
<1>8. ASSUME NEW left, CopyMbnOta(left)
      PROVE  VerInfoVouches' /\ VerInfoVouchesMbnOta' /\ CopyInStep'
  <2>1. /\ dir'["ver_info"] = dir["ver_info"] /\ \A f \in Configs : dir'[f] = dir[f]
        /\ dir'["mbn_ota"] = left
    BY <1>8 DEF CopyMbnOta, Copy, Files
  <2>2. flaws' \subseteq {"no mbn_ota"} => left = firmware /\ flaws' = flaws
    BY <1>8 DEF CopyMbnOta, Copy
  <2>. QED BY <1>8, <2>1, <2>2 DEF CopyMbnOta
<1>9. CASE SetProp
  BY <1>9 DEF SetProp
<1>10. CASE CopyCompleted
  BY <1>10 DEF CopyCompleted
<1>. QED
  BY <1>1, <1>2, <1>3, <1>4, <1>5, <1>6, <1>7, <1>8, <1>9, <1>10 DEF Boot, Script

\* Every step keeps the invariant.
LEMMA InvStep == IInv /\ [Next]_vars => IInv'
<1> SUFFICES ASSUME IInv, [Next]_vars PROVE IInv'
  OBVIOUS
<1>1. TypeOK' /\ FlagOfThisBoot'
  BY TypeStep, FlagStep DEF IInv
<1>2. CASE Boot
  BY <1>1, <1>2, BootKeepsFiles DEF IInv
<1>3. ASSUME NEW f \in Files, WriteBack(f) PROVE IInv'
  BY <1>1, <1>3 DEF WriteBack, IInv, VerInfoVouches, VerInfoVouchesMbnOta, CopyInStep
<1>4. ASSUME NEW v \in Versions, NEW flag \in BOOLEAN, Reset(v, flag) PROVE IInv'
  <2>1. VerInfoVouches' /\ VerInfoVouchesMbnOta'
    BY <1>4, ResetKeepsFiles DEF IInv, VerInfoVouches, VerInfoVouchesMbnOta
  <2>2. CopyInStep'
    BY <1>4 DEF Reset, CopyInStep, CopySteps
  <2>. QED BY <1>1, <2>1, <2>2 DEF IInv
<1>5. CASE UNCHANGED vars
  BY <1>1, <1>5 DEF vars, IInv, VerInfoVouches, VerInfoVouchesMbnOta, CopyInStep
<1>. QED BY <1>2, <1>3, <1>4, <1>5 DEF Next

\* The invariant holds of every boot of every device.
THEOREM Inductive == Spec => []IInv
<1>. QED BY InvInit, InvStep, PTL DEF Spec

\* The flag the radio daemon waits for is never left over from another boot, nor
\* set before the script is done (init.qcom.rc clears it in post-fs-data).
THEOREM FlagFresh == Spec => []FlagOfThisBoot
<1>1. IInv => FlagOfThisBoot
  BY DEF IInv
<1>. QED BY <1>1, Inductive, PTL

\* Whatever firmware the device boots, and wherever a reset cuts the copy off, the
\* configs are those of the firmware once the flag is set, but for the named
\* flaws (init.qcom.sh copies ver_info after the configs).
THEOREM ConfigsFollowFirmware == Spec => []ConfigsCurrent
<1>1. IInv => ConfigsCurrent
  BY DEF IInv, ConfigsCurrent, CopyInStep, CopySteps
<1>. QED BY <1>1, Inductive, PTL

\* The same of mbn_ota, copied last, where no reset came between the two copies.
THEOREM MbnOtaFollowsFirmware == Spec => []MbnOtaCurrent
<1>1. IInv => MbnOtaCurrent
  BY DEF IInv, MbnOtaCurrent, CopyInStep, CopySteps
<1>. QED BY <1>1, Inductive, PTL
=============================================================================
