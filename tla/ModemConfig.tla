---------------------------- MODULE ModemConfig ----------------------------
(***************************************************************************)
(* The copy of the modem's configuration to /data/vendor/modem_config      *)
(* (init/init.qcom.sh, started by init/init.qcom.rc).  At each boot the    *)
(* script compares the version it copied last with the firmware's, copies  *)
(* everything anew if they differ, and has init set the flag the radio     *)
(* daemon waits for.  The script goes on after a command that fails, and   *)
(* nothing syncs: the device may be reset after any step, with any of the  *)
(* files not yet on the disk, and the next boot may be of other firmware.  *)
(*                                                                         *)
(* A file is the firmware version it was copied from; one that is torn is  *)
(* as good as none.                                                        *)
(***************************************************************************)
EXTENDS Integers

CONSTANTS Versions,     \* of the firmware
          Unversioned,  \* those of them without a ver_info.txt
          Configs,      \* mcfg/configs/*
          NoFile,
          MaxResets     \* bound: resets

Files == Configs \cup {"ver_info", "mbn_ota"}

ASSUME ModemAssumption ==
  /\ Unversioned \subseteq Versions /\ NoFile \notin Versions /\ MaxResets \in Nat
  /\ Configs \cap {"ver_info", "mbn_ota"} = {}

VARIABLES
  firmware,       \* mounted at /vendor/firmware_mnt
  dir, disk,      \* the directory, and what of it is on the disk
  pc, todo,       \* the next step of the boot; the files it still has to do
  copy_complete,  \* /data/vendor/radio/copy_complete
  resets          \* counter for the bound

\* Ghost: what has happened to the files since the last copy began.
VARIABLE flaws

vars == <<firmware, dir, disk, pc, todo, copy_complete, resets, flaws>>

Init ==
  /\ firmware \in Versions
  /\ dir = [f \in Files |-> NoFile] /\ disk = dir
  /\ pc = "post-fs-data" /\ todo = {} /\ copy_complete = FALSE
  /\ resets = 0 /\ flaws = {}

Goto(step) == pc' = step /\ UNCHANGED <<firmware, disk, resets>>
-----------------------------------------------------------------------------
(* init: the flag is cleared before any service of the boot runs.          *)

\* Mutant: the flag keeps what the boot before left in it.
ClearedFlagKept == copy_complete

ClearedFlag == FALSE

PostFsData ==
  /\ pc = "post-fs-data" /\ Goto("compare")
  /\ copy_complete' = ClearedFlag
  /\ UNCHANGED <<dir, todo, flaws>>
-----------------------------------------------------------------------------
(* The script.                                                             *)

\* Mutant: that there is a ver_info is enough.
UpToDateIfAny == dir["ver_info"] # NoFile

\* The version that was copied is that of the firmware.
UpToDate == firmware \notin Unversioned /\ dir["ver_info"] = firmware

\* Mutant: the property is only set after a copy.
AfterSkip == "done"

\* Where the script goes on if there is nothing to copy.
AfterCompare == "setprop"

Compare ==
  /\ pc = "compare"
  /\ Goto(IF UpToDate THEN AfterCompare ELSE "remove")
  /\ flaws' = IF UpToDate THEN flaws ELSE {}
  /\ todo' = IF UpToDate THEN todo ELSE {f \in Files : dir[f] # NoFile}
  /\ UNCHANGED <<dir, copy_complete>>

\* rm -rf, file by file in any order; one that it cannot remove stays.  That
\* matters of ver_info, which is not always written anew.
Remove(f, ok) ==
  /\ pc = "remove" /\ f \in todo
  /\ dir' = (IF ok THEN [dir EXCEPT ![f] = NoFile] ELSE dir)
  /\ flaws' = IF ok \/ f # "ver_info" THEN flaws ELSE flaws \cup {"failed"}
  /\ todo' = todo \ {f} /\ Goto(pc)
  /\ UNCHANGED copy_complete

\* Mutant: ver_info is there before the configs.
RemovedAndMarked == [dir EXCEPT !["ver_info"] = firmware]

\* The directory as rm -rf leaves it.
Removed == dir

StartCopy ==
  /\ pc = "remove" /\ todo = {}
  /\ dir' = Removed
  /\ todo' = Configs /\ Goto("configs")
  /\ UNCHANGED <<copy_complete, flaws>>

\* cp of one file; one that fails, unnoticed, leaves none or what was there.
Copy(f, left) ==
  /\ left \in {firmware, NoFile, dir[f]}
  /\ dir' = [dir EXCEPT ![f] = left]
  /\ flaws' = IF left = firmware THEN flaws ELSE flaws \cup {"failed"}
  /\ UNCHANGED copy_complete

\* cp -r of the configs, file by file in any order.
CopyConfig(f, left) ==
  /\ pc = "configs" /\ f \in todo
  /\ Copy(f, left) /\ todo' = todo \ {f} /\ Goto(pc)

CopyVerInfo(left) ==
  /\ pc = "configs" /\ todo = {} /\ firmware \notin Unversioned
  /\ Copy("ver_info", left) /\ UNCHANGED todo /\ Goto("mbn_ota")

\* There is none to copy; the next boot will copy everything again.
CopyNoVerInfo ==
  /\ pc = "configs" /\ todo = {} /\ firmware \in Unversioned
  /\ Goto("mbn_ota") /\ UNCHANGED <<dir, todo, copy_complete, flaws>>

CopyMbnOta(left) ==
  /\ pc = "mbn_ota"
  /\ Copy("mbn_ota", left) /\ UNCHANGED todo /\ Goto("setprop")

\* setprop ro.vendor.ril.mbn_copy_completed 1
SetProp ==
  /\ pc = "setprop" /\ Goto("trigger")
  /\ UNCHANGED <<dir, todo, copy_complete, flaws>>

\* init, on that property: the flag is set.
CopyCompleted ==
  /\ pc = "trigger" /\ Goto("done")
  /\ copy_complete' = TRUE
  /\ UNCHANGED <<dir, todo, flaws>>
-----------------------------------------------------------------------------
(* The file system and resets.                                             *)

WriteBack(f) ==
  /\ disk[f] # dir[f]
  /\ disk' = [disk EXCEPT ![f] = dir[f]]
  /\ UNCHANGED <<firmware, dir, pc, todo, copy_complete, resets, flaws>>

\* What a reset at this moment does to the files, if it leaves a ver_info.
FlawsOfReset ==
  IF disk["ver_info"] = NoFile THEN {}
  ELSE (IF dir # disk THEN {"lost"} ELSE {})
         \cup (IF pc = "remove" THEN {"half removed"} ELSE {})
         \cup (IF pc = "mbn_ota" THEN {"no mbn_ota"} ELSE {})

\* The device starts again, perhaps with other firmware; of the flag, too, an
\* earlier value may be the one on the disk.
Reset(v, flag) ==
  /\ resets < MaxResets /\ resets' = resets + 1
  /\ firmware' = v /\ dir' = disk /\ copy_complete' = flag
  /\ pc' = "post-fs-data" /\ todo' = {}
  /\ flaws' = flaws \cup FlawsOfReset
  /\ UNCHANGED disk
-----------------------------------------------------------------------------
Script ==
  \/ Compare
  \/ \E f \in Files, ok \in BOOLEAN : Remove(f, ok)
  \/ StartCopy
  \/ \E left \in Versions \cup {NoFile} :
       (\E f \in Configs : CopyConfig(f, left)) \/ CopyVerInfo(left) \/ CopyMbnOta(left)
  \/ CopyNoVerInfo
  \/ SetProp

Boot == PostFsData \/ Script \/ CopyCompleted

Next ==
  \/ Boot
  \/ \E f \in Files : WriteBack(f)
  \/ \E v \in Versions, flag \in BOOLEAN : Reset(v, flag)

Spec == Init /\ [][Next]_vars

\* init and the script go on; nothing is assumed of the disk.
FairSpec == Spec /\ WF_vars(Boot)
-----------------------------------------------------------------------------
Steps == {"post-fs-data", "compare", "remove", "configs", "mbn_ota", "setprop", "trigger", "done"}

Flaws == {"failed", "lost", "half removed", "no mbn_ota"}

\* Every variable has its type.
TypeOK ==
  /\ firmware \in Versions
  /\ dir \in [Files -> Versions \cup {NoFile}] /\ disk \in [Files -> Versions \cup {NoFile}]
  /\ pc \in Steps /\ todo \subseteq Files /\ copy_complete \in BOOLEAN
  /\ resets \in 0..MaxResets /\ flaws \subseteq Flaws

\* The radio daemon, which is started after post-fs-data and waits for the flag,
\* never reads the configs while the script still works on them: a flag that is
\* set is of this boot and comes after the last copy.
FlagOfThisBoot == copy_complete /\ pc # "post-fs-data" => pc = "done"

\* Once the flag is set the configs are those of the firmware that runs, through
\* updates, rollbacks and resets, also one in the middle of the copy: ver_info is
\* written after the configs.  What can go wrong since the last copy began is a cp
\* that failed, or the removal of ver_info, a reset that finds ver_info on the disk
\* but not all of the rest, and one that cuts off a removal before a return to the
\* firmware it was removing.
ConfigsCurrent ==
  pc = "done" /\ flaws \subseteq {"no mbn_ota"} => \A f \in Configs : dir[f] = firmware

\* The same of mbn_ota, which is also left out for good by a reset between the
\* copy of ver_info and its own.
MbnOtaCurrent == pc = "done" /\ flaws = {} => dir["mbn_ota"] = firmware

\* Once no reset comes any more the flag is set: the radio does not wait for ever.
FlagEventuallySet == <>[](copy_complete /\ pc = "done")
=============================================================================
