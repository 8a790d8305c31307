------------------------------ MODULE MCEfiBoot ------------------------------
(***************************************************************************)
(* The boots the model-checked instance starts from; one unit of address   *)
(* is 1 GiB.  A boot that finds the card unlocked already goes straight to *)
(* the resize: these cover every platform.  The others differ in what the  *)
(* card does, or in what the disks hold.                                   *)
(***************************************************************************)
EXTENDS EfiBoot

CONSTANTS Esp, Stick

MCStockWindows == {[base |-> 40, limit |-> 43], [base |-> 22, limit |-> 27],
                   [base |-> 64, limit |-> 81]}

MCMemoryMaps == {{}, 0 .. 5, 0 .. 9 \cup {30}, 0 .. 17 \cup {110}}

MCOtherWindows == {{}, {12}, 28 .. 31, {18, 19, 60}}

MCVolumes == {Esp, Stick}

UsualDisk == loader = [v \in Volumes |-> IF v = Own THEN "none" ELSE "windows"]

UsualPlatform ==
    /\ memmap = 0 .. 9 \cup {30} /\ others = {12}
    /\ size3 = 1 /\ Base(reg) = 40 /\ reg.bar1 = 40 /\ reg.bar3 = 42

UsualCard == sec2.cpu = "halted" /\ sec2.mbox = "code"

ResizeBoots == unlocked /\ UsualCard /\ UsualDisk

UnlockBoots == ~ unlocked /\ UsualPlatform /\ UsualDisk

DiskBoots == unlocked /\ UsualCard /\ UsualPlatform

MCInit == BootInit /\ (ResizeBoots \/ UnlockBoots \/ DiskBoots)

MCSpec ==
    /\ MCInit
    /\ [][BootNext]_allVars
    /\ WF_allVars(Application) /\ WF_allVars(Tick)
=============================================================================
