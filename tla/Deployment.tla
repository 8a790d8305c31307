------------------------------- MODULE Deployment ------------------------------
(***************************************************************************)
(* What installing and uninstalling do to the way a machine boots: the     *)
(* unlock EFI in its own directory and in the fallback slot                *)
(* \EFI\Boot\bootx64.efi, the backup of what was in that slot, the firmware *)
(* boot entry, and the registry value that makes the driver accept an      *)
(* unlocked GPU.  A step is one file operation or one call of bcdedit or   *)
(* mountvol; a process may be killed (or the power fail) between any two,  *)
(* and any of them may fail.  Tasks, drivers and policies are not part of  *)
(* this module.                                                            *)
(***************************************************************************)
EXTENDS Integers

CONSTANTS
    Tools,           \* processes of 40HXInstaller and 40HXUninstaller
    Versions,        \* releases of the unlock EFI
    Guids,           \* bound: identifiers of boot entries
    OneAtATime,      \* the user lets one of them end before the next begins
    Troubles,        \* bound: calls that fail
    Kills,           \* bound: killed processes
    Repairs          \* bound: Windows writes its loader into the slot again

None == "none"
Windows == "windows"

ASSUME ToolsAreNew == None \notin Tools
ASSUME GuidsAreNew == Guids \cap {None, Windows} = {}
ASSUME VersionsAreNew == Versions \cap {None, Windows, "torn"} = {}
ASSUME OneAtATimeIsBoolean == OneAtATime \in BOOLEAN
ASSUME BoundsAreNatural == {Troubles, Kills, Repairs} \subseteq Nat

VARIABLES
    file,            \* contents of the three files on the ESP
    entry,           \* how far each boot entry of the tools is set up
    top,             \* first in the firmware's display order
    behind,          \* the tools' entry next to Windows Boot Manager, if that
                     \* is the first
    gsp,             \* EnableGpuFirmware = 1
    pc, job, ver,    \* of each tool: place, job, release embedded in it
    guid,            \* of each tool: the entry it created
    buf,             \* of each tool: the backup as the uninstaller read it
    told,            \* of each tool: what it last told the user
    lock,            \* the two named mutexes of lockOnce
    had,             \* there was a loader in the slot before the first install
    bare,            \* the user deployed the EFI without enabling GSP
    stuck,           \* a clean-up after a failed call failed itself
    blind,           \* a file in or beside the slot was there and not seen
    missed,          \* the last look for leftovers passed over a file
    troubles, kills, repairs

tool == <<job, ver, guid, buf, told, lock>>
counts == <<troubles, kills, repairs>>
history == <<had, bare, stuck, blind, missed, kills, repairs>>
vars == <<file, entry, top, behind, gsp, pc, tool, history, troubles>>

Contents == {None, Windows, "torn"} \cup Versions
Installing == {"gsp", "mount", "openMain", "writeMain", "dropMain", "stat",
               "compare", "rename", "openBoot", "writeBoot", "dropBoot", "enum",
               "copy", "mountAgain", "device", "path", "first", "undo", "verify"}
Removing == {"delete", "mountEsp", "removeMain", "readBak", "openStd",
             "writeStd", "checkStd", "removeBak", "gspKey", "leftover"}

Entries == {g \in Guids : entry[g] # None}

(* What may be second if t is first.                                       *)
Behind(entries, t) == IF t = Windows THEN entries \cup {None} ELSE {None}

OrderOK == top \in Entries \cup {Windows} /\ behind \in Behind(Entries, top)

TypeOK ==
    /\ file \in [{"main", "boot", "bak"} -> Contents]
    /\ entry \in [Guids -> {None, "copied", "device", "unlock"}]
    /\ OrderOK
    /\ gsp \in BOOLEAN
    /\ pc \in [Tools -> Installing \cup Removing \cup {"idle"}]
    /\ job \in [Tools -> {"install", "component", "uninstall"}]
    /\ ver \in [Tools -> Versions]
    /\ guid \in [Tools -> Guids \cup {None}]
    /\ buf \in [Tools -> Contents]
    /\ told \in [Tools -> {None, "verified", "manual", "failed", "removed",
                           "leftover"}]
    /\ lock \in [{"install", "uninstall"} -> Tools \cup {None}]
    /\ {had, bare, stuck, blind, missed} \subseteq BOOLEAN
    /\ troubles \in 0 .. Troubles /\ kills \in 0 .. Kills
    /\ repairs \in 0 .. Repairs

(* A machine the tools have never run on; its slot may be empty.           *)
Init ==
    /\ \E b \in {None, Windows} :
          /\ file = [main |-> None, boot |-> b, bak |-> None]
          /\ had = (b = Windows)
    /\ entry = [g \in Guids |-> None] /\ top = Windows /\ behind = None
    /\ gsp \in BOOLEAN
    /\ pc = [p \in Tools |-> "idle"]
    /\ job = [p \in Tools |-> "install"]
    /\ ver \in [Tools -> Versions]
    /\ guid = [p \in Tools |-> None]
    /\ buf = [p \in Tools |-> None]
    /\ told = [p \in Tools |-> None]
    /\ lock = [l \in {"install", "uninstall"} |-> None]
    /\ bare = FALSE /\ stuck = FALSE /\ blind = FALSE
    /\ missed = FALSE /\ troubles = 0 /\ kills = 0 /\ repairs = 0

-----------------------------------------------------------------------------
Quiet == \A p \in Tools : pc[p] = "idle"
Go(p, at, next) == pc[p] = at /\ pc' = [pc EXCEPT ![p] = next]
Tell(p, at, what) ==
    Go(p, at, "idle") /\ told' = [told EXCEPT ![p] = what]
Set(f, c) == file' = [file EXCEPT ![f] = c]

(* One more call fails.                                                    *)
Trouble == troubles < Troubles /\ troubles' = troubles + 1

firmware == <<entry, top, behind>>
silent == <<job, ver, guid, buf, lock>>

(* os.WriteFile truncates the file and fills it.  A file that could not be *)
(* filled is torn.                                                         *)
Truncate(p, at, f, next, failed) ==
    \/ Go(p, at, next) /\ Set(f, "torn") /\ UNCHANGED troubles
    \/ Go(p, at, failed) /\ Trouble /\ UNCHANGED file
Fill(p, at, f, c, next, failed) ==
    \/ Go(p, at, next) /\ Set(f, c) /\ UNCHANGED troubles
    \/ Go(p, at, failed) /\ Trouble /\ UNCHANGED file
OnDisk == UNCHANGED <<firmware, gsp, tool, history>>

-----------------------------------------------------------------------------
(* Installing.  The full installation takes a mutex which it keeps until   *)
(* its process ends; the component page of the GUI takes none.             *)
Begin(p, j) ==
    /\ pc[p] = "idle" /\ (OneAtATime => Quiet)
    /\ job' = [job EXCEPT ![p] = j]
    /\ told' = [q \in Tools |-> None]
    /\ guid' = [guid EXCEPT ![p] = None] /\ buf' = [buf EXCEPT ![p] = None]
    /\ missed' = FALSE
    /\ UNCHANGED <<file, firmware, gsp, had, stuck, blind, counts>>

(* It may stop at a question or a check, and keeps the mutex all the same.  *)
BeginInstall(p) ==
    /\ Begin(p, "install") /\ \E at \in {"gsp", "idle"} : Go(p, "idle", at)
    /\ lock["install"] = None /\ lock' = [lock EXCEPT !["install"] = p]
    /\ \E v \in Versions : ver' = [ver EXCEPT ![p] = v]
    /\ UNCHANGED bare

BeginComponent(p) ==
    /\ Begin(p, "component")
    /\ \E v \in Versions : ver' = [ver EXCEPT ![p] = v]
    /\ \/ Go(p, "idle", "gsp") /\ UNCHANGED bare
       \/ Go(p, "idle", "mount") /\ bare' = TRUE
    /\ UNCHANGED lock

(* Without GSP the full installation stops; the component page goes on.    *)
EnableGsp(p) ==
    /\ \/ /\ gsp' = TRUE
          /\ Go(p, "gsp", "mount") /\ UNCHANGED <<told, troubles>>
       \/ /\ Trouble /\ UNCHANGED gsp
          /\ IF job[p] = "install"
             THEN Tell(p, "gsp", "failed")
             ELSE Go(p, "gsp", "mount") /\ UNCHANGED told
    /\ UNCHANGED <<file, firmware, silent, history>>

Mount(p) ==
    /\ \/ Go(p, "mount", "openMain") /\ UNCHANGED <<told, troubles>>
       \/ Tell(p, "mount", "failed") /\ Trouble
    /\ UNCHANGED <<file, firmware, gsp, silent, history>>

OpenMain(p) == Truncate(p, "openMain", "main", "writeMain", "dropMain") /\ OnDisk
WriteMain(p) == Fill(p, "writeMain", "main", ver[p], "stat", "dropMain") /\ OnDisk

(* After a failed write the file is removed, and the deployment given up.  *)
Drop(p, at, f) ==
    /\ Tell(p, at, "failed")
    /\ \/ Set(f, None) /\ UNCHANGED <<stuck, troubles>>
       \/ Trouble /\ stuck' = TRUE /\ UNCHANGED file
    /\ UNCHANGED <<firmware, gsp, silent, had, bare, blind, missed, kills, repairs>>
DropMain(p) == Drop(p, "dropMain", "main")

(* A file that is there and cannot be read is taken for absent.            *)
Overlook == Trouble /\ blind' = TRUE
Slot == <<firmware, gsp, silent, had, bare, stuck, missed, kills, repairs>>

(* Mutant: no look for an earlier backup.                                  *)
StatMutant(p) ==
    Go(p, "stat", "compare") /\ UNCHANGED <<file, Slot, told, troubles, blind>>

(* Without a backup, what is in the slot is backed up unless it is what is *)
(* about to be written; with one, it is overwritten.                       *)
Stat(p) ==
    /\ \/ /\ Go(p, "stat", IF file["bak"] = None THEN "compare" ELSE "openBoot")
          /\ UNCHANGED <<told, troubles, blind>>
       \/ file["bak"] # None /\ Go(p, "stat", "compare") /\ Overlook /\ UNCHANGED told
       \/ Tell(p, "stat", "failed") /\ Trouble /\ UNCHANGED blind
    /\ UNCHANGED <<file, Slot>>
Compare(p) ==
    /\ \/ /\ Go(p, "compare",
                IF file["boot"] \in {None, ver[p]} THEN "openBoot" ELSE "rename")
          /\ UNCHANGED <<troubles, blind>>
       \/ file["boot"] # None /\ Go(p, "compare", "openBoot") /\ Overlook
    /\ UNCHANGED <<file, Slot, told>>
Rename(p) ==
    /\ \/ /\ file["boot"] # None
          /\ Go(p, "rename", "openBoot")
          /\ file' = [file EXCEPT !["bak"] = file["boot"], !["boot"] = None]
          /\ UNCHANGED <<told, troubles>>
       \/ /\ Tell(p, "rename", "failed") /\ UNCHANGED file
          /\ IF file["boot"] = None THEN UNCHANGED troubles ELSE Trouble
    /\ UNCHANGED <<firmware, gsp, silent, history>>

OpenBoot(p) == Truncate(p, "openBoot", "boot", "writeBoot", "dropBoot") /\ OnDisk
WriteBoot(p) == Fill(p, "writeBoot", "boot", ver[p], "enum", "dropBoot") /\ OnDisk
DropBoot(p) == Drop(p, "dropBoot", "boot")

-----------------------------------------------------------------------------
(* The boot entry is copied from the one of Windows, then pointed to the   *)
(* partition and the file, then put first.  An entry that exists, however  *)
(* far it is set up, is left alone; a listing that fails is an empty one.  *)
(* A call that fails undoes the copy.                                      *)
Quietly == UNCHANGED <<file, gsp, tool, history>>

FindEntry(p) ==
    /\ \/ /\ Go(p, "enum", IF Entries = {} THEN "copy" ELSE "verify")
          /\ UNCHANGED troubles
       \/ Go(p, "enum", "copy") /\ Entries # Guids /\ Trouble
    /\ Quietly /\ UNCHANGED firmware

Copy(p) ==
    /\ \/ \E g \in Guids \ Entries :
             /\ Go(p, "copy", "mountAgain")
             /\ entry' = [entry EXCEPT ![g] = "copied"]
             /\ guid' = [guid EXCEPT ![p] = g]
             /\ behind' \in {behind} \cup (Behind({g}, top) \ {None})
             /\ UNCHANGED <<told, troubles>>
       \/ /\ Tell(p, "copy", "manual") /\ Trouble
          /\ UNCHANGED <<entry, behind, guid>>
    /\ UNCHANGED <<file, top, gsp, job, ver, buf, lock, history>>

MountAgain(p) ==
    /\ \/ Go(p, "mountAgain", "device") /\ UNCHANGED troubles
       \/ Go(p, "mountAgain", "undo") /\ Trouble
    /\ Quietly /\ UNCHANGED firmware

(* A call about the entry works if the entry is still there.               *)
Call(p, at, next) ==
    \/ guid[p] \in Entries /\ Go(p, at, next) /\ UNCHANGED troubles
    \/ /\ Go(p, at, "undo")
       /\ IF guid[p] \in Entries THEN Trouble ELSE UNCHANGED troubles

SetEntry(p, at, value, next) ==
    /\ Call(p, at, next)
    /\ entry' = IF pc'[p] = next THEN [entry EXCEPT ![guid[p]] = value] ELSE entry
    /\ Quietly /\ UNCHANGED <<top, behind>>
Device(p) == SetEntry(p, "device", "device", "path")
Path(p) == SetEntry(p, "path", "unlock", "first")

(* Some firmware takes the call and keeps its order.                       *)
AddFirst(p) ==
    /\ Call(p, "first", "verify")
    /\ \/ pc'[p] = "verify" /\ top' = guid[p] /\ behind' = None
       \/ UNCHANGED <<top, behind>>
    /\ Quietly /\ UNCHANGED entry

(* Deleting entries: in their place is afterwards whatever was next.       *)
Delete(gone) ==
    /\ entry' = [g \in Guids |-> IF g \in gone THEN None ELSE entry[g]]
    /\ IF top \in gone THEN top' \in (Entries \ gone) \cup {Windows}
                      ELSE UNCHANGED top
    /\ IF {top, behind} \cap gone # {} THEN behind' \in Behind(Entries \ gone, top')
                                        ELSE UNCHANGED behind

(* Mutant: a failed set-up keeps the copied entry.                         *)
UndoMutant(p) ==
    Tell(p, "undo", "manual") /\ UNCHANGED <<file, firmware, gsp, silent, history, troubles>>
Undo(p) ==
    /\ Tell(p, "undo", "manual")
    /\ \/ Delete({guid[p]}) /\ UNCHANGED <<stuck, troubles>>
       \/ Trouble /\ stuck' = TRUE /\ UNCHANGED firmware
    /\ UNCHANGED <<file, gsp, silent, had, bare, blind, missed, kills, repairs>>

(* Mutant: an entry that exists is taken for the first in the order.       *)
VerifyMutant(p) ==
    /\ Tell(p, "verify", IF Entries # {} THEN "verified" ELSE "manual")
    /\ UNCHANGED <<file, firmware, gsp, silent, history, troubles>>

(* What the installer reads as the first of the order: the name {bootmgr}  *)
(* in the line of the keyword is not a GUID and is passed over.            *)
SeemsFirst == IF top = Windows THEN behind ELSE top

(* The installer reads the order back, and tells the user to set the order *)
(* by hand in the BIOS unless an entry of its name, the one that is listed *)
(* first, seems to be the first in the order.                              *)
Verify(p) ==
    /\ \/ /\ \E g \in Entries :
                Tell(p, "verify", IF SeemsFirst = g THEN "verified" ELSE "manual")
          /\ UNCHANGED troubles
       \/ /\ Tell(p, "verify", "manual")
          /\ IF Entries = {} THEN UNCHANGED troubles ELSE Trouble
    /\ UNCHANGED <<file, firmware, gsp, silent, history>>

-----------------------------------------------------------------------------
(* Uninstalling.                                                           *)
BeginUninstall(p) ==
    /\ Begin(p, "uninstall") /\ Go(p, "idle", "delete")
    /\ lock["uninstall"] = None /\ lock' = [lock EXCEPT !["uninstall"] = p]
    /\ UNCHANGED <<ver, bare>>

(* Mutant: the removal passes over the ESP.                                *)
DeleteEntriesMutant(p) ==
    /\ Go(p, "delete", "gspKey")
    /\ \/ Delete(Entries) /\ UNCHANGED troubles
       \/ \E gone \in SUBSET Entries : Delete(gone) /\ Trouble
    /\ Quietly

(* Every entry found is deleted; a listing or a delete that fails is not   *)
(* noticed.                                                                *)
DeleteEntries(p) ==
    /\ Go(p, "delete", "mountEsp")
    /\ \/ Delete(Entries) /\ UNCHANGED troubles
       \/ \E gone \in SUBSET Entries : Delete(gone) /\ Trouble
    /\ Quietly

MountEsp(p) ==
    /\ \/ Go(p, "mountEsp", "removeMain") /\ UNCHANGED troubles
       \/ Go(p, "mountEsp", "gspKey") /\ Trouble
    /\ OnDisk /\ UNCHANGED file

RemoveMain(p) ==
    /\ Go(p, "removeMain", "readBak")
    /\ \/ Set("main", None) /\ UNCHANGED troubles
       \/ Trouble /\ UNCHANGED file
    /\ OnDisk

ReadBak(p) ==
    /\ \/ /\ Go(p, "readBak", IF file["bak"] = None THEN "gspKey" ELSE "openStd")
          /\ buf' = [buf EXCEPT ![p] = file["bak"]]
          /\ UNCHANGED troubles
       \/ Go(p, "readBak", "gspKey") /\ Trouble /\ UNCHANGED buf
    /\ UNCHANGED <<file, firmware, gsp, job, ver, guid, told, lock, history>>

OpenStd(p) == Truncate(p, "openStd", "boot", "writeStd", "gspKey") /\ OnDisk
WriteStd(p) == Fill(p, "writeStd", "boot", buf[p], "checkStd", "gspKey") /\ OnDisk

(* The slot is read back; only its length is compared.                     *)
CheckStd(p) ==
    /\ \/ /\ file["boot"] = buf[p]
          /\ Go(p, "checkStd", "removeBak") /\ UNCHANGED troubles
       \/ /\ Go(p, "checkStd", "gspKey")
          /\ IF file["boot"] = buf[p] THEN Trouble ELSE UNCHANGED troubles
    /\ OnDisk /\ UNCHANGED file

RemoveBak(p) ==
    /\ Go(p, "removeBak", "gspKey")
    /\ \/ Set("bak", None) /\ UNCHANGED troubles
       \/ Trouble /\ UNCHANGED file
    /\ OnDisk

DeleteGsp(p) ==
    /\ Go(p, "gspKey", "leftover")
    /\ \/ gsp' = FALSE /\ UNCHANGED troubles
       \/ Trouble /\ UNCHANGED gsp
    /\ UNCHANGED <<file, firmware, tool, history>>

Left(entries, files) ==
    IF entries = {} /\ (\A f \in files : file[f] = None) THEN "removed" ELSE "leftover"

(* Mutant: the list of leftovers passes over the backup.                   *)
CheckLeftoverMutant(p) ==
    /\ Tell(p, "leftover", Left(Entries, {"main"}))
    /\ UNCHANGED <<file, firmware, gsp, silent, history, troubles>>

(* What is left is listed.  A listing that fails finds no entry; without   *)
(* the ESP its files are not looked at, and a look at one may fail; nothing *)
(* says so.                                                                *)
CheckLeftover(p) ==
    /\ \/ Tell(p, "leftover", Left(Entries, {"main", "bak"})) /\ UNCHANGED <<missed, troubles>>
       \/ Tell(p, "leftover", Left({}, {"main", "bak"})) /\ Trouble /\ UNCHANGED missed
       \/ \E unseen \in {{"main"}, {"bak"}, {"main", "bak"}} :
             /\ Tell(p, "leftover", Left(Entries, {"main", "bak"} \ unseen))
             /\ Trouble /\ missed' = (\E f \in unseen : file[f] # None)
    /\ UNCHANGED <<file, firmware, gsp, silent, had, bare, stuck, blind, kills,
                   repairs>>

-----------------------------------------------------------------------------
Unlocked(p) == [l \in DOMAIN lock |-> IF lock[l] = p THEN None ELSE lock[l]]

(* A process ends, and with it its mutexes.                                *)
Exit(p) ==
    /\ pc[p] = "idle" /\ lock' = Unlocked(p) /\ lock' # lock
    /\ UNCHANGED <<file, firmware, gsp, pc, job, ver, guid, buf, told, history, troubles>>

Kill(p) ==
    /\ pc[p] # "idle" /\ kills < Kills /\ kills' = kills + 1
    /\ pc' = [pc EXCEPT ![p] = "idle"]
    /\ lock' = Unlocked(p)
    /\ UNCHANGED <<file, firmware, gsp, job, ver, guid, buf, told, had, bare, stuck,
                   blind, missed, troubles, repairs>>

(* A Gen2 session at logon, or the GSP component alone, sets the value.    *)
EnsureGsp ==
    /\ ~ gsp /\ gsp' = TRUE
    /\ UNCHANGED <<file, firmware, pc, tool, history, troubles>>

(* A Windows update, or its repair tool, writes the slot.  Loaders of      *)
(* Windows are not told apart: the backup may be older than the slot.      *)
Repair ==
    /\ Quiet /\ repairs < Repairs /\ repairs' = repairs + 1
    /\ Set("boot", Windows)
    /\ told' = [q \in Tools |-> None]
    /\ UNCHANGED <<firmware, gsp, pc, silent, had, bare, stuck, blind, missed,
                   kills, troubles>>

(* As the installer asks for, the user moves the entry to the top.         *)
Reorder ==
    /\ Quiet
    /\ top' \in Entries \cup {Windows} /\ behind' \in Behind(Entries, top')
    /\ <<top', behind'>> # <<top, behind>>
    /\ told' = [q \in Tools |-> None]
    /\ UNCHANGED <<file, entry, gsp, pc, silent, history, troubles>>

Install(p) ==
    \/ BeginInstall(p) \/ BeginComponent(p) \/ EnableGsp(p) \/ Mount(p)
    \/ OpenMain(p) \/ WriteMain(p) \/ DropMain(p)
    \/ Stat(p) \/ Compare(p) \/ Rename(p)
    \/ OpenBoot(p) \/ WriteBoot(p) \/ DropBoot(p)
    \/ FindEntry(p) \/ Copy(p) \/ MountAgain(p) \/ Device(p) \/ Path(p)
    \/ AddFirst(p) \/ Undo(p) \/ Verify(p)

Uninstall(p) ==
    \/ BeginUninstall(p) \/ DeleteEntries(p) \/ MountEsp(p) \/ RemoveMain(p)
    \/ ReadBak(p) \/ OpenStd(p) \/ WriteStd(p) \/ CheckStd(p) \/ RemoveBak(p)
    \/ DeleteGsp(p) \/ CheckLeftover(p)

Next ==
    \/ \E p \in Tools : Install(p) \/ Uninstall(p) \/ Exit(p) \/ Kill(p)
    \/ EnsureGsp
    \/ Repair
    \/ Reorder

Spec == Init /\ [][Next]_vars

-----------------------------------------------------------------------------
(* Properties.                                                             *)

(* The fallback slot and its backup do what LoaderSwap promises of a loader *)
(* that was there before the first installation: deployEspEfi renames it   *)
(* before it writes the slot and leaves a backup that exists alone, and    *)
(* UninstallEspEfi removes the backup only after reading the slot back;    *)
(* unless one of them failed to see a file that is there.                  *)
Seen == had /\ ~ blind
Swap == INSTANCE LoaderSwap WITH
    Loader <- Windows, Absent <- None,
    slot <- file["boot"], backup <- file["bak"], seen <- Seen
SwapSpec == Swap!Spec

(* Whatever is killed or fails, and however often the tools are run, the   *)
(* loader that was in the fallback slot before the first installation is   *)
(* whole on the ESP: in its place or as the backup (deployEspEfi renames   *)
(* it, UninstallEspEfi removes the backup only after reading it back);     *)
(* unless deployEspEfi failed to see the one or the other.                 *)
OriginalSurvives ==
    had /\ ~ blind => Windows \in {file["boot"], file["bak"]}

(* An uninstaller that lists no leftover has put that loader back, unless  *)
(* its look for leftovers passed over a file that is there: CheckLeftover  *)
(* says nothing when it cannot mount the ESP, and takes a file it cannot   *)
(* look at for removed (UninstallEspEfi, CheckLeftover).                   *)
UninstallRestores ==
    \A p \in Tools :
        Quiet /\ told[p] = "removed" /\ had /\ ~ blind /\ ~ missed
            => file["boot"] = Windows

(* When the installer reports its boot entry as set and verified, both     *)
(* copies of the EFI are the release it carries, and an entry of the tools *)
(* is the first of the firmware, or the next to Windows Boot Manager:      *)
(* verifyBootEntry does not see a {bootmgr} in front.  That entry starts   *)
(* the EFI unless an earlier installation was killed, or could not undo,   *)
(* half-way through an entry: setupBootEntry skips what it finds.          *)
VerifiedMeansUnlock ==
    \A p \in Tools : Quiet /\ told[p] = "verified"
        => /\ file["main"] = ver[p] /\ file["boot"] = ver[p]
           /\ SeemsFirst \in Entries
           /\ kills = 0 /\ ~ stuck => entry[SeemsFirst] = "unlock"

(* Unless a process was killed, a clean-up failed too or a file was taken  *)
(* for absent, a failed call leaves no half-written EFI and no half-made   *)
(* entry behind, and a torn fallback slot only together with the backup    *)
(* (writeVerified, setupBootEntry, UninstallEspEfi).                       *)
FailureLeavesNoHalves ==
    Quiet /\ kills = 0 /\ ~ stuck /\ ~ blind
        => /\ file["main"] # "torn"
           /\ file["boot"] = "torn" => file["bak"] # None
           /\ \A g \in Entries : entry[g] = "unlock"

(* As long as no call has failed and nobody deployed the EFI without GSP   *)
(* on the component page, the registry value is set whenever the firmware  *)
(* would start the unlock EFI: by the tools' entry, or, on a machine that  *)
(* had a loader in the fallback slot, from that slot; at any point of an   *)
(* installation or removal and wherever one is killed.  Without a loader   *)
(* to put back a removal leaves the EFI in the slot.                       *)
EntryUnlocks ==
    top \in Entries /\ entry[top] = "unlock" /\ file["main"] \in Versions
SlotUnlocks == file["boot"] \in Versions
GspCoversUnlock ==
    troubles = 0 /\ ~ bare => (EntryUnlocks \/ (had /\ SlotUnlocks) => gsp)

(* An uninstaller that lists no leftover has removed the unlock EFI, the   *)
(* copy in the fallback slot included (uninstall40x/main.go:5).            *)
UninstallRemovesUnlock ==
    \A p \in Tools : Quiet /\ told[p] = "removed" => ~ (EntryUnlocks \/ SlotUnlocks)
=============================================================================
