--------------------------- MODULE Deployment_proofs ---------------------------
(***************************************************************************)
(* Proofs about the deployment of the unlock EFI, for any number of tools, *)
(* releases, failed calls, killed processes and repairs.                   *)
(***************************************************************************)
EXTENDS Deployment, TLAPS

LEMMA InitTypeOK == Init => TypeOK
<1> SUFFICES ASSUME Init PROVE TypeOK
  OBVIOUS
<1>1. /\ 0 \in 0 .. Troubles /\ 0 \in 0 .. Kills /\ 0 \in 0 .. Repairs
  BY BoundsAreNatural
<1>2. file \in [{"main", "boot", "bak"} -> Contents]
  <2>1. PICK b \in {None, Windows} : file = [main |-> None, boot |-> b, bak |-> None]
    BY DEF Init
  <2> QED BY <2>1 DEF Contents
<1>5. {had, bare, stuck, blind, missed} \subseteq BOOLEAN
  <2>1. had \in BOOLEAN
    BY Zenon DEF Init
  <2> QED BY <2>1 DEF Init
<1>3. /\ entry \in [Guids -> {None, "copied", "device", "unlock"}]
      /\ pc \in [Tools -> Installing \cup Removing \cup {"idle"}]
      /\ job \in [Tools -> {"install", "component", "uninstall"}]
      /\ told \in [Tools -> {None, "verified", "manual", "failed", "removed",
                             "leftover"}]
      /\ lock \in [{"install", "uninstall"} -> Tools \cup {None}]
  BY DEF Init
<1>4. buf \in [Tools -> Contents] /\ guid \in [Tools -> Guids \cup {None}]
  BY DEF Init, Contents
<1>6. OrderOK
  BY DEF Init, OrderOK, Behind
<1> QED BY <1>1, <1>2, <1>3, <1>4, <1>5, <1>6 DEF Init, TypeOK

(* The order of the boot entries is disturbed only with the entries.        *)
LEMMA SameOrder == UNCHANGED firmware /\ OrderOK => OrderOK'
  BY DEF firmware, OrderOK, Entries, Behind

(* What deleting entries, copying one and the look for leftovers do.       *)
LEMMA DeleteType ==
    ASSUME TypeOK, NEW gone, Delete(gone)
    PROVE  /\ entry' \in [Guids -> {None, "copied", "device", "unlock"}]
           /\ Entries' = Entries \ gone
           /\ OrderOK'
<1>1. entry' \in [Guids -> {None, "copied", "device", "unlock"}]
  BY DEF TypeOK, Delete
<1>2. Entries' = Entries \ gone
  BY DEF TypeOK, Delete, Entries
<1>3. top' \in Entries' \cup {Windows}
  BY <1>2 DEF TypeOK, OrderOK, Delete
<1>4. behind' \in Behind(Entries', top')
  <2>1. CASE {top, behind} \cap gone # {}
    BY <1>2, <2>1 DEF Delete
  <2>2. CASE {top, behind} \cap gone = {}
    BY <1>2, <2>2 DEF TypeOK, OrderOK, Delete, Behind
  <2> QED BY <2>1, <2>2
<1> QED BY <1>1, <1>2, <1>3, <1>4 DEF OrderOK

LEMMA Copies ==
    ASSUME NEW p \in Tools, Copy(p)
    PROVE  /\ UNCHANGED <<file, top, gsp, job, ver, buf, lock, history>>
           /\ pc[p] = "copy"
           /\ \/ /\ pc' = [pc EXCEPT ![p] = "mountAgain"]
                 /\ \E g \in Guids \ Entries :
                       /\ entry' = [entry EXCEPT ![g] = "copied"]
                       /\ guid' = [guid EXCEPT ![p] = g]
                       /\ behind' \in {behind} \cup (Behind({g}, top) \ {None})
                 /\ UNCHANGED <<told, troubles>>
              \/ /\ pc' = [pc EXCEPT ![p] = "idle"]
                 /\ told' = [told EXCEPT ![p] = "manual"]
                 /\ Trouble /\ UNCHANGED <<entry, behind, guid>>
  BY Zenon DEF Copy, Go, Tell

LEMMA Looks ==
    ASSUME NEW p \in Tools, CheckLeftover(p)
    PROVE  /\ UNCHANGED <<file, firmware, gsp, silent, had, bare, stuck, blind, kills,
                          repairs>>
           /\ pc[p] = "leftover" /\ pc' = [pc EXCEPT ![p] = "idle"]
           /\ \E w \in {"removed", "leftover"} : told' = [told EXCEPT ![p] = w]
           /\ UNCHANGED missed \/ missed' \in BOOLEAN
           /\ UNCHANGED troubles \/ Trouble
<1>1. UNCHANGED missed \/ missed' \in BOOLEAN
  BY DEF CheckLeftover
<1>2. /\ pc[p] = "leftover" /\ pc' = [pc EXCEPT ![p] = "idle"]
      /\ \E w \in {"removed", "leftover"} : told' = [told EXCEPT ![p] = w]
  <2>1. ASSUME NEW es, NEW fs PROVE Left(es, fs) \in {"removed", "leftover"}
    BY DEF Left
  <2>2. PICK es, fs : Tell(p, "leftover", Left(es, fs))
    BY Zenon DEF CheckLeftover
  <2> QED BY <2>1, <2>2, Zenon DEF Tell, Go
<1>3. UNCHANGED troubles \/ Trouble
  BY Zenon DEF CheckLeftover
<1>4. UNCHANGED <<file, firmware, gsp, silent, had, bare, stuck, blind, kills, repairs>>
  BY Zenon DEF CheckLeftover
<1> QED BY <1>1, <1>2, <1>3, <1>4

(* What the steps of an installation do to the shape of the state.         *)
LEMMA InstallType == ASSUME TypeOK, NEW p \in Tools, Install(p) PROVE TypeOK'
<1> USE BoundsAreNatural
    DEF TypeOK, Go, Tell, Set, Trouble, tool, history, counts, firmware, silent,
        Contents, Installing, Removing
<1> USE SameOrder
<1>1. CASE BeginInstall(p)
  <2>1. missed' \in BOOLEAN
    BY <1>1 DEF BeginInstall, Begin
  <2>2. pc' \in [Tools -> Installing \cup Removing \cup {"idle"}]
    BY <1>1 DEF BeginInstall, Begin
  <2> QED BY <1>1, <2>1, <2>2 DEF BeginInstall, Begin
<1>2. CASE BeginComponent(p)
  <2>1. /\ pc' \in [Tools -> Installing \cup Removing \cup {"idle"}]
        /\ job' \in [Tools -> {"install", "component", "uninstall"}]
        /\ ver' \in [Tools -> Versions]
    BY <1>2 DEF BeginComponent, Begin
  <2>2. /\ told' = [q \in Tools |-> None]
        /\ guid' = [guid EXCEPT ![p] = None] /\ buf' = [buf EXCEPT ![p] = None]
    BY <1>2 DEF BeginComponent, Begin
  <2>3. bare' \in BOOLEAN /\ missed' \in BOOLEAN
    <3>1. bare' \in BOOLEAN
      BY <1>2 DEF BeginComponent
    <3>2. missed' \in BOOLEAN
      BY <1>2 DEF BeginComponent, Begin
    <3> QED BY <3>1, <3>2
  <2> QED BY <1>2, <2>1, <2>2, <2>3 DEF BeginComponent, Begin
<1>3. CASE Mount(p)
  BY <1>3 DEF Mount
<1>4. CASE EnableGsp(p)
  <2>1. CASE gsp' = TRUE /\ Go(p, "gsp", "mount") /\ UNCHANGED <<told, troubles>>
    BY <1>4, <2>1 DEF EnableGsp
  <2>2. CASE Trouble /\ UNCHANGED gsp
    BY <1>4, <2>2 DEF EnableGsp
  <2> QED BY <1>4, <2>1, <2>2 DEF EnableGsp
<1>5. CASE OpenMain(p) \/ OpenBoot(p)
  BY <1>5 DEF OpenMain, OpenBoot, Truncate, OnDisk
<1>6. CASE WriteMain(p) \/ WriteBoot(p)
  BY <1>6 DEF WriteMain, WriteBoot, Fill, OnDisk
<1>7. ASSUME NEW at \in Installing, NEW f \in {"main", "boot"}, Drop(p, at, f)
      PROVE  TypeOK'
  <2>1. CASE Set(f, None) /\ UNCHANGED <<stuck, troubles>>
    BY <1>7, <2>1 DEF Drop
  <2>2. CASE Trouble /\ stuck' = TRUE /\ UNCHANGED file
    BY <1>7, <2>2 DEF Drop
  <2> QED BY <1>7, <2>1, <2>2 DEF Drop
<1>8. CASE DropMain(p) \/ DropBoot(p)
  BY <1>7, <1>8 DEF DropMain, DropBoot
<1>9. CASE Stat(p)
  <2>1. pc' \in [Tools -> Installing \cup Removing \cup {"idle"}]
    BY <1>9 DEF Stat
  <2>2. told' = told \/ told' = [told EXCEPT ![p] = "failed"]
    BY <1>9 DEF Stat
  <2>3. blind' \in BOOLEAN /\ troubles' \in 0 .. Troubles
    <3>1. UNCHANGED blind \/ blind' = TRUE
      BY <1>9 DEF Stat, Overlook
    <3>2. UNCHANGED troubles \/ Trouble
      BY <1>9 DEF Stat, Overlook
    <3>3. blind \in BOOLEAN
      BY DEF TypeOK
    <3>4. blind' \in BOOLEAN
      BY <3>1, <3>3
    <3>5. troubles' \in 0 .. Troubles
      BY <3>2
    <3> QED BY <3>4, <3>5
  <2> QED BY <1>9, <2>1, <2>2, <2>3 DEF Stat, Slot
<1>10. CASE Compare(p)
  <2>1. pc' \in [Tools -> Installing \cup Removing \cup {"idle"}]
    BY <1>10 DEF Compare
  <2>2. blind' \in BOOLEAN /\ troubles' \in 0 .. Troubles
    <3>1. UNCHANGED blind \/ blind' = TRUE
      BY <1>10 DEF Compare, Overlook
    <3>2. UNCHANGED troubles \/ Trouble
      BY <1>10 DEF Compare, Overlook
    <3>3. blind \in BOOLEAN
      BY DEF TypeOK
    <3>4. blind' \in BOOLEAN
      BY <3>1, <3>3
    <3>5. troubles' \in 0 .. Troubles
      BY <3>2
    <3> QED BY <3>4, <3>5
  <2> QED BY <1>10, <2>1, <2>2 DEF Compare, Slot
<1>11. CASE Rename(p)
  BY <1>11 DEF Rename
<1>12. CASE FindEntry(p) \/ MountAgain(p)
  BY <1>12 DEF FindEntry, MountAgain, Quietly
<1>13. CASE Copy(p)
  <2>1. CASE UNCHANGED <<entry, behind, guid>>
    BY <1>13, <2>1, Copies
  <2>2. CASE ~ UNCHANGED <<entry, behind, guid>>
    <3>1. PICK g \in Guids \ Entries :
             /\ entry' = [entry EXCEPT ![g] = "copied"]
             /\ guid' = [guid EXCEPT ![p] = g]
             /\ behind' \in {behind} \cup (Behind({g}, top) \ {None})
      BY <1>13, <2>2, Copies, Zenon
    <3>2. Entries' = Entries \cup {g} /\ UNCHANGED top
      BY <1>13, <3>1, Copies DEF Entries, None
    <3>3. OrderOK'
      BY <3>1, <3>2 DEF OrderOK, Behind
    <3>4. entry' \in [Guids -> {None, "copied", "device", "unlock"}]
      BY <3>1
    <3>5. guid' \in [Tools -> Guids \cup {None}]
      BY <3>1
    <3> QED BY <1>13, <2>2, <3>3, <3>4, <3>5, Copies
  <2> QED BY <2>1, <2>2
<1>14. CASE Device(p) \/ Path(p)
  <2>1. /\ entry' \in [Guids -> {None, "copied", "device", "unlock"}]
        /\ Entries' = Entries /\ UNCHANGED <<top, behind>>
    BY <1>14 DEF Device, Path, SetEntry, Call, Entries, None
  <2>2. OrderOK'
    BY <2>1 DEF OrderOK
  <2>3. Go(p, pc[p], pc'[p]) /\ (UNCHANGED troubles \/ Trouble)
    BY <1>14 DEF Device, Path, SetEntry, Call
  <2> QED BY <1>14, <2>1, <2>2, <2>3 DEF Device, Path, SetEntry, Call, Quietly
<1>15. CASE AddFirst(p)
  <2>1. OrderOK'
    BY <1>15 DEF AddFirst, Call, OrderOK, Entries, Behind, None, Windows
  <2> QED BY <1>15, <2>1 DEF AddFirst, Call, Quietly
<1>16. CASE Undo(p)
  <2>1. CASE Delete({guid[p]}) /\ UNCHANGED <<stuck, troubles>>
    BY <1>16, <2>1, DeleteType DEF Undo
  <2>2. CASE Trouble /\ stuck' = TRUE /\ UNCHANGED firmware
    BY <1>16, <2>2 DEF Undo
  <2> QED BY <1>16, <2>1, <2>2 DEF Undo
<1>17. CASE Verify(p)
  BY <1>17 DEF Verify
<1> QED
  BY <1>1, <1>2, <1>3, <1>4, <1>5, <1>6, <1>7, <1>8, <1>9, <1>10, <1>11, <1>12,
     <1>13, <1>14, <1>15, <1>16, <1>17 DEF Install

LEMMA UninstallType == ASSUME TypeOK, NEW p \in Tools, Uninstall(p) PROVE TypeOK'
<1> USE BoundsAreNatural
    DEF TypeOK, Go, Tell, Set, Trouble, tool, history, counts, firmware, silent,
        Contents, Installing, Removing
<1> USE SameOrder
<1>1. CASE BeginUninstall(p)
  BY <1>1 DEF BeginUninstall, Begin
<1>2. CASE DeleteEntries(p)
  <2>1. PICK gone : Delete(gone)
    BY <1>2 DEF DeleteEntries
  <2>2. UNCHANGED troubles \/ Trouble
    BY <1>2 DEF DeleteEntries
  <2> QED BY <1>2, <2>1, <2>2, DeleteType DEF DeleteEntries, Quietly
<1>3. CASE MountEsp(p) \/ RemoveMain(p)
  BY <1>3 DEF MountEsp, RemoveMain, OnDisk
<1>4. CASE ReadBak(p)
  BY <1>4 DEF ReadBak
<1>5. CASE OpenStd(p)
  BY <1>5 DEF OpenStd, Truncate, OnDisk
<1>6. CASE WriteStd(p)
  BY <1>6 DEF WriteStd, Fill, OnDisk
<1>7. CASE CheckStd(p) \/ RemoveBak(p)
  BY <1>7 DEF CheckStd, RemoveBak, OnDisk
<1>8. CASE CheckLeftover(p)
  <2>2. missed' \in BOOLEAN
    BY <1>8, Looks
  <2>3. /\ told' \in [Tools -> {None, "verified", "manual", "failed", "removed",
                                 "leftover"}]
        /\ pc' \in [Tools -> Installing \cup Removing \cup {"idle"}]
        /\ troubles' \in 0 .. Troubles
    <3>1. UNCHANGED troubles \/ Trouble
      BY <1>8, Looks, Zenon
    <3>2. PICK w \in {"removed", "leftover"} : told' = [told EXCEPT ![p] = w]
      BY <1>8, Looks, Zenon
    <3>3. pc' = [pc EXCEPT ![p] = "idle"]
      BY <1>8, Looks, Zenon
    <3> QED BY <3>1, <3>2, <3>3
  <2>4. UNCHANGED <<file, firmware, gsp, silent, had, bare, stuck, blind, kills, repairs>>
    BY <1>8, Looks, Zenon
  <2> QED BY <2>2, <2>3, <2>4
<1>9. CASE DeleteGsp(p)
  <2>1. gsp' \in BOOLEAN
    BY <1>9 DEF DeleteGsp
  <2> QED BY <1>9, <2>1 DEF DeleteGsp
<1> QED
  BY <1>1, <1>2, <1>3, <1>4, <1>5, <1>6, <1>7, <1>8, <1>9 DEF Uninstall

LEMMA TypeStep == TypeOK /\ [Next]_vars => TypeOK'
<1> SUFFICES ASSUME TypeOK, [Next]_vars PROVE TypeOK'
  OBVIOUS
<1> USE BoundsAreNatural
    DEF TypeOK, Set, tool, history, counts, firmware, silent, Contents
<1> USE SameOrder
<1>1. ASSUME NEW p \in Tools, Install(p) PROVE TypeOK'
  BY <1>1, InstallType
<1>2. ASSUME NEW p \in Tools, Uninstall(p) PROVE TypeOK'
  BY <1>2, UninstallType
<1>3. ASSUME NEW p \in Tools, Exit(p) PROVE TypeOK'
  BY <1>3 DEF Exit, Unlocked
<1>4. ASSUME NEW p \in Tools, Kill(p) PROVE TypeOK'
  BY <1>4 DEF Kill, Unlocked
<1>5. CASE Repair
  BY <1>5 DEF Repair
<1>6. CASE Reorder
  <2>1. OrderOK'
    BY <1>6 DEF Reorder, OrderOK, Entries
  <2> QED BY <1>6, <2>1 DEF Reorder
<1>7. CASE EnsureGsp
  <2>1. gsp' \in BOOLEAN
    BY <1>7 DEF EnsureGsp
  <2> QED BY <1>7, <2>1 DEF EnsureGsp
<1>8. CASE UNCHANGED vars
  BY <1>8 DEF vars
<1> QED BY <1>1, <1>2, <1>3, <1>4, <1>5, <1>6, <1>7, <1>8 DEF Next

(* Every variable keeps its shape; in particular the firmware's first entry *)
(* exists, whatever is killed or fails, with tools side by side too.       *)
THEOREM DeployTyping == Spec => []TypeOK
  BY InitTypeOK, TypeStep, PTL DEF Spec
-----------------------------------------------------------------------------
(* The loader of the machine, while tools run one at a time.               *)
Alone == \A p, q \in Tools : pc[p] # "idle" /\ pc[q] # "idle" => p = q

(* What a tool told is the last thing that happened.                       *)
ToldInv == \A p \in Tools : told[p] # None => Quiet

(* Where the loader is, and what each place of a tool relies on: that there *)
(* is no backup yet, that the backup is the loader, or that the loader is   *)
(* back in its place.                                                       *)
Held ==
    /\ Windows \in {file["boot"], file["bak"]}
    /\ file["bak"] \in {None, Windows}
Place(p) ==
    /\ pc[p] \in {"compare", "rename"} => file["bak"] = None
    /\ pc[p] \in {"openBoot", "writeBoot", "dropBoot"} => file["bak"] = Windows
    /\ pc[p] \in {"openStd", "writeStd", "checkStd", "removeBak"}
          => file["bak"] = Windows /\ buf[p] = Windows
    /\ pc[p] = "removeBak" => file["boot"] = Windows
    /\ told[p] = "removed" /\ ~ missed => file["bak"] = None
SlotInv == Seen => Held /\ \A p \in Tools : Place(p)

DiskInv == TypeOK /\ Alone /\ ToldInv /\ SlotInv

LEMMA InitDiskInv == Init => DiskInv
<1> SUFFICES ASSUME Init PROVE DiskInv
  OBVIOUS
<1>1. Alone /\ ToldInv
  BY DEF Init, Alone, ToldInv, None
<1>2. Seen => Held
  <2>1. PICK b \in {None, Windows} :
           file = [main |-> None, boot |-> b, bak |-> None] /\ had = (b = Windows)
    BY Zenon DEF Init
  <2>2. ASSUME Seen PROVE b = Windows
    BY <2>1, <2>2, Zenon DEF Seen
  <2> QED BY <2>1, <2>2 DEF Held
<1>3. ASSUME NEW p \in Tools PROVE Place(p)
  BY DEF Init, Place, None
<1> QED BY <1>1, <1>2, <1>3, InitTypeOK DEF DiskInv, SlotInv

(* A step of a tool at work, and of one that begins.                       *)
Works(p) ==
    /\ pc[p] # "idle"
    /\ \E to : /\ pc' = [pc EXCEPT ![p] = to]
               /\ \/ UNCHANGED told
                  \/ to = "idle" /\ \E w : told' = [told EXCEPT ![p] = w]
Starts(p) ==
    /\ OneAtATime => Quiet
    /\ \E to : pc' = [pc EXCEPT ![p] = to]
    /\ told' = [q \in Tools |-> None]

LEMMA Moves ==
    ASSUME NEW p \in Tools, Install(p) \/ Uninstall(p) \/ Kill(p)
    PROVE  Works(p) \/ Starts(p)
<1> USE DEF Go, Tell, Works
<1>1. CASE BeginInstall(p) \/ BeginComponent(p) \/ BeginUninstall(p)
  BY <1>1 DEF BeginInstall, BeginComponent, BeginUninstall, Begin, Starts
<1>2. CASE EnableGsp(p) \/ Mount(p)
  BY <1>2 DEF EnableGsp, Mount, silent
<1>3. CASE OpenMain(p) \/ OpenBoot(p) \/ OpenStd(p)
  BY <1>3 DEF OpenMain, OpenBoot, OpenStd, Truncate, OnDisk, tool
<1>4. CASE WriteMain(p) \/ WriteBoot(p) \/ WriteStd(p)
  BY <1>4 DEF WriteMain, WriteBoot, WriteStd, Fill, OnDisk, tool
<1>5. CASE DropMain(p) \/ DropBoot(p) \/ Undo(p) \/ Verify(p)
  BY <1>5 DEF DropMain, DropBoot, Drop, Undo, Verify
<1>6. CASE Stat(p) \/ Compare(p) \/ Rename(p)
  BY <1>6 DEF Stat, Compare, Rename, Slot
<1>7. CASE FindEntry(p) \/ Copy(p) \/ MountAgain(p) \/ AddFirst(p)
  BY <1>7 DEF FindEntry, Copy, MountAgain, AddFirst, Call, Quietly, tool
<1>8. CASE Device(p) \/ Path(p)
  BY <1>8 DEF Device, Path, SetEntry, Call, Quietly, tool
<1>9. CASE DeleteEntries(p) \/ MountEsp(p) \/ RemoveMain(p) \/ ReadBak(p)
  BY <1>9 DEF DeleteEntries, MountEsp, RemoveMain, ReadBak, Quietly, OnDisk, tool
<1>10. CASE CheckStd(p) \/ RemoveBak(p) \/ DeleteGsp(p) \/ CheckLeftover(p)
  BY <1>10 DEF CheckStd, RemoveBak, DeleteGsp, CheckLeftover, OnDisk, tool
<1>11. CASE Kill(p)
  BY <1>11 DEF Kill
<1> QED
  BY <1>1, <1>2, <1>3, <1>4, <1>5, <1>6, <1>7, <1>8, <1>9, <1>10, <1>11
     DEF Install, Uninstall

(* Whatever one tool does, the others rest.                                *)
LEMMA OthersRest ==
    ASSUME OneAtATime, TypeOK, Alone, ToldInv, NEW p \in Tools,
           Works(p) \/ Starts(p)
    PROVE  /\ \A q \in Tools \ {p} : pc[q] = "idle" /\ pc'[q] = "idle" /\ told'[q] = None
           /\ told'[p] # None => pc'[p] = "idle"
           /\ Alone' /\ ToldInv'
<1>1. \A q \in Tools \ {p} : pc[q] = "idle" /\ pc'[q] = "idle" /\ told'[q] = None
  BY DEF Works, Starts, Alone, ToldInv, Quiet, TypeOK
<1>2. told'[p] # None => pc'[p] = "idle"
  <2>1. CASE Works(p)
    BY <2>1 DEF Works, ToldInv, Quiet, TypeOK
  <2>2. CASE Starts(p)
    BY <2>2 DEF Starts
  <2> QED BY <2>1, <2>2
<1> QED BY <1>1, <1>2 DEF Alone, ToldInv, Quiet
(* Nothing ever makes a file seen that was overlooked, or forgets it.      *)
LEMMA InstallSlot ==
    ASSUME DiskInv, Seen, blind' = FALSE, NEW p \in Tools, Install(p)
    PROVE  Held' /\ Place(p)'
<1> USE VersionsAreNew
    DEF DiskInv, TypeOK, SlotInv, Held, Place, Go, Tell, Set, tool, history, silent,
        firmware, None, Windows
<1>0. Held /\ Place(p) /\ (told[p] = "removed" => pc[p] = "idle")
  BY DEF ToldInv, Quiet
<1>1. CASE BeginInstall(p) \/ BeginComponent(p)
  BY <1>0, <1>1 DEF BeginInstall, BeginComponent, Begin
<1>2. CASE EnableGsp(p) \/ Mount(p)
  BY <1>0, <1>2 DEF EnableGsp, Mount
<1>3. CASE OpenMain(p) \/ OpenBoot(p)
  BY <1>0, <1>3 DEF OpenMain, OpenBoot, Truncate, OnDisk
<1>4. CASE WriteMain(p) \/ WriteBoot(p)
  BY <1>0, <1>4 DEF WriteMain, WriteBoot, Fill, OnDisk
<1>5. CASE DropMain(p) \/ DropBoot(p)
  BY <1>0, <1>5 DEF DropMain, DropBoot, Drop
<1>6. CASE Stat(p)
  BY <1>0, <1>6 DEF Stat, Overlook, Slot
<1>7. CASE Compare(p)
  <2>1. file["boot"] = Windows /\ ver[p] # Windows
    BY <1>0, <1>7 DEF Compare
  <2>2. pc'[p] = "rename" /\ UNCHANGED <<file, told>>
    BY <1>7, <2>1 DEF Compare, Overlook
  <2> QED BY <1>0, <1>7, <2>2 DEF Compare
<1>8. CASE Rename(p)
  BY <1>0, <1>8 DEF Rename
<1>9. CASE FindEntry(p) \/ MountAgain(p) \/ AddFirst(p)
  BY <1>0, <1>9 DEF FindEntry, MountAgain, AddFirst, Call, Quietly
<1>12. CASE Copy(p)
  BY <1>0, <1>12, Copies
<1>10. CASE Device(p) \/ Path(p)
  BY <1>0, <1>10 DEF Device, Path, SetEntry, Call, Quietly
<1>11. CASE Undo(p) \/ Verify(p)
  BY <1>0, <1>11 DEF Undo, Verify
<1> QED
  BY <1>1, <1>2, <1>3, <1>4, <1>5, <1>6, <1>7, <1>8, <1>9, <1>10, <1>11, <1>12
     DEF Install

LEMMA UninstallSlot ==
    ASSUME DiskInv, Seen, blind' = FALSE, NEW p \in Tools, Uninstall(p)
    PROVE  Held' /\ Place(p)'
<1> USE DEF DiskInv, TypeOK, SlotInv, Held, Place, Go, Tell, Set, tool, history,
        silent, firmware, None, Windows
<1>0. Held /\ Place(p) /\ (told[p] = "removed" => pc[p] = "idle")
  BY DEF ToldInv, Quiet
<1>1. CASE BeginUninstall(p)
  BY <1>0, <1>1 DEF BeginUninstall, Begin
<1>2. CASE DeleteEntries(p)
  BY <1>0, <1>2 DEF DeleteEntries, Quietly
<1>3. CASE MountEsp(p) \/ RemoveMain(p)
  BY <1>0, <1>3 DEF MountEsp, RemoveMain, OnDisk
<1>4. CASE ReadBak(p)
  BY <1>0, <1>4 DEF ReadBak
<1>5. CASE OpenStd(p)
  BY <1>0, <1>5 DEF OpenStd, Truncate, OnDisk
<1>6. CASE WriteStd(p)
  BY <1>0, <1>6 DEF WriteStd, Fill, OnDisk
<1>7. CASE CheckStd(p)
  BY <1>0, <1>7 DEF CheckStd, OnDisk
<1>8. CASE RemoveBak(p)
  BY <1>0, <1>8 DEF RemoveBak, OnDisk
<1>9. CASE DeleteGsp(p)
  BY <1>0, <1>9 DEF DeleteGsp
<1>10. CASE CheckLeftover(p)
  <2>1. told'[p] = "removed" /\ ~ missed' => file["bak"] = None
    <3>1. CASE Tell(p, "leftover", Left(Entries, {"main", "bak"}))
      BY <3>1 DEF Left
    <3>2. CASE Tell(p, "leftover", Left({}, {"main", "bak"}))
      BY <3>2 DEF Left
    <3>3. ASSUME NEW unseen, missed' = (\E f \in unseen : file[f] # None),
                 Tell(p, "leftover", Left(Entries, {"main", "bak"} \ unseen))
          PROVE  told'[p] = "removed" /\ ~ missed' => file["bak"] = None
      <4>1. CASE "bak" \in unseen
        BY <3>3, <4>1
      <4>2. CASE "bak" \notin unseen
        BY <3>3, <4>2 DEF Left
      <4> QED BY <4>1, <4>2
    <3> QED BY <1>10, <3>1, <3>2, <3>3 DEF CheckLeftover
  <2>2. pc'[p] = "idle" /\ UNCHANGED file
    BY <1>10, Looks
  <2> QED BY <1>0, <2>1, <2>2
<1> QED
  BY <1>1, <1>2, <1>3, <1>4, <1>5, <1>6, <1>7, <1>8, <1>9, <1>10 DEF Uninstall

LEMMA SeenBefore == TypeOK /\ [Next]_vars /\ Seen' => Seen /\ blind' = FALSE
<1> SUFFICES ASSUME TypeOK, [Next]_vars, Seen' PROVE Seen /\ blind' = FALSE
  OBVIOUS
<1> USE DEF Seen, tool, history, silent, firmware, counts
<1>1. blind' = FALSE
  BY TypeStep DEF TypeOK
<1>2. UNCHANGED had /\ (UNCHANGED blind \/ blind' = TRUE)
  <2>1. ASSUME NEW p \in Tools, Install(p)
        PROVE  UNCHANGED had /\ (UNCHANGED blind \/ blind' = TRUE)
    <3>1. CASE BeginInstall(p) \/ BeginComponent(p)
      BY <3>1 DEF BeginInstall, BeginComponent, Begin
    <3>2. CASE EnableGsp(p) \/ Mount(p) \/ Rename(p) \/ Copy(p) \/ Undo(p) \/ Verify(p)
      BY <3>2 DEF EnableGsp, Mount, Rename, Copy, Undo, Verify
    <3>3. CASE OpenMain(p) \/ OpenBoot(p) \/ WriteMain(p) \/ WriteBoot(p)
      BY <3>3 DEF OpenMain, OpenBoot, WriteMain, WriteBoot, OnDisk
    <3>4. CASE DropMain(p) \/ DropBoot(p)
      BY <3>4 DEF DropMain, DropBoot, Drop
    <3>5. CASE Stat(p) \/ Compare(p)
      BY <3>5 DEF Stat, Compare, Slot, Overlook
    <3>6. CASE FindEntry(p) \/ MountAgain(p) \/ AddFirst(p) \/ Device(p) \/ Path(p)
      BY <3>6 DEF FindEntry, MountAgain, AddFirst, Device, Path, SetEntry, Quietly
    <3> QED BY <2>1, <3>1, <3>2, <3>3, <3>4, <3>5, <3>6 DEF Install
  <2>2. ASSUME NEW p \in Tools, Uninstall(p)
        PROVE  UNCHANGED had /\ (UNCHANGED blind \/ blind' = TRUE)
    BY <2>2
       DEF Uninstall, BeginUninstall, Begin, DeleteEntries, MountEsp, RemoveMain,
           ReadBak, OpenStd, WriteStd, CheckStd, RemoveBak, DeleteGsp, CheckLeftover,
           OnDisk, Quietly
  <2>3. ASSUME NEW p \in Tools, Exit(p) \/ Kill(p) PROVE UNCHANGED <<had, blind>>
    BY <2>3 DEF Exit, Kill
  <2>4. CASE EnsureGsp \/ Repair \/ Reorder \/ UNCHANGED vars
    BY <2>4 DEF EnsureGsp, Repair, Reorder, vars
  <2> QED BY <2>1, <2>2, <2>3, <2>4 DEF Next
<1> QED BY <1>1, <1>2

LEMMA DiskStep == OneAtATime /\ DiskInv /\ [Next]_vars => DiskInv'
<1> SUFFICES ASSUME OneAtATime, DiskInv, [Next]_vars PROVE DiskInv'
  OBVIOUS
<1> USE DEF DiskInv
<1>0. TypeOK'
  BY TypeStep
<1>1. ASSUME NEW p \in Tools, Install(p) \/ Uninstall(p) \/ Kill(p) PROVE DiskInv'
  <2>1. Works(p) \/ Starts(p)
    BY <1>1, Moves
  <2>2. Alone' /\ ToldInv'
    BY <2>1, OthersRest
  <2>3. ASSUME Seen' PROVE Held' /\ \A q \in Tools : Place(q)'
    <3>1. Seen /\ blind' = FALSE
      BY <2>3, SeenBefore
    <3>2. Held' /\ Place(p)'
      <4>1. CASE Install(p)
        BY <3>1, <4>1, InstallSlot
      <4>2. CASE Uninstall(p)
        BY <3>1, <4>2, UninstallSlot
      <4>3. CASE Kill(p)
        BY <3>1, <4>3 DEF Kill, SlotInv, Held, Place, TypeOK
      <4> QED BY <1>1, <4>1, <4>2, <4>3
    <3>3. ASSUME NEW q \in Tools \ {p} PROVE Place(q)'
      BY <2>1, OthersRest DEF Place, None
    <3> QED BY <3>2, <3>3
  <2> QED BY <1>0, <2>2, <2>3 DEF SlotInv
<1>2. ASSUME NEW p \in Tools, Exit(p) PROVE DiskInv'
  BY <1>0, <1>2 DEF Exit, history, Alone, ToldInv, Quiet, SlotInv, Seen, Held, Place
<1>3. CASE Repair
  BY <1>0, <1>3 DEF Repair, silent, Set, TypeOK, Alone, ToldInv, Quiet, SlotInv, Seen,
                    Held, Place, None
<1>4. CASE Reorder
  BY <1>0, <1>4 DEF Reorder, silent, history, Alone, ToldInv, Quiet, SlotInv, Seen,
                    Held, Place, None
<1>5. CASE EnsureGsp \/ UNCHANGED vars
  BY <1>0, <1>5 DEF EnsureGsp, vars, tool, history, Alone, ToldInv, Quiet, SlotInv, Seen,
                    Held, Place
<1> QED BY <1>1, <1>2, <1>3, <1>4, <1>5 DEF Next

(* As long as one tool ends before the next begins, the loader that was in *)
(* the slot before the first installation is never lost, whatever fails or *)
(* is killed, until deployEspEfi takes a file that is there for absent     *)
(* (deployEspEfi, UninstallEspEfi).                                        *)
THEOREM OriginalKept == ASSUME OneAtATime PROVE Spec => []OriginalSurvives
<1>1. DiskInv => OriginalSurvives
  BY DEF DiskInv, SlotInv, Seen, Held, OriginalSurvives
<1>2. DiskInv /\ [Next]_vars => DiskInv'
  BY DiskStep
<1> QED BY <1>1, <1>2, InitDiskInv, PTL DEF Spec

(* Every step of a tool that sees its files is one of LoaderSwap.          *)
SwapSteps == [Swap!Next]_(Swap!vars)

LEMMA SwapInstall ==
    ASSUME DiskInv, Seen, Seen', blind' = FALSE, NEW p \in Tools, Install(p)
    PROVE  SwapSteps
<1> USE VersionsAreNew
    DEF DiskInv, TypeOK, SlotInv, Held, Place, Go, Tell, Set, tool, history, silent,
        firmware, None, Windows, SwapSteps, Swap!Next, Swap!vars
<1>0. Held /\ Place(p)
  OBVIOUS
<1>1. CASE UNCHANGED file
  BY <1>1
<1>2. CASE BeginInstall(p) \/ BeginComponent(p) \/ EnableGsp(p) \/ Mount(p)
  BY <1>1, <1>2 DEF BeginInstall, BeginComponent, Begin, EnableGsp, Mount
<1>3. CASE OpenMain(p) \/ WriteMain(p) \/ DropMain(p)
  <2>1. UNCHANGED <<file["boot"], file["bak"]>>
    BY <1>3 DEF OpenMain, WriteMain, DropMain, Truncate, Fill, Drop
  <2> QED BY <2>1
<1>4. CASE OpenBoot(p) \/ WriteBoot(p) \/ DropBoot(p)
  <2>1. file["bak"] = Windows /\ UNCHANGED file["bak"]
    BY <1>0, <1>4 DEF OpenBoot, WriteBoot, DropBoot, Truncate, Fill, Drop
  <2> QED BY <2>1 DEF Swap!Write
<1>5. CASE Rename(p)
  BY <1>0, <1>5 DEF Rename, Swap!SetAside
<1>6. CASE Stat(p) \/ Compare(p) \/ FindEntry(p) \/ Copy(p) \/ MountAgain(p)
  BY <1>1, <1>6 DEF Stat, Compare, Slot, FindEntry, Copy, MountAgain, Quietly
<1>7. CASE Device(p) \/ Path(p) \/ AddFirst(p) \/ Undo(p) \/ Verify(p)
  BY <1>1, <1>7 DEF Device, Path, SetEntry, AddFirst, Undo, Verify, Quietly
<1> QED BY <1>2, <1>3, <1>4, <1>5, <1>6, <1>7 DEF Install

LEMMA SwapUninstall ==
    ASSUME DiskInv, Seen, Seen', blind' = FALSE, NEW p \in Tools, Uninstall(p)
    PROVE  SwapSteps
<1> USE DEF DiskInv, TypeOK, SlotInv, Held, Place, Go, Tell, Set, tool, history,
        silent, firmware, None, Windows, SwapSteps, Swap!Next, Swap!vars
<1>0. Held /\ Place(p)
  OBVIOUS
<1>1. CASE UNCHANGED file
  BY <1>1
<1>2. CASE BeginUninstall(p) \/ DeleteEntries(p) \/ MountEsp(p) \/ ReadBak(p)
  BY <1>1, <1>2 DEF BeginUninstall, Begin, DeleteEntries, Quietly, MountEsp, OnDisk, ReadBak
<1>3. CASE RemoveMain(p)
  BY <1>3 DEF RemoveMain
<1>4. CASE OpenStd(p) \/ WriteStd(p)
  <2>1. file["bak"] = Windows /\ UNCHANGED file["bak"]
    BY <1>0, <1>4 DEF OpenStd, WriteStd, Truncate, Fill
  <2> QED BY <2>1 DEF Swap!Write
<1>5. CASE RemoveBak(p)
  BY <1>0, <1>5 DEF RemoveBak, Swap!Discard
<1>6. CASE CheckStd(p) \/ DeleteGsp(p) \/ CheckLeftover(p)
  BY <1>1, <1>6 DEF CheckStd, OnDisk, DeleteGsp, CheckLeftover
<1> QED BY <1>2, <1>3, <1>4, <1>5, <1>6 DEF Uninstall

LEMMA SwapStep == ASSUME OneAtATime, DiskInv, [Next]_vars PROVE SwapSteps
<1>1. CASE ~ Seen'
  BY <1>1 DEF SwapSteps, Swap!Next, Swap!Overlooked
<1>2. CASE Seen'
  <2>1. Seen /\ blind' = FALSE
    BY <1>2, SeenBefore DEF DiskInv
  <2>2. ASSUME NEW p \in Tools, Install(p) \/ Uninstall(p) PROVE SwapSteps
    BY <1>2, <2>1, <2>2, SwapInstall, SwapUninstall
  <2>3. CASE Repair
    BY <1>2, <2>1, <2>3
       DEF Repair, Set, DiskInv, TypeOK, SlotInv, Held, SwapSteps, Swap!Next, Swap!vars,
           Swap!Write, None, Windows
  <2>4. CASE \/ \E p \in Tools : Exit(p) \/ Kill(p)
             \/ EnsureGsp \/ Reorder \/ UNCHANGED vars
    <3>1. UNCHANGED file
      BY <2>4 DEF Exit, Kill, EnsureGsp, Reorder, vars
    <3> QED BY <1>2, <2>1, <3>1 DEF SwapSteps, Swap!vars
  <2> QED BY <2>2, <2>3, <2>4 DEF Next
<1> QED BY <1>1, <1>2

(* As long as one tool ends before the next begins, installers and         *)
(* uninstallers implement LoaderSwap, whatever fails, is killed or written *)
(* by Windows, and whichever releases take turns, until a file that is     *)
(* there is taken for absent.                                              *)
THEOREM ToolsImplementSwap == ASSUME OneAtATime PROVE Spec => SwapSpec
<1>1. Init => Swap!Init
  <2> SUFFICES ASSUME Init PROVE Swap!Init
    OBVIOUS
  <2>1. PICK b \in {None, Windows} :
           file = [main |-> None, boot |-> b, bak |-> None] /\ had = (b = Windows)
    BY Zenon DEF Init
  <2>2. Seen \in BOOLEAN
    BY DEF Seen
  <2>3. Seen => b = Windows
    BY <2>1, Zenon DEF Seen
  <2>4. file["boot"] = b /\ file["bak"] = None
    BY <2>1
  <2> QED BY <2>2, <2>3, <2>4 DEF Swap!Init
<1>2. DiskInv /\ [Next]_vars => [Swap!Next]_(Swap!vars)
  BY SwapStep DEF SwapSteps
<1> QED BY InitDiskInv, DiskStep, <1>1, <1>2, PTL DEF Spec, SwapSpec, Swap!Spec

(* As long as one tool ends before the next begins, an uninstaller that    *)
(* lists no leftover has put that loader back, unless its look for         *)
(* leftovers passed over a file, or deployEspEfi had overlooked the loader *)
(* or its backup (UninstallEspEfi, CheckLeftover).                         *)
THEOREM OriginalRestored == ASSUME OneAtATime PROVE Spec => []UninstallRestores
<1>1. DiskInv => UninstallRestores
  BY DEF DiskInv, SlotInv, Seen, Held, Place, UninstallRestores, None, Windows
<1>2. DiskInv /\ [Next]_vars => DiskInv'
  BY DiskStep
<1> QED BY <1>1, <1>2, InitDiskInv, PTL DEF Spec
-----------------------------------------------------------------------------
(* What failed calls leave behind.  Only the tool at work counts: the      *)
(* others rest.                                                            *)
Rest(p) == \A q \in Tools \ {p} : pc[q] = "idle"

LEMMA OneWorks ==
    ASSUME OneAtATime, DiskInv, NEW p \in Tools,
           Install(p) \/ Uninstall(p) \/ Kill(p)
    PROVE  /\ Rest(p) /\ Rest(p)'
           /\ \A q \in Tools \ {p} : told'[q] = None
           /\ told[p] # None => pc[p] = "idle"
<1>1. Works(p) \/ Starts(p)
  BY Moves
<1>2. TypeOK /\ Alone /\ ToldInv
  BY DEF DiskInv
<1>3. \A q \in Tools \ {p} : pc[q] = "idle" /\ pc'[q] = "idle" /\ told'[q] = None
  BY <1>1, <1>2, OthersRest
<1>4. told[p] # None => pc[p] = "idle"
  BY <1>2 DEF ToldInv, Quiet
<1> QED BY <1>3, <1>4 DEF Rest

(* The flags of the history stay up, and its counters do not go back.      *)
LEMMA FlagsStay ==
    ASSUME TypeOK, [Next]_vars
    PROVE  /\ UNCHANGED had
           /\ stuck' = FALSE => stuck = FALSE
           /\ blind' = FALSE => blind = FALSE
           /\ bare' = FALSE => bare = FALSE
           /\ kills' = 0 => kills = 0
           /\ troubles' = 0 => troubles = 0 /\ blind' = blind
<1> USE DEF tool, history, silent, firmware, counts, Trouble, Overlook
<1>0. troubles \in Nat /\ kills \in Nat
  BY DEF TypeOK
<1>1. ASSUME NEW p \in Tools, Install(p) \/ Uninstall(p)
      PROVE  /\ UNCHANGED <<had, kills>>
             /\ stuck' = stuck \/ stuck' = TRUE
             /\ bare' = bare \/ bare' = TRUE
             /\ blind' = blind \/ blind' = TRUE
             /\ troubles' = troubles \/ troubles' = troubles + 1
             /\ troubles' = troubles => blind' = blind
  <2>1. CASE BeginInstall(p) \/ BeginComponent(p) \/ BeginUninstall(p)
    BY <2>1 DEF BeginInstall, BeginComponent, BeginUninstall, Begin
  <2>2. CASE EnableGsp(p) \/ Mount(p) \/ Rename(p) \/ Copy(p) \/ Verify(p)
    BY <2>2 DEF EnableGsp, Mount, Rename, Copy, Verify
  <2>3. CASE OpenMain(p) \/ OpenBoot(p) \/ WriteMain(p) \/ WriteBoot(p)
    BY <2>3 DEF OpenMain, OpenBoot, WriteMain, WriteBoot, Truncate, Fill, OnDisk
  <2>4. CASE DropMain(p) \/ DropBoot(p)
    BY <2>4 DEF DropMain, DropBoot, Drop
  <2>5. CASE Stat(p) \/ Compare(p)
    BY <1>0, <2>5 DEF Stat, Compare, Slot
  <2>6. CASE FindEntry(p) \/ MountAgain(p) \/ AddFirst(p) \/ Device(p) \/ Path(p)
    BY <2>6 DEF FindEntry, MountAgain, AddFirst, Device, Path, SetEntry, Call, Quietly
  <2>7. CASE Undo(p)
    BY <2>7 DEF Undo
  <2>8. CASE DeleteEntries(p) \/ MountEsp(p) \/ RemoveMain(p) \/ ReadBak(p)
    BY <2>8 DEF DeleteEntries, MountEsp, RemoveMain, ReadBak, Quietly, OnDisk
  <2>9. CASE OpenStd(p) \/ WriteStd(p) \/ CheckStd(p) \/ RemoveBak(p) \/ DeleteGsp(p)
    BY <2>9 DEF OpenStd, WriteStd, CheckStd, RemoveBak, DeleteGsp, Truncate, Fill, OnDisk
  <2>10. CASE CheckLeftover(p)
    BY <1>0, <2>10 DEF CheckLeftover
  <2> QED
    BY <1>1, <2>1, <2>2, <2>3, <2>4, <2>5, <2>6, <2>7, <2>8, <2>9, <2>10
       DEF Install, Uninstall
<1>2. ASSUME NEW p \in Tools, Exit(p) \/ Kill(p)
      PROVE  UNCHANGED <<had, stuck, blind, bare, troubles>> /\ (kills' = 0 => kills = 0)
  BY <1>0, <1>2 DEF Exit, Kill
<1>3. CASE EnsureGsp \/ Repair \/ Reorder \/ UNCHANGED vars
  BY <1>3 DEF EnsureGsp, Repair, Reorder, vars
<1>4. CASE \E p \in Tools : Install(p) \/ Uninstall(p)
  <2>1. PICK p \in Tools : Install(p) \/ Uninstall(p)
    BY <1>4
  <2>2. /\ UNCHANGED <<had, kills>>
        /\ stuck' = stuck \/ stuck' = TRUE
        /\ bare' = bare \/ bare' = TRUE
        /\ blind' = blind \/ blind' = TRUE
        /\ troubles' = troubles \/ troubles' = troubles + 1
        /\ troubles' = troubles => blind' = blind
    BY <1>1, <2>1
  <2>3. troubles' = 0 => troubles' = troubles
    BY <1>0, <2>2
  <2> QED BY <2>2, <2>3
<1> QED BY <1>2, <1>3, <1>4 DEF Next

(* Every entry is set up, except the one the tool at work is busy with.    *)
Setting == {"mountAgain", "device", "path", "undo"}
SetUp(p) ==
    \A g \in Entries : entry[g] = "unlock" \/ (guid[p] = g /\ pc[p] \in Setting)
EntryInv ==
    kills = 0 /\ ~ stuck =>
        \A g \in Entries : \/ entry[g] = "unlock"
                           \/ \E p \in Tools : guid[p] = g /\ pc[p] \in Setting

LEMMA CopyWork ==
    ASSUME TypeOK, NEW p \in Tools, Copy(p), SetUp(p) PROVE SetUp(p)'
<1>1. CASE UNCHANGED <<entry, behind, guid>>
  BY <1>1, Copies DEF SetUp, Entries, Setting
<1>2. CASE ~ UNCHANGED <<entry, behind, guid>>
  <2>1. PICK g \in Guids \ Entries :
           entry' = [entry EXCEPT ![g] = "copied"] /\ guid' = [guid EXCEPT ![p] = g]
    BY <1>2, Copies, Zenon
  <2>2. pc[p] = "copy" /\ pc' = [pc EXCEPT ![p] = "mountAgain"]
    BY <1>2, Copies, Zenon
  <2>3. \A h \in Guids \ {g} : entry'[h] = entry[h]
    BY <2>1 DEF TypeOK
  <2> QED BY <2>1, <2>2, <2>3 DEF TypeOK, SetUp, Setting, Entries
<1> QED BY <1>1, <1>2

LEMMA EntryWork ==
    ASSUME TypeOK, NEW p \in Tools, Install(p) \/ Uninstall(p), SetUp(p),
           stuck' = FALSE
    PROVE  SetUp(p)'
<1> USE DEF TypeOK, SetUp, Setting, Entries, Go, Tell, tool, history, silent, firmware,
        None
<1>1. CASE BeginInstall(p) \/ BeginComponent(p) \/ BeginUninstall(p)
  BY <1>1 DEF BeginInstall, BeginComponent, BeginUninstall, Begin
<1>2. CASE EnableGsp(p) \/ Mount(p) \/ Rename(p) \/ Verify(p)
  BY <1>2 DEF EnableGsp, Mount, Rename, Verify
<1>3. CASE OpenMain(p) \/ OpenBoot(p) \/ WriteMain(p) \/ WriteBoot(p)
  BY <1>3 DEF OpenMain, OpenBoot, WriteMain, WriteBoot, Truncate, Fill, OnDisk
<1>4. CASE DropMain(p) \/ DropBoot(p)
  BY <1>4 DEF DropMain, DropBoot, Drop
<1>5. CASE Stat(p) \/ Compare(p)
  BY <1>5 DEF Stat, Compare, Slot
<1>6. CASE FindEntry(p) \/ MountAgain(p)
  BY <1>6 DEF FindEntry, MountAgain, Quietly
<1>7. CASE Copy(p)
  BY <1>7, CopyWork
<1>8. CASE Device(p)
  BY <1>8 DEF Device, SetEntry, Call, Quietly
<1>9. CASE Path(p)
  BY <1>9 DEF Path, SetEntry, Call, Quietly
<1>10. CASE AddFirst(p)
  BY <1>10 DEF AddFirst, Call, Quietly
<1>11. CASE Undo(p)
  BY <1>11 DEF Undo, Delete
<1>12. CASE DeleteEntries(p)
  <2>1. PICK gone : Delete(gone)
    BY <1>12 DEF DeleteEntries
  <2> QED BY <1>12, <2>1 DEF Delete, DeleteEntries, Quietly
<1>13. CASE MountEsp(p) \/ RemoveMain(p) \/ ReadBak(p) \/ DeleteGsp(p) \/ CheckLeftover(p)
  BY <1>13 DEF MountEsp, RemoveMain, ReadBak, DeleteGsp, CheckLeftover, OnDisk
<1>14. CASE OpenStd(p) \/ WriteStd(p) \/ CheckStd(p) \/ RemoveBak(p)
  BY <1>14 DEF OpenStd, WriteStd, CheckStd, RemoveBak, Truncate, Fill, OnDisk
<1> QED
  BY <1>1, <1>2, <1>3, <1>4, <1>5, <1>6, <1>7, <1>8, <1>9, <1>10, <1>11, <1>12, <1>13,
     <1>14 DEF Install, Uninstall

LEMMA EntryStep ==
    ASSUME OneAtATime, DiskInv, EntryInv, [Next]_vars PROVE EntryInv'
<1> SUFFICES ASSUME kills' = 0, ~ stuck'
             PROVE  \A g \in Entries' :
                       \/ entry'[g] = "unlock"
                       \/ \E p \in Tools : guid'[p] = g /\ pc'[p] \in Setting
  BY DEF EntryInv
<1>a. TypeOK /\ TypeOK'
  BY TypeStep DEF DiskInv
<1>b. stuck' = FALSE
  BY <1>a DEF TypeOK
<1>0. TypeOK /\ kills = 0 /\ stuck = FALSE /\ stuck' = FALSE
  BY <1>a, <1>b, FlagsStay
<1>1. ASSUME NEW p \in Tools, Install(p) \/ Uninstall(p)
      PROVE  \A g \in Entries' : \/ entry'[g] = "unlock"
                                 \/ \E q \in Tools : guid'[q] = g /\ pc'[q] \in Setting
  <2>1. Rest(p)
    BY <1>1, OneWorks
  <2>2. SetUp(p)
    BY <1>0, <2>1 DEF EntryInv, SetUp, Rest, Setting
  <2>3. SetUp(p)'
    BY <1>0, <1>1, <2>2, EntryWork
  <2> QED BY <2>3 DEF SetUp
<1>2. ASSUME NEW p \in Tools, Kill(p) PROVE FALSE
  BY <1>0, <1>2 DEF Kill
<1>3. CASE \/ \E p \in Tools : Exit(p)
           \/ EnsureGsp \/ Repair \/ Reorder \/ UNCHANGED vars
  BY <1>0, <1>3 DEF Exit, EnsureGsp, Repair, Reorder, vars, tool, firmware, silent,
                    EntryInv, Entries
<1> QED BY <1>1, <1>2, <1>3 DEF Next

(* What is in place once a tool has come so far, or has said so.           *)
AfterMain == {"stat", "compare", "rename", "openBoot", "writeBoot", "enum", "copy",
              "mountAgain", "device", "path", "undo", "first", "verify"}
AfterBoot == {"enum", "copy", "mountAgain", "device", "path", "undo", "first", "verify"}
Written(p) ==
    /\ pc[p] \in AfterMain \/ told[p] = "verified" => file["main"] = ver[p]
    /\ pc[p] \in AfterBoot \/ told[p] = "verified" => file["boot"] = ver[p]
    /\ told[p] = "verified" => SeemsFirst \in Entries
VerifiedInv == \A p \in Tools : Written(p)

LEMMA WrittenWork ==
    ASSUME TypeOK, NEW p \in Tools, Install(p) \/ Uninstall(p), Written(p),
           told[p] # None => pc[p] = "idle"
    PROVE  Written(p)'
<1> USE DEF TypeOK, Written, AfterMain, AfterBoot, Entries, SeemsFirst, Go, Tell, Set, tool, history,
        silent, firmware, None
<1>1. CASE BeginInstall(p) \/ BeginComponent(p) \/ BeginUninstall(p)
  BY <1>1 DEF BeginInstall, BeginComponent, BeginUninstall, Begin
<1>2. CASE EnableGsp(p) \/ Mount(p) \/ Rename(p)
  BY <1>2 DEF EnableGsp, Mount, Rename
<1>3. CASE OpenMain(p) \/ OpenBoot(p)
  BY <1>3 DEF OpenMain, OpenBoot, Truncate, OnDisk
<1>4. CASE WriteMain(p) \/ WriteBoot(p)
  BY <1>4 DEF WriteMain, WriteBoot, Fill, OnDisk
<1>5. CASE DropMain(p) \/ DropBoot(p)
  BY <1>5 DEF DropMain, DropBoot, Drop
<1>6. CASE Stat(p) \/ Compare(p)
  BY <1>6 DEF Stat, Compare, Slot
<1>7. CASE FindEntry(p) \/ MountAgain(p) \/ Copy(p)
  BY <1>7 DEF FindEntry, MountAgain, Copy, Quietly
<1>8. CASE Device(p) \/ Path(p) \/ AddFirst(p)
  BY <1>8 DEF Device, Path, AddFirst, SetEntry, Call, Quietly
<1>9. CASE Undo(p) \/ Verify(p)
  BY <1>9 DEF Undo, Verify
<1>10. CASE DeleteEntries(p) \/ MountEsp(p) \/ RemoveMain(p) \/ ReadBak(p)
  BY <1>10 DEF DeleteEntries, MountEsp, RemoveMain, ReadBak, Quietly, OnDisk
<1>11. CASE OpenStd(p) \/ WriteStd(p) \/ CheckStd(p) \/ RemoveBak(p) \/ DeleteGsp(p)
  BY <1>11 DEF OpenStd, WriteStd, CheckStd, RemoveBak, DeleteGsp, Truncate, Fill, OnDisk
<1>12. CASE CheckLeftover(p)
  <2>1. pc'[p] = "idle" /\ told'[p] \in {"removed", "leftover"}
    BY <1>12, Looks
  <2> QED BY <2>1
<1> QED
  BY <1>1, <1>2, <1>3, <1>4, <1>5, <1>6, <1>7, <1>8, <1>9, <1>10, <1>11, <1>12
     DEF Install, Uninstall

LEMMA VerifiedStep ==
    ASSUME OneAtATime, DiskInv, VerifiedInv, [Next]_vars PROVE VerifiedInv'
<1>0. TypeOK
  BY DEF DiskInv
<1>1. ASSUME NEW p \in Tools, Install(p) \/ Uninstall(p) \/ Kill(p)
      PROVE  VerifiedInv'
  <2>1. /\ Rest(p)' /\ \A q \in Tools \ {p} : told'[q] = None
        /\ told[p] # None => pc[p] = "idle"
    BY <1>1, OneWorks
  <2>2. Written(p)'
    <3>1. CASE Install(p) \/ Uninstall(p)
      BY <1>0, <2>1, <3>1, WrittenWork DEF VerifiedInv
    <3>2. CASE Kill(p)
      BY <1>0, <2>1, <3>2 DEF Kill, Written, AfterMain, AfterBoot, TypeOK, None,
                              SeemsFirst, Entries, firmware
    <3> QED BY <1>1, <3>1, <3>2
  <2>3. ASSUME NEW q \in Tools \ {p} PROVE Written(q)'
    BY <2>1 DEF Rest, Written, AfterMain, AfterBoot, None
  <2> QED BY <2>2, <2>3 DEF VerifiedInv
<1>2. CASE Repair \/ Reorder
  BY <1>0, <1>2 DEF Repair, Reorder, Quiet, VerifiedInv, Written, AfterMain, AfterBoot,
                    None
<1>3. CASE \/ \E p \in Tools : Exit(p)
           \/ EnsureGsp \/ UNCHANGED vars
  BY <1>3 DEF Exit, EnsureGsp, vars, tool, firmware, VerifiedInv, Written, Entries,
              SeemsFirst
<1> QED BY <1>1, <1>2, <1>3 DEF Next

(* As long as one tool ends before the next begins, both files are the     *)
(* release of an installer that reports the entry as verified, and the     *)
(* entry is first or next to Windows Boot Manager; it is wholly set up     *)
(* however many calls failed on the way, unless a tool was killed or could *)
(* not undo (setupBootEntry, verifyBootEntry).                             *)
THEOREM VerifiedUnlocks == ASSUME OneAtATime PROVE Spec => []VerifiedMeansUnlock
<1> DEFINE Inv == DiskInv /\ EntryInv /\ VerifiedInv
<1>1. Init => Inv
  <2>1. ASSUME Init PROVE EntryInv /\ VerifiedInv
    BY <2>1 DEF Init, EntryInv, Entries, VerifiedInv, Written, AfterMain, AfterBoot, None
  <2> QED BY <2>1, InitDiskInv
<1>2. Inv /\ [Next]_vars => Inv'
  BY DiskStep, EntryStep, VerifiedStep
<1>3. Inv => VerifiedMeansUnlock
  <2> SUFFICES ASSUME Inv, NEW p \in Tools, Quiet, told[p] = "verified"
               PROVE  /\ file["main"] = ver[p] /\ file["boot"] = ver[p]
                      /\ SeemsFirst \in Entries
                      /\ kills = 0 /\ ~ stuck => entry[SeemsFirst] = "unlock"
    BY DEF VerifiedMeansUnlock
  <2>1. file["main"] = ver[p] /\ file["boot"] = ver[p] /\ SeemsFirst \in Entries
    BY DEF VerifiedInv, Written
  <2>2. ASSUME kills = 0, ~ stuck PROVE entry[SeemsFirst] = "unlock"
    BY <2>1, <2>2 DEF EntryInv, Quiet, Setting
  <2> QED BY <2>1, <2>2
<1> QED BY <1>1, <1>2, <1>3, PTL DEF Spec

(* A torn file belongs to the tool at work, or lies beside the backup; the *)
(* backup, and what a tool read from it, is never torn.                    *)
Intact(p) ==
    /\ file["main"] = "torn" => pc[p] \in {"writeMain", "dropMain"}
    /\ file["boot"] = "torn" =>
          file["bak"] # None \/ pc[p] \in {"writeBoot", "dropBoot"}
    /\ file["bak"] # "torn"
    /\ pc[p] \in {"compare", "rename"} => file["bak"] = None
    /\ pc[p] \in {"openStd", "writeStd", "checkStd"} =>
          file["bak"] # None /\ buf[p] # "torn"
    /\ pc[p] = "removeBak" => file["boot"] # "torn"
TornInv ==
    kills = 0 /\ ~ stuck /\ ~ blind =>
        /\ file["main"] = "torn" =>
              \E p \in Tools : pc[p] \in {"writeMain", "dropMain"}
        /\ file["boot"] = "torn" =>
              \/ file["bak"] # None
              \/ \E p \in Tools : pc[p] \in {"writeBoot", "dropBoot"}
        /\ file["bak"] # "torn"
        /\ \A p \in Tools : pc[p] # "idle" => Intact(p)

LEMMA IntactWork ==
    ASSUME TypeOK, NEW p \in Tools, Install(p) \/ Uninstall(p), Intact(p),
           stuck' = FALSE, blind' = FALSE
    PROVE  Intact(p)'
<1> USE VersionsAreNew
    DEF TypeOK, Intact, Go, Tell, Set, tool, history, silent, firmware, None, Windows
<1>1. CASE BeginInstall(p) \/ BeginComponent(p) \/ BeginUninstall(p)
  BY <1>1 DEF BeginInstall, BeginComponent, BeginUninstall, Begin
<1>2. CASE EnableGsp(p) \/ Mount(p)
  BY <1>2 DEF EnableGsp, Mount
<1>3. CASE OpenMain(p) \/ OpenBoot(p)
  BY <1>3 DEF OpenMain, OpenBoot, Truncate, OnDisk
<1>4. CASE WriteMain(p) \/ WriteBoot(p)
  BY <1>4 DEF WriteMain, WriteBoot, Fill, OnDisk
<1>5. CASE DropMain(p) \/ DropBoot(p)
  BY <1>5 DEF DropMain, DropBoot, Drop
<1>6. CASE Stat(p) \/ Compare(p)
  BY <1>6 DEF Stat, Compare, Slot, Overlook
<1>7. CASE Rename(p)
  BY <1>7 DEF Rename
<1>8. CASE FindEntry(p) \/ MountAgain(p) \/ Undo(p) \/ Verify(p)
  BY <1>8 DEF FindEntry, MountAgain, Undo, Verify, Quietly
<1>9. CASE Device(p) \/ Path(p) \/ AddFirst(p)
  BY <1>9 DEF Device, Path, AddFirst, SetEntry, Call, Quietly
<1>10. CASE DeleteEntries(p) \/ MountEsp(p) \/ RemoveMain(p) \/ ReadBak(p)
  BY <1>10 DEF DeleteEntries, MountEsp, RemoveMain, ReadBak, Quietly, OnDisk
<1>11. CASE OpenStd(p) \/ WriteStd(p)
  BY <1>11 DEF OpenStd, WriteStd, Truncate, Fill, OnDisk
<1>12. CASE CheckStd(p) \/ RemoveBak(p)
  BY <1>12 DEF CheckStd, RemoveBak, OnDisk
<1>13. CASE DeleteGsp(p) \/ CheckLeftover(p) \/ Copy(p)
  BY <1>13, Looks, Copies DEF DeleteGsp
<1> QED
  BY <1>1, <1>2, <1>3, <1>4, <1>5, <1>6, <1>7, <1>8, <1>9, <1>10, <1>11, <1>12, <1>13
     DEF Install, Uninstall

LEMMA TornStep ==
    ASSUME OneAtATime, DiskInv, TornInv, [Next]_vars PROVE TornInv'
<1> DEFINE Whole == /\ file["main"] = "torn" =>
                          \E p \in Tools : pc[p] \in {"writeMain", "dropMain"}
                    /\ file["boot"] = "torn" =>
                          \/ file["bak"] # None
                          \/ \E p \in Tools : pc[p] \in {"writeBoot", "dropBoot"}
                    /\ file["bak"] # "torn"
                    /\ \A p \in Tools : pc[p] # "idle" => Intact(p)
<1> SUFFICES ASSUME kills' = 0, ~ stuck', ~ blind' PROVE Whole'
  BY DEF TornInv
<1>a. TypeOK /\ TypeOK'
  BY TypeStep DEF DiskInv
<1>b. stuck' = FALSE /\ blind' = FALSE
  BY <1>a DEF TypeOK
<1>c. kills = 0 /\ stuck = FALSE /\ blind = FALSE
  BY <1>a, <1>b, FlagsStay
<1>d. Whole
  BY <1>c DEF TornInv
<1>1. ASSUME NEW p \in Tools, Install(p) \/ Uninstall(p) PROVE Whole'
  <2>1. Rest(p) /\ Rest(p)'
    BY <1>1, OneWorks
  <2>2. Intact(p)
    BY <1>d, <2>1 DEF Rest, Intact
  <2>3. Intact(p)'
    BY <1>a, <1>b, <1>1, <2>2, IntactWork
  <2> QED BY <2>1, <2>3 DEF Rest, Intact
<1>2. ASSUME NEW p \in Tools, Kill(p) PROVE FALSE
  BY <1>a, <1>c, <1>2 DEF Kill, TypeOK
<1>3. CASE Repair
  BY <1>a, <1>d, <1>3 DEF Repair, Quiet, Set, TypeOK, Windows
<1>4. CASE \/ \E p \in Tools : Exit(p)
           \/ EnsureGsp \/ Reorder \/ UNCHANGED vars
  <2>1. UNCHANGED <<file, pc, buf>>
    BY <1>4 DEF Exit, EnsureGsp, Reorder, vars, tool, silent
  <2> QED BY <1>d, <2>1 DEF Intact
<1> QED BY <1>1, <1>2, <1>3, <1>4 DEF Next

(* As long as one tool ends before the next begins, a failed call leaves   *)
(* no torn EFI, no torn slot without a backup and no half-made entry       *)
(* behind, unless a tool was killed, a clean-up failed too or a file was   *)
(* overlooked (writeVerified, setupBootEntry, UninstallEspEfi).            *)
THEOREM NoHalvesLeft == ASSUME OneAtATime PROVE Spec => []FailureLeavesNoHalves
<1> DEFINE Inv == DiskInv /\ EntryInv /\ TornInv
<1>1. Init => Inv
  <2>1. ASSUME Init PROVE EntryInv
    BY <2>1 DEF Init, EntryInv, Entries
  <2>2. ASSUME Init PROVE TornInv
    <3>1. /\ \A f \in {"main", "boot", "bak"} : file[f] # "torn"
          /\ \A p \in Tools : pc[p] = "idle"
      BY <2>2 DEF Init, None, Windows
    <3> QED BY <3>1 DEF TornInv
  <2> QED BY <2>1, <2>2, InitDiskInv
<1>2. Inv /\ [Next]_vars => Inv'
  BY DiskStep, EntryStep, TornStep
<1>3. Inv => FailureLeavesNoHalves
  BY DEF FailureLeavesNoHalves, Quiet, EntryInv, Setting, TornInv
<1> QED BY <1>1, <1>2, <1>3, PTL DEF Spec
-----------------------------------------------------------------------------
(* Without the registry value nothing unlocks: no entry the user could move *)
(* to the top, nor the slot if it held a loader.                            *)
NothingUnlocks == Entries = {} /\ (had => file["boot"] \notin Versions)
Covered(p) ==
    /\ gsp = FALSE => NothingUnlocks
    /\ pc[p] \in Installing \ {"gsp"} => gsp = TRUE
    /\ pc[p] \in Removing \ {"delete"} => Entries = {}
    /\ pc[p] \in {"checkStd", "removeBak", "gspKey", "leftover"} =>
          (had => file["boot"] = Windows)
GspInv ==
    troubles = 0 =>
        /\ blind = FALSE
        /\ ~ bare =>
              /\ gsp = FALSE => NothingUnlocks
              /\ \A p \in Tools : Covered(p)

LEMMA CoveredInstall ==
    ASSUME TypeOK, NEW p \in Tools, Install(p), Covered(p), bare' = FALSE,
           troubles = 0, troubles' = 0
    PROVE  Covered(p)'
<1> USE DEF TypeOK, Covered, NothingUnlocks, Entries, Installing, Removing, Go, Tell, Set, tool, history,
        silent, firmware, Trouble, None
<1>1. CASE BeginInstall(p) \/ BeginComponent(p)
  BY <1>1 DEF BeginInstall, BeginComponent, Begin
<1>2. CASE EnableGsp(p)
  BY <1>2 DEF EnableGsp
<1>3. CASE pc[p] \in Installing \ {"gsp"} /\ UNCHANGED gsp
           /\ \E to \in Installing \cup {"idle"} : pc' = [pc EXCEPT ![p] = to]
  <2>1. gsp' = TRUE
    BY <1>3
  <2> QED BY <1>3, <2>1
<1>4. CASE Mount(p) \/ Rename(p) \/ Verify(p) \/ Copy(p) \/ Undo(p)
  BY <1>3, <1>4 DEF Mount, Rename, Verify, Copy, Undo
<1>5. CASE OpenMain(p) \/ OpenBoot(p) \/ WriteMain(p) \/ WriteBoot(p)
  BY <1>3, <1>5 DEF OpenMain, OpenBoot, WriteMain, WriteBoot, Truncate, Fill, OnDisk
<1>6. CASE DropMain(p) \/ DropBoot(p)
  BY <1>3, <1>6 DEF DropMain, DropBoot, Drop
<1>7. CASE Stat(p) \/ Compare(p)
  BY <1>3, <1>7 DEF Stat, Compare, Slot
<1>8. CASE FindEntry(p) \/ MountAgain(p)
  BY <1>3, <1>8 DEF FindEntry, MountAgain, Quietly
<1>9. CASE Device(p) \/ Path(p) \/ AddFirst(p)
  BY <1>3, <1>9 DEF Device, Path, AddFirst, SetEntry, Call, Quietly
<1> QED BY <1>1, <1>2, <1>4, <1>5, <1>6, <1>7, <1>8, <1>9 DEF Install

LEMMA CoveredUninstall ==
    ASSUME DiskInv, NEW p \in Tools, Uninstall(p), Covered(p), blind = FALSE,
           troubles = 0, troubles' = 0
    PROVE  Covered(p)'
<1>0. TypeOK /\ (had => Held /\ Place(p))
  BY DEF DiskInv, SlotInv, Seen
<1> USE VersionsAreNew
    DEF TypeOK, Covered, NothingUnlocks, Entries, Installing, Removing, Go, Tell, Set, tool, history,
        silent, firmware, Trouble, None, Windows
<1>1. CASE BeginUninstall(p)
  BY <1>0, <1>1 DEF BeginUninstall, Begin
<1>2. CASE DeleteEntries(p)
  BY <1>0, <1>2 DEF DeleteEntries, Delete, Quietly
<1>3. CASE MountEsp(p) \/ RemoveMain(p)
  BY <1>0, <1>3 DEF MountEsp, RemoveMain, OnDisk
<1>4. CASE ReadBak(p)
  BY <1>0, <1>4 DEF ReadBak, Held
<1>5. CASE OpenStd(p)
  BY <1>0, <1>5 DEF OpenStd, Truncate, OnDisk
<1>6. CASE WriteStd(p)
  BY <1>0, <1>6 DEF WriteStd, Fill, OnDisk, Place
<1>7. CASE CheckStd(p)
  BY <1>0, <1>7 DEF CheckStd, OnDisk
<1>8. CASE RemoveBak(p)
  BY <1>0, <1>8 DEF RemoveBak, OnDisk
<1>9. CASE DeleteGsp(p)
  BY <1>0, <1>9 DEF DeleteGsp
<1>10. CASE CheckLeftover(p)
  BY <1>0, <1>10 DEF CheckLeftover
<1> QED
  BY <1>1, <1>2, <1>3, <1>4, <1>5, <1>6, <1>7, <1>8, <1>9, <1>10 DEF Uninstall

LEMMA GspStep ==
    ASSUME OneAtATime, DiskInv, GspInv, [Next]_vars PROVE GspInv'
<1> DEFINE Safe == gsp = FALSE => NothingUnlocks
<1> SUFFICES ASSUME troubles' = 0
             PROVE  /\ blind' = FALSE
                    /\ ~ bare' => Safe' /\ \A p \in Tools : Covered(p)'
  BY DEF GspInv
<1>a. TypeOK /\ TypeOK'
  BY TypeStep DEF DiskInv
<1>b. troubles = 0 /\ blind' = blind /\ blind = FALSE
  BY <1>a, FlagsStay DEF GspInv
<1> SUFFICES ASSUME ~ bare' PROVE Safe' /\ \A p \in Tools : Covered(p)'
  BY <1>b
<1>c. bare' = FALSE
  BY <1>a DEF TypeOK
<1>d. had' = had /\ bare = FALSE
  BY <1>a, <1>c, FlagsStay
<1>e. Safe /\ \A p \in Tools : Covered(p)
  BY <1>b, <1>d DEF GspInv
<1>1. ASSUME NEW p \in Tools, Install(p) \/ Uninstall(p) \/ Kill(p)
      PROVE  Safe' /\ \A q \in Tools : Covered(q)'
  <2>1. Rest(p)'
    BY <1>1, OneWorks
  <2>2. Covered(p)'
    <3>1. CASE Install(p)
      BY <1>a, <1>b, <1>c, <1>e, <3>1, CoveredInstall
    <3>2. CASE Uninstall(p)
      BY <1>b, <1>e, <3>2, CoveredUninstall
    <3>3. CASE Kill(p)
      BY <1>a, <1>d, <1>e, <3>3 DEF Kill, Covered, NothingUnlocks, TypeOK, Entries, firmware, Installing,
                              Removing
    <3> QED BY <1>1, <3>1, <3>2, <3>3
  <2>3. ASSUME NEW q \in Tools \ {p} PROVE Covered(q)'
    BY <2>1, <2>2 DEF Rest, Covered, NothingUnlocks, Installing, Removing
  <2> QED BY <2>2, <2>3 DEF Covered
<1>2. CASE Repair
  BY <1>a, <1>d, <1>e, <1>2, VersionsAreNew
     DEF Repair, Quiet, Set, TypeOK, Covered, NothingUnlocks, Entries, firmware, Installing, Removing
<1>3. CASE EnsureGsp
  BY <1>a, <1>d, <1>e, <1>3 DEF EnsureGsp, tool, firmware, Covered, NothingUnlocks, Entries
<1>4. CASE \/ \E p \in Tools : Exit(p)
           \/ Reorder \/ UNCHANGED vars
  <2>1. UNCHANGED <<file, entry, gsp, pc>>
    BY <1>4 DEF Exit, Reorder, vars, firmware
  <2> QED BY <1>d, <1>e, <2>1 DEF Covered, NothingUnlocks, Entries
<1> QED BY <1>1, <1>2, <1>3, <1>4 DEF Next

(* As long as one tool ends before the next begins, no call has failed and *)
(* nobody deployed the EFI without GSP, no entry of the tools, and no slot *)
(* that held a loader, unlocks the card without the registry value, at     *)
(* whatever point a tool is killed (install, uninstall).                   *)
THEOREM GspAlwaysCovers == ASSUME OneAtATime PROVE Spec => []GspCoversUnlock
<1> DEFINE Inv == DiskInv /\ GspInv
<1>1. Init => Inv
  <2>1. ASSUME Init PROVE GspInv
    <3>1. /\ blind = FALSE /\ Entries = {} /\ file["boot"] \notin Versions
          /\ \A p \in Tools : pc[p] = "idle"
      BY <2>1, VersionsAreNew DEF Init, Entries
    <3> QED BY <3>1 DEF GspInv, Covered, NothingUnlocks, Installing, Removing
  <2> QED BY <2>1, InitDiskInv
<1>2. Inv /\ [Next]_vars => Inv'
  BY DiskStep, GspStep
<1>3. Inv => GspCoversUnlock
  <2> SUFFICES ASSUME Inv, troubles = 0, ~ bare,
                      EntryUnlocks \/ (had /\ SlotUnlocks)
               PROVE  gsp
    BY DEF GspCoversUnlock
  <2>1. gsp # FALSE
    BY DEF GspInv, NothingUnlocks, EntryUnlocks, SlotUnlocks
  <2>2. gsp \in BOOLEAN
    BY DEF DiskInv, TypeOK
  <2> QED BY <2>1, <2>2
<1> QED BY <1>1, <1>2, <1>3, PTL DEF Spec
=============================================================================
