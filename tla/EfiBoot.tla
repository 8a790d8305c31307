-------------------------------- MODULE EfiBoot --------------------------------
(***************************************************************************)
(* One run of the EFI application, from efi_main to the start of Windows   *)
(* or the return to the firmware: the card is found and its registers made *)
(* accessible, up to three attempts to run the booter on the SEC2 engine   *)
(* follow, the engine is put back, BAR1 is resized (module Rebar, whose    *)
(* variables and steps these are) and the loader of Windows is started.    *)
(* How the card reacts is not in the code: every register that is read may *)
(* hold any value the code tells apart.                                    *)
(***************************************************************************)
EXTENDS Rebar, FiniteSets

CONSTANTS
    Volumes,         \* the file systems the firmware knows
    Own,             \* the one this application was loaded from
    Buffers,         \* memory the unlock asks for (6 allocations)
    Polls,           \* turns of every bounded wait
    Blocks,          \* blocks of a DMA transfer
    Deadline,        \* ticks of the timer of the card in 5 s
    AutoChainload    \* built without NO_AUTO_CHAINLOAD

ASSUME OwnIsAVolume == Own \in Volumes
ASSUME VolumesAreFinite == IsFiniteSet(Volumes)
ASSUME BootBounds ==
    /\ {Buffers, Polls, Blocks, Deadline} \subseteq Nat
    /\ Blocks > 0
ASSUME AutoChainloadIsBoolean == AutoChainload \in BOOLEAN

VARIABLES
    stage,           \* where efi_main is
    polls, count,    \* turns of the loop it is in
    attempt,         \* how the booter is run
    sec2,            \* the SEC2 engine
    gsp,             \* what runs on the GSP engine
    seeded,          \* the timer of the card was set from the clock
    elapsed,         \* ticks since the booter was started by DMA
    unlocked,        \* what is_unlocked would read
    loader,          \* of each volume: its loader of Windows
    left,            \* volumes the ladder has not tried
    exit             \* the status efi_main returned

card == <<sec2, gsp, seeded, unlocked>>
loops == <<polls, count, attempt, elapsed>>
disk == <<loader, left, exit>>
bootVars == <<stage, card, loops, disk>>
allVars == <<bootVars, vars>>

Waits == {"gfw", "wpr2", "ready", "scrub", "full", "idle", "trace", "halt"}
Stages == Waits \cup
    {"scan", "bar", "warm", "time", "alloc", "kill", "check", "recheck",
     "fwsec", "prepare", "reset", "switch", "switched", "issue", "load",
     "start", "result", "poll", "verdict", "sanitize", "again", "done",
     "rebar", "own", "volumes", "image", "windows", "returned"}

Sec2 == [cpu : {"idle", "running", "halted"},
         core : {"post", "reset", "chosen"},
         mbox : {"zero", "meta", "code", "ok"},
         mine : BOOLEAN, wedged : BOOLEAN, open : BOOLEAN,
         due : BOOLEAN]  \* started, and no clean-up written since

BootTypeOK ==
    /\ TypeOK
    /\ stage \in Stages
    /\ polls \in 0 .. Polls
    /\ count \in Nat
    /\ attempt \in {"direct", "reset", "dma"}
    /\ sec2 \in Sec2
    /\ gsp \in {"post", "idle", "running"}
    /\ seeded \in BOOLEAN /\ unlocked \in BOOLEAN
    /\ elapsed \in 0 .. Deadline
    /\ loader \in [Volumes -> {"none", "broken", "windows", "returns"}]
    /\ left \subseteq Volumes
    /\ exit \in {"none", "SUCCESS", "NOT_FOUND", "DEVICE_ERROR"}

(* After POST the firmware of the card runs on the GSP, SEC2 is at rest.   *)
BootInit ==
    /\ Init
    /\ stage = "scan"
    /\ polls = 0 /\ count = 0 /\ attempt = "direct" /\ elapsed = 0
    /\ \E c \in {"idle", "halted"}, m \in {"zero", "code"} :
          sec2 = [cpu |-> c, core |-> "post", mbox |-> m, mine |-> FALSE,
                  wedged |-> FALSE, open |-> FALSE, due |-> FALSE]
    /\ gsp = "post" /\ seeded = FALSE
    /\ unlocked \in BOOLEAN
    /\ loader \in [Volumes -> {"none", "broken", "windows", "returns"}]
    /\ left = {}
    /\ exit = "none"

-----------------------------------------------------------------------------
At(from, to) == stage = from /\ stage' = to

(* A bounded wait: what it waits for is there, or it gives up.             *)
Await(at, there, to) ==
    /\ stage = at
    /\ IF there \/ polls = Polls
       THEN stage' = to /\ polls' = 0
       ELSE UNCHANGED stage /\ polls' = polls + 1
    /\ UNCHANGED <<count, attempt, elapsed, card, disk, vars>>

(* A register of SEC2 takes a write unless the block is wedged.            *)
WriteSec2(r) ==
    sec2' = IF sec2.wedged THEN [sec2 EXCEPT !.due = r.due] ELSE r

Plain == UNCHANGED <<loops, card, disk, vars>>

-----------------------------------------------------------------------------
(* [1] to [4]: the card, its BAR0, and whether it is unlocked already.     *)

(* u40x_find_gpu; what it finds is the subject of module PciScan.          *)
FindCard ==
    /\ \/ At("scan", "bar") /\ UNCHANGED exit
       \/ At("scan", "returned") /\ exit' = "NOT_FOUND"
    /\ UNCHANGED <<loops, card, loader, left, vars>>

EnableBar ==
    /\ \/ At("bar", "warm") /\ UNCHANGED exit
       \/ At("bar", "returned") /\ exit' = "DEVICE_ERROR"
    /\ UNCHANGED <<loops, card, loader, left, vars>>

Warm == At("warm", IF unlocked THEN "done" ELSE "gfw") /\ Plain

(* [5]: up to 200 turns for the firmware of the card; the time follows.    *)
AwaitGfw == \E ready \in BOOLEAN : Await("gfw", ready, "time")

SetTime ==
    /\ At("time", "alloc")
    /\ seeded' = TRUE
    /\ UNCHANGED <<loops, sec2, gsp, unlocked, disk, vars>>

(* [6], [7]: without one of the buffers the unlock is given up.            *)
Allocate ==
    /\ \/ count < Buffers /\ At("alloc", "alloc") /\ count' = count + 1
       \/ count = Buffers /\ At("alloc", "kill") /\ count' = 0
       \/ count < Buffers /\ At("alloc", "done") /\ count' = 0
    /\ UNCHANGED <<polls, attempt, elapsed, card, disk, vars>>

-----------------------------------------------------------------------------
(* [8]: the firmware of the card is stopped; SEC2 should answer then.      *)
KillGfw ==
    /\ At("kill", "check")
    /\ gsp' = "idle"
    /\ UNCHANGED <<sec2, seeded, unlocked, loops, disk, vars>>

CheckSec2 ==
    \/ At("check", "fwsec") /\ Plain
    \/ /\ At("check", "recheck")
       /\ WriteSec2([sec2 EXCEPT !.core = "chosen"])
       /\ UNCHANGED <<gsp, seeded, unlocked, loops, disk, vars>>

Recheck ==
    /\ \/ At("recheck", "fwsec")
       \/ At("recheck", "done")
    /\ Plain

(* [8b]: fwsec_boot_gsp_40hx on the GSP; no failure of it ends the unlock. *)
Fwsec ==
    \/ At("fwsec", "prepare") /\ Plain
    \/ /\ At("fwsec", "prepare")
       /\ gsp' = "idle"
       /\ UNCHANGED <<sec2, seeded, unlocked, loops, disk, vars>>
    \/ /\ At("fwsec", "wpr2")
       /\ gsp' = "running"
       /\ UNCHANGED <<sec2, seeded, unlocked, loops, disk, vars>>

AwaitWpr2 == \E up \in BOOLEAN : Await("wpr2", up, "prepare")

-----------------------------------------------------------------------------
(* [9]: the booter, loaded through ports without and with a reset of the   *)
(* engine, then by DMA.                                                    *)

Prepare ==
    /\ At("prepare", IF attempt = "direct" THEN "load" ELSE "ready")
    /\ Plain

AwaitReady == \E ready \in BOOLEAN : Await("ready", ready, "reset")

(* The reset lets go of the core that was selected.                        *)
Sec2Reset == {[sec2 EXCEPT !.cpu = "idle", !.core = "reset", !.mbox = m,
                           !.mine = FALSE] : m \in {sec2.mbox, "zero"}}

ResetSec2 ==
    /\ At("reset", "scrub")
    /\ \E r \in Sec2Reset : WriteSec2(r)
    /\ UNCHANGED <<gsp, seeded, unlocked, loops, disk, vars>>

(* Mutant: the core is not selected again after the reset.                 *)
AwaitScrubMutant ==
    \E clean \in BOOLEAN : Await("scrub", clean, "load")

AwaitScrub == \E clean \in BOOLEAN : Await("scrub", clean, "switch")

SwitchCore ==
    /\ At("switch", IF attempt = "dma" THEN "switched" ELSE "load")
    /\ WriteSec2([sec2 EXCEPT !.core = "chosen"])
    /\ UNCHANGED <<gsp, seeded, unlocked, loops, disk, vars>>

(* The DMA attempt selects the other core if the engine is locked, and     *)
(* gives up if that does not help.                                         *)
Switched ==
    /\ \/ At("switched", "load")
       \/ At("switched", "verdict")
    /\ Plain

(* The two ways to put the code on the engine.                             *)
LoadPorts == attempt # "dma" /\ At("load", "start") /\ Plain

LoadDma == attempt = "dma" /\ At("load", "full") /\ Plain

(* falcon_dma_transfer; a queue that stays full or busy does not stop it.  *)
AwaitNotFull == \E room \in BOOLEAN : Await("full", room, "issue")

Issue ==
    /\ count' = (count + 1) % Blocks
    /\ At("issue", IF count' = 0 THEN "idle" ELSE "full")
    /\ UNCHANGED <<polls, attempt, elapsed, card, disk, vars>>

AwaitIdle == \E idle \in BOOLEAN : Await("idle", idle, "start")

(* Mutant: the mailbox is not set before the engine is started.            *)
StartedMutant(to) ==
    /\ At("start", to)
    /\ WriteSec2([sec2 EXCEPT !.cpu = "running", !.mine = TRUE, !.due = TRUE])
    /\ elapsed' = 0
    /\ UNCHANGED <<polls, count, attempt, gsp, seeded, unlocked, disk, vars>>

(* The mailbox holds the address of the meta data when the engine starts.  *)
Started(to) ==
    /\ At("start", to)
    /\ WriteSec2([sec2 EXCEPT !.cpu = "running", !.mbox = "meta",
                              !.mine = TRUE, !.due = TRUE])
    /\ elapsed' = 0
    /\ UNCHANGED <<polls, count, attempt, gsp, seeded, unlocked, disk, vars>>

StartDirect == attempt # "dma" /\ Started("result")

StartDma == attempt = "dma" /\ Started("trace")

(* After four seconds a zero in the mailbox is a success.                  *)
Result ==
    /\ \/ /\ sec2.mbox \in {"zero", "ok"}
          /\ At("result", "verdict") /\ UNCHANGED attempt
       \/ /\ sec2.mbox \notin {"zero", "ok"}
          /\ At("result", "prepare")
          /\ attempt' = IF attempt = "direct" THEN "reset" ELSE "dma"
    /\ UNCHANGED <<polls, count, elapsed, card, disk, vars>>

(* booter_load_v67 follows the engine while its trace moves ...            *)
AwaitTrace == \E still \in BOOLEAN : Await("trace", still, "poll")

(* Mutant: the time is not looked at.                                      *)
PollMutant ==
    /\ \/ At("poll", "verdict") /\ (sec2.cpu = "halted" \/ sec2.open)
       \/ At("poll", "poll") /\ sec2.cpu # "halted"
    /\ Plain

(* ... and then until it halts, the protected registers are open, or five  *)
(* seconds by the timer of the card have passed.                           *)
PollSec2 ==
    /\ \/ /\ At("poll", "verdict")
          /\ sec2.cpu = "halted" \/ sec2.open \/ elapsed = Deadline
       \/ At("poll", "poll") /\ sec2.cpu # "halted" /\ elapsed < Deadline
    /\ Plain

-----------------------------------------------------------------------------
(* [10]: whatever came of it, the engine is put back.                      *)

(* Mutant: a card that is not unlocked is left as it is.                   *)
VerdictMutant == At("verdict", IF unlocked THEN "halt" ELSE "done") /\ Plain

Verdict == At("verdict", "halt") /\ Plain

AwaitHalt == Await("halt", sec2.cpu = "halted", "sanitize")

Sanitize ==
    /\ At("sanitize", "again")
    /\ \E r \in Sec2Reset : WriteSec2([r EXCEPT !.mbox = "zero", !.due = FALSE])
    /\ UNCHANGED <<gsp, seeded, unlocked, loops, disk, vars>>

ResetAgain ==
    /\ At("again", "done")
    /\ \E r \in Sec2Reset : WriteSec2(r)
    /\ UNCHANGED <<gsp, seeded, unlocked, loops, disk, vars>>

-----------------------------------------------------------------------------
(* [11]: the resize, on an unlocked card, and the start of Windows.        *)
Leave == IF AutoChainload THEN "own" ELSE "returned"

Final ==
    /\ At("done", IF unlocked THEN "rebar" ELSE Leave)
    /\ exit' = IF stage' = "returned" THEN "SUCCESS" ELSE exit
    /\ UNCHANGED <<loops, card, loader, left, vars>>

Resize == stage = "rebar" /\ Next /\ UNCHANGED bootVars

Resized ==
    /\ pc \in Done
    /\ At("rebar", Leave)
    /\ exit' = IF stage' = "returned" THEN "SUCCESS" ELSE exit
    /\ UNCHANGED <<loops, card, loader, left, vars>>

Loadable(v) == loader[v] \in {"windows", "returns"}

(* chainload_preloaded: nothing was preloaded, so that the ladder starts   *)
(* with the volume of the application (which may have no device path).     *)
ChainOwn ==
    /\ \/ At("own", "image") /\ Loadable(Own) /\ left' = {Own}
       \/ At("own", "volumes") /\ left' = Volumes
    /\ UNCHANGED <<loops, card, loader, exit, vars>>

(* Mutant: a loader that can not be loaded ends the search.                *)
ChainVolumeMutant ==
    /\ \E v \in left :
          /\ left' = {v}
          /\ At("volumes", IF Loadable(v) THEN "image" ELSE "returned")
          /\ exit' = IF Loadable(v) THEN exit ELSE "SUCCESS"
    /\ UNCHANGED <<loops, card, loader, vars>>

(* chainload_windows: then every volume, in the order of the firmware.     *)
ChainVolume ==
    /\ \E v \in left :
          \/ At("volumes", "image") /\ Loadable(v) /\ left' = {v}
          \/ At("volumes", "volumes") /\ ~ Loadable(v) /\ left' = left \ {v}
    /\ UNCHANGED <<loops, card, loader, exit, vars>>

(* No volume has one, or the firmware can not list its volumes.            *)
ChainNothing ==
    /\ left \in {{}, Volumes}
    /\ At("volumes", "returned")
    /\ exit' = "SUCCESS"
    /\ UNCHANGED <<loops, card, loader, left, vars>>

(* A loader that returns is the end of the ladder too.                     *)
StartLoader ==
    /\ \E v \in left :
          \/ loader[v] = "windows" /\ At("image", "windows") /\ UNCHANGED exit
          \/ /\ loader[v] = "returns" /\ At("image", "returned")
             /\ exit' = "SUCCESS"
    /\ UNCHANGED <<loops, card, loader, left, vars>>

-----------------------------------------------------------------------------
(* The card.  The code on SEC2 may halt, leave a result in the mailbox,    *)
(* open the protected registers or unlock the card, and leave a register   *)
(* block that takes no more writes.                                        *)
EngineRuns ==
    /\ sec2.cpu = "running"
    /\ \E c \in {"running", "halted"}, m \in {sec2.mbox, "code", "ok"},
          w, o \in BOOLEAN :
          sec2' = [sec2 EXCEPT !.cpu = c, !.mbox = m, !.wedged = @ \/ w,
                               !.open = o]
    /\ unlocked' \in {unlocked, TRUE}
    /\ UNCHANGED <<stage, gsp, seeded, loops, disk, vars>>

Tick ==
    /\ stage = "poll" /\ elapsed < Deadline
    /\ elapsed' = elapsed + 1
    /\ UNCHANGED <<stage, polls, count, attempt, card, disk, vars>>

Application ==
    \/ FindCard \/ EnableBar \/ Warm \/ AwaitGfw \/ SetTime \/ Allocate
    \/ KillGfw \/ CheckSec2 \/ Recheck \/ Fwsec \/ AwaitWpr2
    \/ Prepare \/ AwaitReady \/ ResetSec2 \/ AwaitScrub \/ SwitchCore
    \/ Switched \/ LoadPorts \/ LoadDma \/ AwaitNotFull \/ Issue
    \/ AwaitIdle \/ StartDirect \/ StartDma \/ Result \/ AwaitTrace \/ PollSec2 \/ Verdict \/ AwaitHalt \/ Sanitize
    \/ ResetAgain \/ Final \/ Resize \/ Resized \/ ChainOwn \/ ChainVolume
    \/ ChainNothing \/ StartLoader

BootNext == Application \/ EngineRuns \/ Tick

BootSpec ==
    BootInit /\ [][BootNext]_allVars /\ WF_allVars(Application) /\ WF_allVars(Tick)

-----------------------------------------------------------------------------
(* Properties.                                                             *)

Loading == {"load", "full", "issue", "idle", "start"}

(* Whenever code is put on a SEC2 that takes writes, the timer of the card *)
(* has been set, the firmware that holds the engine locked is gone, nothing *)
(* of an earlier attempt is left running, and a core is selected: before   *)
(* the first attempt, which resets nothing, the one of POST will do, and a *)
(* later one selects again what its reset let go of                        *)
(* (booter_load_tu102_direct, booter_load_v67).                            *)
ReadyToLoad ==
    stage \in Loading /\ ~ sec2.wedged =>
        /\ seeded /\ gsp # "post"
        /\ sec2.cpu # "running" /\ ~ sec2.mine
        /\ sec2.core # "reset"

(* An attempt counts as a success only for a result that the code it       *)
(* started has written, never for a zero that was in the mailbox before.   *)
SuccessIsFresh ==
    [][stage = "result" /\ stage' = "verdict" => sec2.mbox = "ok"]_allVars

AfterUnlock == {"rebar", "own", "volumes", "image", "windows", "returned"}

(* While BAR1 is resized and when Windows or the firmware takes over, the  *)
(* clean-up of SEC2 has been written since its last start, however the     *)
(* attempts ended; unless the engine takes no writes any more (as measured *)
(* after the first start of the booter, unlock40x_v70.c:2571), it runs no  *)
(* code of the unlock and its mailbox holds nothing of it.  After the      *)
(* resize the card decodes memory again in any case.                       *)
HandoverClean ==
    /\ stage \in AfterUnlock => ~ sec2.due
    /\ stage \in AfterUnlock /\ ~ sec2.wedged =>
          /\ sec2.cpu # "running" /\ ~ sec2.mine
          /\ sec2.mbox \notin {"meta", "ok"}
    /\ stage \in AfterUnlock \ {"rebar"} => reg.gpuMem /\ reg.brMem

(* The user is left in the menu of the firmware only if no volume has a    *)
(* loader that can be loaded, the one that was started came back, or the   *)
(* firmware did not list its volumes (all of them are left to try then).   *)
WindowsUnlessNone ==
    stage = "returned" /\ exit = "SUCCESS" /\ AutoChainload =>
        \/ \A v \in Volumes : ~ Loadable(v)
        \/ \E v \in left : loader[v] = "returns"
        \/ left = Volumes

(* Whatever the card does, the application ends: in Windows, or back in    *)
(* the firmware.                                                           *)
BootEnds == <>(stage \in {"windows", "returned"})

-----------------------------------------------------------------------------
(* The inductive invariants behind the properties.                         *)
BeforeKill == {"scan", "bar", "warm", "gfw", "time", "alloc", "kill"}
Firmwares == {"check", "recheck", "fwsec", "wpr2"}
Resetting == {"ready", "reset", "scrub", "switch", "switched"}
Attempts == {"prepare", "result", "trace", "poll"} \cup Resetting \cup Loading
Cleaned == {"again", "done"} \cup AfterUnlock

AtRest == sec2.cpu # "running" /\ ~ sec2.mine

(* What has been done to the card before an attempt.                       *)
PreparedInv ==
    /\ stage \in {"alloc", "kill"} \cup Firmwares \cup Attempts => seeded
    /\ stage \in Firmwares \cup Attempts => gsp # "post"
    /\ stage \in BeforeKill \cup Firmwares => attempt = "direct"
    /\ stage \in Resetting => attempt # "direct"
    /\ stage \in {"full", "issue", "idle"} => attempt = "dma"

(* A SEC2 that takes writes is at rest before the first attempt, between   *)
(* the reset and the start of a later one, and after the last.             *)
EngineInv ==
    ~ sec2.wedged =>
        /\ \/ stage \in BeforeKill \cup Firmwares \cup Cleaned
           \/ stage \in {"prepare"} \cup Loading /\ attempt = "direct"
           => AtRest /\ sec2.mbox \notin {"meta", "ok"}
        /\ stage \in BeforeKill \cup Firmwares \cup {"prepare"}
           /\ attempt = "direct" => sec2.core # "reset"
        /\ stage \in {"scrub", "switch", "switched"} \cup Loading => AtRest
        /\ stage \in {"switched"} \cup Loading => sec2.core # "reset"

DueInv == stage \in BeforeKill \cup Firmwares \cup Cleaned => ~ sec2.due

(* A zero in the mailbox of an engine that was started is never left.      *)
FreshInv ==
    /\ sec2.mine \/ sec2.wedged => sec2.mbox # "zero"
    /\ sec2.cpu = "running" \/ stage = "result" => sec2.mine \/ sec2.wedged

(* The registers of the resize are at rest outside of it.                  *)
ResizeApart == stage # "rebar" => pc \in {"start"} \cup Done

(* The volumes that are not left to try have no loader that can be loaded. *)
LadderInv ==
    /\ stage = "volumes" => \A v \in Volumes \ left : ~ Loadable(v)
    /\ stage = "image" => \E v \in Volumes : left = {v} /\ Loadable(v)
    /\ stage \in {"own", "volumes", "image"} => AutoChainload
=============================================================================
