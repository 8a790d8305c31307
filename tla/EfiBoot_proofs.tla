---------------------------- MODULE EfiBoot_proofs ----------------------------
(***************************************************************************)
(* Proofs about one run of the EFI application: it implements the resize   *)
(* of module Rebar, whose theorems carry over, and the unlock prepares     *)
(* SEC2 before every attempt and hands a clean card over.                  *)
(***************************************************************************)
EXTENDS EfiBoot, Rebar_proofs, FiniteSetTheorems

USE DEF At

LEMMA BootStutter ==
    ASSUME UNCHANGED allVars
    PROVE  /\ UNCHANGED <<stage, polls, count, attempt, elapsed>>
           /\ UNCHANGED <<sec2, gsp, seeded, unlocked>>
           /\ UNCHANGED <<loader, left, exit>>
           /\ UNCHANGED vars
  BY DEF allVars, bootVars, card, loops, disk

-----------------------------------------------------------------------------
(* The boot implements the resize.                                         *)
LEMMA BootStepIsResizeStep == ASSUME [BootNext]_allVars PROVE [Next]_vars
<1>1. CASE FindCard \/ EnableBar \/ Warm \/ AwaitGfw \/ SetTime \/ Allocate
  BY <1>1 DEF FindCard, EnableBar, Warm, AwaitGfw, SetTime, Allocate, Await,
              Plain
<1>2. CASE KillGfw \/ CheckSec2 \/ Recheck \/ Fwsec \/ AwaitWpr2
  BY <1>2 DEF KillGfw, CheckSec2, Recheck, Fwsec, AwaitWpr2, Await, Plain
<1>3. CASE Prepare \/ AwaitReady \/ ResetSec2 \/ AwaitScrub \/ SwitchCore
           \/ Switched \/ LoadPorts \/ LoadDma \/ AwaitNotFull \/ Issue \/ AwaitIdle
  BY <1>3 DEF Prepare, AwaitReady, ResetSec2, AwaitScrub, SwitchCore, Switched,
              LoadPorts, LoadDma, AwaitNotFull, Issue, AwaitIdle, Await, Plain
<1>4. CASE StartDirect \/ StartDma \/ Result \/ AwaitTrace \/ PollSec2 \/ Verdict
           \/ AwaitHalt \/ Sanitize \/ ResetAgain \/ Final
  BY <1>4 DEF StartDirect, StartDma, Started, Result, AwaitTrace, PollSec2, Verdict, AwaitHalt,
              Sanitize, ResetAgain, Final, Await, Plain
<1>5. CASE Resize
  BY <1>5 DEF Resize
<1>6. CASE Resized \/ ChainOwn \/ ChainVolume \/ ChainNothing \/ StartLoader
           \/ EngineRuns \/ Tick
  BY <1>6 DEF Resized, ChainOwn, ChainVolume, ChainNothing, StartLoader,
              EngineRuns, Tick
<1>7. CASE UNCHANGED allVars
  BY <1>7, BootStutter
<1> QED
  BY <1>1, <1>2, <1>3, <1>4, <1>5, <1>6, <1>7 DEF BootNext, Application

(* A run of the application, seen through the registers of the resize, is  *)
(* a run of u40x_rebar_try that may be preceded and followed by anything.  *)
THEOREM BootImplementsRebar == BootSpec => Spec
<1>1. BootInit => Init
  BY DEF BootInit
<1>2. [BootNext]_allVars => [Next]_vars
  BY BootStepIsResizeStep
<1> QED BY <1>1, <1>2, PTL DEF BootSpec, Spec

(* What is proved of the resize holds when the application performs it.    *)
THEOREM BootResizeSafe ==
    BootSpec => [](WindowIsFree /\ ActiveIsComplete /\ RevertedButForBar1)
  BY BootImplementsRebar, RebarWindow, RebarComplete, RebarRevert, PTL

-----------------------------------------------------------------------------
(* Types.                                                                  *)
LEMMA AwaitTyped ==
    ASSUME BootTypeOK, NEW at, NEW there, NEW to \in Stages,
           Await(at, there, to)
    PROVE  stage' \in Stages /\ polls' \in 0 .. Polls
  BY BootBounds DEF Await, BootTypeOK

LEMMA WaitTyped ==
    ASSUME BootTypeOK, TypeOK',
           NEW at, NEW there, NEW to \in Stages, Await(at, there, to)
    PROVE  BootTypeOK'
  BY AwaitTyped DEF Await, BootTypeOK, card, disk

LEMMA Sec2Write ==
    ASSUME sec2 \in Sec2, NEW r \in Sec2, WriteSec2(r)
    PROVE  /\ sec2' \in Sec2
           /\ sec2.wedged => sec2'.wedged
           /\ ~ sec2.wedged => sec2' = r
<1>1. CASE sec2.wedged
  BY <1>1 DEF WriteSec2, Sec2
<1>2. CASE ~ sec2.wedged
  BY <1>2 DEF WriteSec2
<1> QED BY <1>1, <1>2

LEMMA Sec2Typed ==
    ASSUME BootTypeOK
    PROVE  /\ \A r \in Sec2Reset :
                 r \in Sec2 /\ [r EXCEPT !.mbox = "zero", !.due = FALSE] \in Sec2
           /\ [sec2 EXCEPT !.core = "chosen"] \in Sec2
           /\ [sec2 EXCEPT !.cpu = "running", !.mbox = "meta", !.mine = TRUE,
                           !.due = TRUE] \in Sec2
<1>0. sec2 \in Sec2
  BY DEF BootTypeOK
<1>1. ASSUME NEW r \in Sec2Reset
      PROVE  r \in Sec2 /\ [r EXCEPT !.mbox = "zero", !.due = FALSE] \in Sec2
  <2>1. PICK m \in {sec2.mbox, "zero"} :
           r = [sec2 EXCEPT !.cpu = "idle", !.core = "reset", !.mbox = m,
                            !.mine = FALSE]
    BY DEF Sec2Reset
  <2>2. m \in {"zero", "meta", "code", "ok"}
    BY <1>0 DEF Sec2
  <2>3. r \in Sec2
    BY <1>0, <2>1, <2>2 DEF Sec2
  <2> QED BY <2>3 DEF Sec2
<1>2. /\ [sec2 EXCEPT !.core = "chosen"] \in Sec2
      /\ [sec2 EXCEPT !.cpu = "running", !.mbox = "meta", !.mine = TRUE, !.due = TRUE]
            \in Sec2
  BY <1>0 DEF Sec2
<1> QED BY <1>1, <1>2

LEMMA BootTypeStep ==
    ASSUME BootTypeOK, [BootNext]_allVars PROVE BootTypeOK'
<1>0. TypeOK'
  BY BootStepIsResizeStep, TypeStep DEF BootTypeOK
<1> USE <1>0 DEF Stages, Waits
<1>1. CASE FindCard \/ EnableBar \/ Warm
  BY <1>1 DEF FindCard, EnableBar, Warm, BootTypeOK, Plain, loops, card, disk
<1>12. CASE SetTime \/ KillGfw
  BY <1>12 DEF SetTime, KillGfw, BootTypeOK, loops, disk
<1>13. CASE CheckSec2 \/ Recheck
  BY <1>13 DEF CheckSec2, Recheck, BootTypeOK, Plain, WriteSec2, Sec2, loops,
               card, disk
<1>2. CASE Allocate \/ Issue
  BY <1>2, BootBounds DEF Allocate, Issue, BootTypeOK, card, disk
<1>3. CASE AwaitGfw \/ AwaitWpr2 \/ AwaitReady \/ AwaitScrub \/ AwaitNotFull
           \/ AwaitIdle \/ AwaitTrace \/ AwaitHalt
  BY <1>3, WaitTyped DEF AwaitGfw, AwaitWpr2, AwaitReady, AwaitScrub,
              AwaitNotFull, AwaitIdle, AwaitTrace, AwaitHalt
<1>4. CASE Fwsec \/ Prepare \/ Switched \/ LoadPorts \/ LoadDma \/ PollSec2 \/ Verdict
  BY <1>4 DEF Fwsec, Prepare, Switched, LoadPorts, LoadDma, PollSec2, Verdict, BootTypeOK,
              Plain, loops, card, disk
<1>5. CASE ResetSec2 \/ Sanitize \/ ResetAgain \/ SwitchCore
  <2>1. /\ stage' \in Stages
        /\ UNCHANGED <<gsp, seeded, unlocked, loops, disk>>
    BY <1>5 DEF ResetSec2, Sanitize, ResetAgain, SwitchCore
  <2>2. sec2' \in Sec2
    <3>1. sec2 \in Sec2
      BY DEF BootTypeOK
    <3>2. CASE ResetSec2 \/ ResetAgain
      <4>1. PICK r \in Sec2Reset : WriteSec2(r)
        BY <3>2 DEF ResetSec2, ResetAgain
      <4> QED BY <3>1, <4>1, Sec2Typed, Sec2Write
    <3>3. CASE Sanitize
      <4>1. PICK r \in Sec2Reset : WriteSec2([r EXCEPT !.mbox = "zero", !.due = FALSE])
        BY <3>3 DEF Sanitize
      <4> QED BY <3>1, <4>1, Sec2Typed, Sec2Write
    <3>4. CASE SwitchCore
      BY <3>1, <3>4, Sec2Typed, Sec2Write DEF SwitchCore
    <3> QED BY <1>5, <3>2, <3>3, <3>4
  <2> QED BY <2>1, <2>2 DEF BootTypeOK, loops, disk
<1>6. CASE StartDirect \/ StartDma
  <2>1. sec2' \in Sec2
    <3>1. sec2 \in Sec2
      BY DEF BootTypeOK
    <3>2. WriteSec2([sec2 EXCEPT !.cpu = "running", !.mbox = "meta", !.mine = TRUE,
                                 !.due = TRUE])
      BY <1>6 DEF StartDirect, StartDma, Started
    <3> QED BY <3>1, <3>2, Sec2Typed, Sec2Write
  <2> QED BY <1>6, <2>1, BootBounds DEF StartDirect, StartDma, Started, BootTypeOK, disk
<1>7. CASE Result
  BY <1>7 DEF Result, BootTypeOK, card, disk
<1>8. CASE Final \/ Resize \/ Resized
  BY <1>8 DEF Final, Resize, Resized, Leave, BootTypeOK, bootVars, loops,
              card, disk
<1>9. CASE ChainOwn \/ ChainVolume \/ ChainNothing \/ StartLoader
  BY <1>9, OwnIsAVolume DEF ChainOwn, ChainVolume, ChainNothing, StartLoader,
              BootTypeOK, loops, card
<1>10. CASE Tick
  BY <1>10, BootBounds DEF Tick, BootTypeOK, card, disk
<1>14. CASE EngineRuns
  <2>1. sec2' \in Sec2
    BY ZenonT(40), <1>14 DEF EngineRuns, BootTypeOK, Sec2
  <2>2. unlocked' \in BOOLEAN
    BY <1>14 DEF EngineRuns, BootTypeOK
  <2>3. UNCHANGED <<stage, gsp, seeded, loops, disk>>
    BY <1>14 DEF EngineRuns
  <2> QED BY <2>1, <2>2, <2>3 DEF BootTypeOK, loops, disk
<1>11. CASE UNCHANGED allVars
  BY <1>11, BootStutter DEF BootTypeOK
<1> QED
  BY <1>1, <1>2, <1>3, <1>4, <1>5, <1>6, <1>7, <1>8, <1>9, <1>10, <1>11,
     <1>12, <1>13, <1>14 DEF BootNext, Application

LEMMA BootTypeInit == BootInit => BootTypeOK
<1> SUFFICES ASSUME BootInit PROVE BootTypeOK
  OBVIOUS
<1>1. TypeOK
  BY InitTypeOK DEF BootInit
<1>2. PICK c \in {"idle", "halted"}, m \in {"zero", "code"} :
         sec2 = [cpu |-> c, core |-> "post", mbox |-> m, mine |-> FALSE,
                 wedged |-> FALSE, open |-> FALSE, due |-> FALSE]
  BY DEF BootInit
<1>3. sec2 \in Sec2
  BY <1>2 DEF Sec2
<1>4. /\ stage \in Stages /\ polls \in 0 .. Polls /\ count \in Nat
      /\ attempt \in {"direct", "reset", "dma"} /\ elapsed \in 0 .. Deadline
  BY BootBounds DEF BootInit, Stages
<1>5. /\ gsp \in {"post", "idle", "running"}
      /\ seeded \in BOOLEAN /\ unlocked \in BOOLEAN /\ left \subseteq Volumes
      /\ loader \in [Volumes -> {"none", "broken", "windows", "returns"}]
      /\ exit \in {"none", "SUCCESS", "NOT_FOUND", "DEVICE_ERROR"}
  BY DEF BootInit
<1> QED BY <1>1, <1>3, <1>4, <1>5 DEF BootTypeOK

(* The position of the application, its loop counters and the card keep    *)
(* their shape, for any number of buffers, blocks, turns and ticks.        *)
THEOREM BootTyping == BootSpec => []BootTypeOK
  BY BootTypeInit, BootTypeStep, PTL DEF BootSpec

-----------------------------------------------------------------------------
(* What has been done to the card before an attempt.                       *)
LEMMA PreparedStep ==
    ASSUME BootTypeOK, PreparedInv, [BootNext]_allVars PROVE PreparedInv'
<1> USE DEF BeforeKill, Firmwares, Resetting, Attempts, Loading
<1>1. CASE FindCard \/ EnableBar \/ Warm \/ SetTime \/ Allocate \/ KillGfw
  BY <1>1 DEF FindCard, EnableBar, Warm, SetTime, Allocate, KillGfw, Plain,
    PreparedInv, loops, card
<1>2. CASE AwaitGfw \/ AwaitWpr2 \/ AwaitReady \/ AwaitScrub \/
  AwaitNotFull \/ AwaitIdle \/ AwaitTrace \/ AwaitHalt
  BY <1>2 DEF AwaitGfw, AwaitWpr2, AwaitReady, AwaitScrub, AwaitNotFull,
    AwaitIdle, AwaitTrace, AwaitHalt, Await, PreparedInv, loops, card
<1>3. CASE CheckSec2 \/ Recheck \/ Fwsec
  BY <1>3 DEF CheckSec2, Recheck, Fwsec, Plain, WriteSec2, PreparedInv,
    loops, card
<1>4. CASE Prepare \/ SwitchCore \/ Switched \/ LoadPorts \/ LoadDma \/ Issue
  BY <1>4 DEF Prepare, SwitchCore, Switched, LoadPorts, LoadDma, Issue, Plain, WriteSec2,
    PreparedInv, loops, card
<1>5. CASE ResetSec2 \/ StartDirect \/ StartDma \/ Sanitize \/ ResetAgain
  BY <1>5 DEF ResetSec2, StartDirect, StartDma, Started, Sanitize, ResetAgain, WriteSec2,
    Sec2Reset, PreparedInv, loops, card
<1>6. CASE Result \/ PollSec2 \/ Verdict
  BY <1>6 DEF Result, PollSec2, Verdict, Plain, PreparedInv, loops, card
<1>7. CASE Final \/ Resize \/ Resized
  BY <1>7 DEF Final, Resize, Resized, Leave, bootVars, PreparedInv, loops,
    card
<1>8. CASE ChainOwn \/ ChainVolume \/ ChainNothing \/ StartLoader
  BY <1>8 DEF ChainOwn, ChainVolume, ChainNothing, StartLoader,
    PreparedInv, loops, card
<1>9. CASE EngineRuns \/ Tick
  BY <1>9 DEF EngineRuns, Tick, PreparedInv, loops, card
<1>10. CASE UNCHANGED allVars
  BY <1>10, BootStutter DEF PreparedInv
<1> QED
  BY <1>1, <1>2, <1>3, <1>4, <1>5, <1>6, <1>7, <1>8, <1>9, <1>10
     DEF BootNext, Application

(* SEC2 between the attempts and after the last one.                       *)
LEMMA EngineStep ==
    ASSUME BootTypeOK, PreparedInv, EngineInv, [BootNext]_allVars
    PROVE  EngineInv'
<1> USE DEF BeforeKill, Firmwares, Resetting, Attempts, Loading, Cleaned,
            AfterUnlock, AtRest
<1>0. sec2 \in Sec2
  BY DEF BootTypeOK
<1>1. CASE FindCard \/ EnableBar \/ Warm \/ SetTime \/ Allocate \/ KillGfw
  BY <1>1 DEF FindCard, EnableBar, Warm, SetTime, Allocate, KillGfw, Plain,
    EngineInv, PreparedInv, loops, card
<1>2. CASE AwaitGfw \/ AwaitWpr2 \/ AwaitReady \/ AwaitScrub \/
  AwaitNotFull \/ AwaitIdle \/ AwaitTrace \/ AwaitHalt
  BY <1>2 DEF AwaitGfw, AwaitWpr2, AwaitReady, AwaitScrub, AwaitNotFull,
    AwaitIdle, AwaitTrace, AwaitHalt, Await, EngineInv, PreparedInv, loops,
    card
<1>3. CASE CheckSec2 \/ Recheck \/ Fwsec
  BY <1>0, <1>3 DEF Sec2, CheckSec2, Recheck, Fwsec, Plain, WriteSec2, EngineInv,
    PreparedInv, loops, card
<1>4. CASE Prepare \/ SwitchCore \/ Switched \/ LoadPorts \/ LoadDma \/ Issue
  BY <1>0, <1>4 DEF Sec2, Prepare, SwitchCore, Switched, LoadPorts, LoadDma, Issue, Plain, WriteSec2,
    EngineInv, PreparedInv, loops, card
<1>5. CASE ResetSec2
  <2>1. PICK m \in {sec2.mbox, "zero"} :
           sec2' = IF sec2.wedged THEN [sec2 EXCEPT !.due = sec2.due]
                   ELSE [sec2 EXCEPT !.cpu = "idle", !.core = "reset",
                                     !.mbox = m, !.mine = FALSE]
    BY <1>5 DEF ResetSec2, WriteSec2, Sec2Reset
  <2>2. sec2'.wedged = sec2.wedged
    BY <1>0, <2>1 DEF Sec2
  <2>3. ~ sec2.wedged => /\ sec2'.cpu = "idle" /\ ~ sec2'.mine
                         /\ sec2'.mbox \in {sec2.mbox, "zero"}
    BY <1>0, <2>1 DEF Sec2
  <2>4. attempt' = attempt
    BY <1>5 DEF ResetSec2, loops
  <2> QED BY <1>5, <2>2, <2>3, <2>4 DEF ResetSec2, EngineInv, PreparedInv
<1>11. CASE StartDirect \/ StartDma
  BY <1>0, <1>11 DEF Sec2, StartDirect, StartDma, Started, WriteSec2, EngineInv, PreparedInv
<1>12. CASE Sanitize
  <2>1. PICK r \in Sec2Reset : WriteSec2([r EXCEPT !.mbox = "zero", !.due = FALSE])
    BY <1>12 DEF Sanitize
  <2>2. r \in Sec2 /\ r.cpu = "idle" /\ ~ r.mine
    <3>1. PICK m \in {sec2.mbox, "zero"} :
             r = [sec2 EXCEPT !.cpu = "idle", !.core = "reset", !.mbox = m, !.mine = FALSE]
      BY DEF Sec2Reset
    <3> QED BY <1>0, <3>1 DEF Sec2
  <2>3. [r EXCEPT !.mbox = "zero", !.due = FALSE] \in Sec2
    BY <2>2 DEF Sec2
  <2>4. /\ sec2.wedged => sec2'.wedged
        /\ ~ sec2.wedged => sec2' = [r EXCEPT !.mbox = "zero", !.due = FALSE]
    BY <1>0, <2>1, <2>3, Sec2Write
  <2>5. ~ sec2.wedged => sec2'.cpu = "idle" /\ ~ sec2'.mine /\ sec2'.mbox = "zero"
    BY <2>2, <2>4 DEF Sec2
  <2>6. stage' = "again"
    BY <1>12 DEF Sanitize
  <2> QED BY <2>4, <2>5, <2>6 DEF EngineInv
<1>13. CASE ResetAgain
  <2>1. PICK m \in {sec2.mbox, "zero"} :
           sec2' = IF sec2.wedged THEN [sec2 EXCEPT !.due = sec2.due]
                   ELSE [sec2 EXCEPT !.cpu = "idle", !.core = "reset",
                                     !.mbox = m, !.mine = FALSE]
    BY <1>13 DEF ResetAgain, WriteSec2, Sec2Reset
  <2>2. sec2'.wedged = sec2.wedged
    BY <1>0, <2>1 DEF Sec2
  <2>3. ~ sec2.wedged => /\ sec2'.cpu = "idle" /\ ~ sec2'.mine
                         /\ sec2'.mbox \in {sec2.mbox, "zero"}
    BY <1>0, <2>1 DEF Sec2
  <2>4. attempt' = attempt
    BY <1>13 DEF ResetAgain, loops
  <2> QED BY <1>13, <2>2, <2>3, <2>4 DEF ResetAgain, EngineInv, PreparedInv
<1>6. CASE Result \/ PollSec2 \/ Verdict
  BY <1>6 DEF Result, PollSec2, Verdict, Plain, EngineInv, PreparedInv,
    loops, card
<1>7. CASE Final \/ Resize \/ Resized
  BY <1>7 DEF Final, Resize, Resized, Leave, bootVars, EngineInv,
    PreparedInv, loops, card
<1>8. CASE ChainOwn \/ ChainVolume \/ ChainNothing \/ StartLoader
  BY <1>8 DEF ChainOwn, ChainVolume, ChainNothing, StartLoader, EngineInv,
    PreparedInv, loops, card
<1>9. CASE EngineRuns \/ Tick
  BY <1>0, <1>9 DEF Sec2, EngineRuns, Tick, EngineInv, PreparedInv, loops, card
<1>10. CASE UNCHANGED allVars
  BY <1>10, BootStutter DEF EngineInv
<1> QED
  BY <1>1, <1>2, <1>3, <1>4, <1>5, <1>6, <1>7, <1>8, <1>9, <1>10,
     <1>11, <1>12, <1>13
     DEF BootNext, Application

(* The clean-up that is written after the last start.                      *)
LEMMA DueStep ==
    ASSUME BootTypeOK, DueInv, [BootNext]_allVars PROVE DueInv'
<1> USE DEF BeforeKill, Firmwares, Cleaned, AfterUnlock, DueInv
<1>0. sec2 \in Sec2
  BY DEF BootTypeOK
<1>1. CASE FindCard \/ EnableBar \/ Warm \/ SetTime \/ Allocate \/ KillGfw
  BY <1>1 DEF FindCard, EnableBar, Warm, SetTime, Allocate, KillGfw, Plain, card
<1>2. CASE AwaitGfw \/ AwaitWpr2 \/ AwaitReady \/ AwaitScrub \/
  AwaitNotFull \/ AwaitIdle \/ AwaitTrace \/ AwaitHalt
  BY <1>2 DEF AwaitGfw, AwaitWpr2, AwaitReady, AwaitScrub, AwaitNotFull,
    AwaitIdle, AwaitTrace, AwaitHalt, Await, card
<1>3. CASE CheckSec2 \/ Recheck \/ Fwsec
  BY <1>0, <1>3 DEF Sec2, CheckSec2, Recheck, Fwsec, Plain, WriteSec2, card
<1>4. CASE Prepare \/ SwitchCore \/ Switched \/ LoadPorts \/ LoadDma \/ Issue
  BY <1>4 DEF Prepare, SwitchCore, Switched, LoadPorts, LoadDma, Issue
<1>5. CASE ResetSec2 \/ StartDirect \/ StartDma
  BY <1>5 DEF ResetSec2, StartDirect, StartDma, Started
<1>6. CASE Sanitize
  <2>1. PICK r \in Sec2Reset : WriteSec2([r EXCEPT !.mbox = "zero", !.due = FALSE])
    BY <1>6 DEF Sanitize
  <2>2. r \in Sec2
    BY <1>0 DEF Sec2, Sec2Reset
  <2>3. ~ sec2'.due
    BY <1>0, <2>1, <2>2 DEF Sec2, WriteSec2
  <2> QED BY <2>3
<1>7. CASE ResetAgain
  <2>1. PICK r \in Sec2Reset : WriteSec2(r)
    BY <1>7 DEF ResetAgain
  <2>2. r \in Sec2 /\ r.due = sec2.due
    BY <1>0 DEF Sec2, Sec2Reset
  <2>3. sec2'.due = sec2.due
    BY <1>0, <2>1, <2>2 DEF Sec2, WriteSec2
  <2> QED BY <1>7, <2>3 DEF ResetAgain
<1>8. CASE Result \/ PollSec2 \/ Verdict
  BY <1>8 DEF Result, PollSec2, Verdict, Plain
<1>9. CASE Final \/ Resize \/ Resized
  BY <1>9 DEF Final, Resize, Resized, Leave, bootVars, card
<1>10. CASE ChainOwn \/ ChainVolume \/ ChainNothing \/ StartLoader
  BY <1>10 DEF ChainOwn, ChainVolume, ChainNothing, StartLoader, card
<1>11. CASE EngineRuns \/ Tick
  BY <1>0, <1>11 DEF Sec2, EngineRuns, Tick, card
<1>12. CASE UNCHANGED allVars
  BY <1>12, BootStutter
<1> QED
  BY <1>1, <1>2, <1>3, <1>4, <1>5, <1>6, <1>7, <1>8, <1>9, <1>10, <1>11, <1>12
     DEF BootNext, Application

(* The mailbox of an engine that was started.                              *)
LEMMA FreshStep ==
    ASSUME BootTypeOK, FreshInv, [BootNext]_allVars PROVE FreshInv'
<1>0. sec2 \in Sec2
  BY DEF BootTypeOK
<1>1. CASE FindCard \/ EnableBar \/ Warm \/ SetTime \/ Allocate \/ KillGfw
  BY <1>1 DEF FindCard, EnableBar, Warm, SetTime, Allocate, KillGfw, Plain,
    FreshInv, card
<1>2. CASE AwaitGfw \/ AwaitWpr2 \/ AwaitReady \/ AwaitScrub \/
  AwaitNotFull \/ AwaitIdle \/ AwaitTrace \/ AwaitHalt
  BY <1>2 DEF AwaitGfw, AwaitWpr2, AwaitReady, AwaitScrub, AwaitNotFull,
    AwaitIdle, AwaitTrace, AwaitHalt, Await, FreshInv, card
<1>3. CASE CheckSec2 \/ Recheck \/ Fwsec
  BY <1>0, <1>3 DEF Sec2, CheckSec2, Recheck, Fwsec, Plain, WriteSec2, FreshInv, card
<1>4. CASE Prepare \/ SwitchCore \/ Switched \/ LoadPorts \/ LoadDma \/ Issue
  BY <1>0, <1>4 DEF Sec2, Prepare, SwitchCore, Switched, LoadPorts, LoadDma, Issue, Plain, WriteSec2,
    FreshInv, card
<1>5. CASE ResetSec2 \/ StartDirect \/ StartDma \/ Sanitize \/ ResetAgain
  BY ZenonT(40), <1>0, <1>5 DEF Sec2, ResetSec2, StartDirect, StartDma, Started, Sanitize, ResetAgain, WriteSec2,
    Sec2Reset, FreshInv, card
<1>6. CASE Result \/ PollSec2 \/ Verdict
  BY <1>6 DEF Result, PollSec2, Verdict, Plain, FreshInv, card
<1>7. CASE Final \/ Resize \/ Resized
  BY <1>7 DEF Final, Resize, Resized, Leave, bootVars, FreshInv, card
<1>8. CASE ChainOwn \/ ChainVolume \/ ChainNothing \/ StartLoader
  BY <1>8 DEF ChainOwn, ChainVolume, ChainNothing, StartLoader, FreshInv,
    card
<1>9. CASE EngineRuns \/ Tick
  BY <1>0, <1>9 DEF Sec2, EngineRuns, Tick, FreshInv, card
<1>10. CASE UNCHANGED allVars
  BY <1>10, BootStutter DEF FreshInv
<1> QED
  BY <1>1, <1>2, <1>3, <1>4, <1>5, <1>6, <1>7, <1>8, <1>9, <1>10
     DEF BootNext, Application

(* The registers of the resize outside of it.                              *)
LEMMA ApartStep ==
    ASSUME ResizeApart, [BootNext]_allVars PROVE ResizeApart'
<1> USE DEF Done
<1>1. CASE FindCard \/ EnableBar \/ Warm \/ SetTime \/ Allocate \/ KillGfw
  BY <1>1 DEF FindCard, EnableBar, Warm, SetTime, Allocate, KillGfw, Plain,
    ResizeApart, vars
<1>2. CASE AwaitGfw \/ AwaitWpr2 \/ AwaitReady \/ AwaitScrub \/
  AwaitNotFull \/ AwaitIdle \/ AwaitTrace \/ AwaitHalt
  BY <1>2 DEF AwaitGfw, AwaitWpr2, AwaitReady, AwaitScrub, AwaitNotFull,
    AwaitIdle, AwaitTrace, AwaitHalt, Await, ResizeApart, vars
<1>3. CASE CheckSec2 \/ Recheck \/ Fwsec
  BY <1>3 DEF CheckSec2, Recheck, Fwsec, Plain, WriteSec2, ResizeApart,
    vars
<1>4. CASE Prepare \/ SwitchCore \/ Switched \/ LoadPorts \/ LoadDma \/ Issue
  BY <1>4 DEF Prepare, SwitchCore, Switched, LoadPorts, LoadDma, Issue, Plain, WriteSec2,
    ResizeApart, vars
<1>5. CASE ResetSec2 \/ StartDirect \/ StartDma \/ Sanitize \/ ResetAgain
  BY <1>5 DEF ResetSec2, StartDirect, StartDma, Started, Sanitize, ResetAgain, WriteSec2,
    Sec2Reset, ResizeApart, vars
<1>6. CASE Result \/ PollSec2 \/ Verdict
  BY <1>6 DEF Result, PollSec2, Verdict, Plain, ResizeApart, vars
<1>7. CASE Final \/ Resize \/ Resized
  BY <1>7 DEF Final, Resize, Resized, Leave, bootVars, ResizeApart, vars
<1>8. CASE ChainOwn \/ ChainVolume \/ ChainNothing \/ StartLoader
  BY <1>8 DEF ChainOwn, ChainVolume, ChainNothing, StartLoader,
    ResizeApart, vars
<1>9. CASE EngineRuns \/ Tick
  BY <1>9 DEF EngineRuns, Tick, ResizeApart, vars
<1>10. CASE UNCHANGED allVars
  BY <1>10, BootStutter DEF ResizeApart, vars
<1> QED
  BY <1>1, <1>2, <1>3, <1>4, <1>5, <1>6, <1>7, <1>8, <1>9, <1>10
     DEF BootNext, Application

(* The ladder of volumes.                                                  *)
LEMMA LadderStep ==
    ASSUME BootTypeOK, LadderInv, [BootNext]_allVars PROVE LadderInv'
<1> USE DEF Loadable
<1>1. CASE FindCard \/ EnableBar \/ Warm \/ SetTime \/ Allocate \/ KillGfw
  BY <1>1, OwnIsAVolume DEF FindCard, EnableBar, Warm, SetTime, Allocate,
    KillGfw, Plain, LadderInv, disk
<1>2. CASE AwaitGfw \/ AwaitWpr2 \/ AwaitReady \/ AwaitScrub \/
  AwaitNotFull \/ AwaitIdle \/ AwaitTrace \/ AwaitHalt
  BY <1>2, OwnIsAVolume DEF AwaitGfw, AwaitWpr2, AwaitReady, AwaitScrub,
    AwaitNotFull, AwaitIdle, AwaitTrace, AwaitHalt, Await, LadderInv, disk
<1>3. CASE CheckSec2 \/ Recheck \/ Fwsec
  BY <1>3, OwnIsAVolume DEF CheckSec2, Recheck, Fwsec, Plain, WriteSec2,
    LadderInv, disk
<1>4. CASE Prepare \/ SwitchCore \/ Switched \/ LoadPorts \/ LoadDma \/ Issue
  BY <1>4, OwnIsAVolume DEF Prepare, SwitchCore, Switched, LoadPorts, LoadDma, Issue,
    Plain, WriteSec2, LadderInv, disk
<1>5. CASE ResetSec2 \/ StartDirect \/ StartDma \/ Sanitize \/ ResetAgain
  BY <1>5, OwnIsAVolume DEF ResetSec2, StartDirect, StartDma, Started, Sanitize, ResetAgain,
    WriteSec2, Sec2Reset, LadderInv, disk
<1>6. CASE Result \/ PollSec2 \/ Verdict
  BY <1>6, OwnIsAVolume DEF Result, PollSec2, Verdict, Plain, LadderInv,
    disk
<1>7. CASE Final \/ Resize \/ Resized
  BY <1>7, OwnIsAVolume DEF Final, Resize, Resized, Leave, bootVars,
    LadderInv, disk
<1>8. CASE ChainOwn
  BY <1>8, OwnIsAVolume DEF ChainOwn, LadderInv
<1>11. CASE ChainVolume
  <2>1. UNCHANGED loader /\ stage = "volumes" /\ AutoChainload
    BY <1>11 DEF ChainVolume, LadderInv
  <2>2. PICK v \in left :
           \/ stage' = "image" /\ Loadable(v) /\ left' = {v}
           \/ /\ stage' = "volumes" /\ ~ Loadable(v)
              /\ left' = left \ {v}
    BY <1>11 DEF ChainVolume
  <2>3. v \in Volumes
    BY DEF BootTypeOK
  <2> QED BY <2>1, <2>2, <2>3 DEF LadderInv
<1>12. CASE ChainNothing \/ StartLoader
  BY <1>12 DEF ChainNothing, StartLoader, LadderInv
<1>9. CASE EngineRuns \/ Tick
  BY <1>9, OwnIsAVolume DEF EngineRuns, Tick, LadderInv, disk
<1>10. CASE UNCHANGED allVars
  BY <1>10, BootStutter DEF LadderInv
<1> QED
  BY <1>1, <1>2, <1>3, <1>4, <1>5, <1>6, <1>7, <1>8, <1>9, <1>10,
     <1>11, <1>12
     DEF BootNext, Application

LEMMA WindowsStep ==
    ASSUME BootTypeOK, LadderInv, WindowsUnlessNone, [BootNext]_allVars
    PROVE  WindowsUnlessNone'
<1> USE DEF Loadable
<1>1. CASE FindCard \/ EnableBar \/ Warm \/ SetTime \/ Allocate \/ KillGfw
  BY <1>1 DEF FindCard, EnableBar, Warm, SetTime, Allocate, KillGfw, Plain, WindowsUnlessNone, disk
<1>2. CASE AwaitGfw \/ AwaitWpr2 \/ AwaitReady \/ AwaitScrub \/ AwaitNotFull \/ AwaitIdle \/ AwaitTrace \/ AwaitHalt
  BY <1>2 DEF AwaitGfw, AwaitWpr2, AwaitReady, AwaitScrub, AwaitNotFull, AwaitIdle, AwaitTrace, AwaitHalt, Await, WindowsUnlessNone, disk
<1>3. CASE CheckSec2 \/ Recheck \/ Fwsec \/ Prepare \/ SwitchCore \/ Switched \/ LoadPorts \/ LoadDma \/ Issue
  BY <1>3 DEF CheckSec2, Recheck, Fwsec, Prepare, SwitchCore, Switched, LoadPorts, LoadDma, Issue, Plain, WindowsUnlessNone, disk
<1>4. CASE ResetSec2 \/ StartDirect \/ StartDma \/ Sanitize \/ ResetAgain
  BY <1>4 DEF ResetSec2, StartDirect, StartDma, Started, Sanitize, ResetAgain, WindowsUnlessNone, disk
<1>5. CASE Result \/ PollSec2 \/ Verdict
  BY <1>5 DEF Result, PollSec2, Verdict, Plain, WindowsUnlessNone, disk
<1>6. CASE Final \/ Resize \/ Resized
  BY <1>6 DEF Final, Resize, Resized, Leave, bootVars, WindowsUnlessNone, disk
<1>7. CASE ChainOwn \/ ChainVolume \/ EngineRuns \/ Tick
  BY <1>7 DEF ChainOwn, ChainVolume, EngineRuns, Tick, WindowsUnlessNone, disk
<1>8. CASE ChainNothing
  BY <1>8 DEF ChainNothing, LadderInv, WindowsUnlessNone, disk
<1>9. CASE StartLoader
  BY <1>9 DEF StartLoader, LadderInv, WindowsUnlessNone, disk
<1>10. CASE UNCHANGED allVars
  BY <1>10, BootStutter DEF WindowsUnlessNone
<1> QED
  BY <1>1, <1>2, <1>3, <1>4, <1>5, <1>6, <1>7, <1>8, <1>9, <1>10
     DEF BootNext, Application

-----------------------------------------------------------------------------
(* The properties.                                                         *)
LEMMA BootInvInit ==
    BootInit => /\ PreparedInv /\ EngineInv /\ DueInv /\ FreshInv /\ ResizeApart
                /\ LadderInv /\ WindowsUnlessNone
<1> SUFFICES ASSUME BootInit
             PROVE  /\ PreparedInv /\ EngineInv /\ DueInv /\ FreshInv /\ ResizeApart
                    /\ LadderInv /\ WindowsUnlessNone
  OBVIOUS
<1>1. stage = "scan" /\ attempt = "direct" /\ pc = "start" /\ exit = "none"
  BY DEF BootInit, Init
<1>2. PICK c \in {"idle", "halted"}, m \in {"zero", "code"} :
         sec2 = [cpu |-> c, core |-> "post", mbox |-> m, mine |-> FALSE,
                 wedged |-> FALSE, open |-> FALSE, due |-> FALSE]
  BY DEF BootInit
<1>3. PreparedInv /\ ResizeApart /\ LadderInv /\ WindowsUnlessNone
  BY <1>1 DEF PreparedInv, ResizeApart, LadderInv, WindowsUnlessNone,
     Firmwares, Attempts, Resetting, Loading
<1>4. EngineInv /\ DueInv /\ FreshInv
  BY <1>1, <1>2 DEF EngineInv, DueInv, FreshInv, AtRest, Loading
<1> QED BY <1>3, <1>4

(* Whenever code is put on a SEC2 that takes writes, the timer is set, the *)
(* firmware of the card is gone, nothing of an earlier attempt runs and a  *)
(* core is selected: the one of POST or, after a reset, a new one.         *)
THEOREM BootPrepares == BootSpec => []ReadyToLoad
<1> DEFINE IInv == BootTypeOK /\ PreparedInv /\ EngineInv
<1>1. BootInit => IInv
  BY BootTypeInit, BootInvInit
<1>2. IInv /\ [BootNext]_allVars => IInv'
  BY BootTypeStep, PreparedStep, EngineStep
<1>3. IInv => ReadyToLoad
  BY DEF PreparedInv, EngineInv, ReadyToLoad, Loading, Attempts, AtRest
<1> QED BY <1>1, <1>2, <1>3, PTL DEF BootSpec

(* An attempt is never taken for a success because of a mailbox that       *)
(* nobody wrote since POST or since a reset.                               *)
THEOREM BootFresh == BootSpec => SuccessIsFresh
<1> DEFINE IInv == BootTypeOK /\ FreshInv
<1>1. BootInit => IInv
  BY BootTypeInit, BootInvInit
<1>2. IInv /\ [BootNext]_allVars => IInv'
  BY BootTypeStep, FreshStep
<1>3. IInv /\ [BootNext]_allVars =>
        [stage = "result" /\ stage' = "verdict" => sec2.mbox = "ok"]_allVars
  <2> SUFFICES ASSUME IInv, BootNext, stage = "result", stage' = "verdict"
               PROVE  sec2.mbox = "ok"
    OBVIOUS
  <2>1. sec2.mbox # "zero"
    BY DEF FreshInv
  <2>2. Result
    BY DEF BootNext, Application, FindCard, EnableBar, Warm, AwaitGfw, SetTime,
       Allocate, KillGfw, CheckSec2, Recheck, Fwsec, AwaitWpr2, Prepare,
       AwaitReady, ResetSec2, AwaitScrub, SwitchCore, Switched, LoadPorts, LoadDma,
       AwaitNotFull, Issue, AwaitIdle, StartDirect, StartDma, Started, AwaitTrace, PollSec2,
       Verdict, AwaitHalt, Sanitize, ResetAgain, Final, Resize, Resized,
       ChainOwn, ChainVolume, ChainNothing, StartLoader, EngineRuns, Tick,
       Await, bootVars
  <2> QED BY <2>1, <2>2 DEF Result
<1> QED BY <1>1, <1>2, <1>3, PTL DEF BootSpec, SuccessIsFresh

(* Outside of the resize the card and the bridge decode memory.            *)
LEMMA DecodesOutside ==
    ASSUME ResizeApart, ResizeInv, UndoInv, stage # "rebar"
    PROVE  reg.gpuMem /\ reg.brMem
  BY DEF ResizeApart, ResizeInv, UndoInv, Done, Entering, Resuming, Leaving

(* However the attempts ended, the clean-up of SEC2 has been written since *)
(* its last start when the resize begins and when Windows takes over, and  *)
(* While BAR1 is resized and when Windows gets the card, the clean-up of    *)
(* SEC2 has been written since its last start; a SEC2 that still takes     *)
(* writes is at rest by then.  After the resize the card decodes memory.   *)
THEOREM BootHandsOver == BootSpec => []HandoverClean
<1> DEFINE IInv == /\ TypeOK /\ SavedInv /\ WindowInv /\ ResizeInv /\ UndoInv
                   /\ BootTypeOK /\ PreparedInv /\ EngineInv /\ DueInv /\ ResizeApart
<1>1. BootInit => IInv
  BY InitTypeOK, SavedInit, ResizeInit, UndoInit, BootTypeInit, BootInvInit
     DEF BootInit
<1>2. IInv /\ [BootNext]_allVars => IInv'
  <2> SUFFICES ASSUME IInv, [BootNext]_allVars PROVE IInv'
    OBVIOUS
  <2>1. [Next]_vars
    BY BootStepIsResizeStep
  <2>2. (TypeOK /\ SavedInv /\ WindowInv /\ ResizeInv /\ UndoInv)'
    BY <2>1, TypeStep, SavedStep, WindowStep, ResizeStep, UndoStep
  <2>3. (BootTypeOK /\ PreparedInv /\ EngineInv /\ DueInv /\ ResizeApart)'
    BY BootTypeStep, PreparedStep, EngineStep, DueStep, ApartStep
  <2> QED BY <2>2, <2>3
<1>3. IInv => HandoverClean
  BY DecodesOutside DEF HandoverClean, EngineInv, DueInv, AtRest, Cleaned, AfterUnlock
<1> QED BY <1>1, <1>2, <1>3, PTL DEF BootSpec

(* Nobody is left in the menu of the firmware while some volume that the   *)
(* firmware lists has a loader that was not tried, for any number of       *)
(* volumes.                                                                *)
THEOREM BootFindsWindows == BootSpec => []WindowsUnlessNone
<1> DEFINE IInv == BootTypeOK /\ LadderInv /\ WindowsUnlessNone
<1>1. BootInit => IInv
  BY BootTypeInit, BootInvInit
<1>2. IInv /\ [BootNext]_allVars => IInv'
  BY BootTypeStep, LadderStep, WindowsStep
<1> QED BY <1>1, <1>2, PTL DEF BootSpec

-----------------------------------------------------------------------------
(* How long the boot lasts.  Its steps are ordered by the chapter (before  *)
(* the attempts, each of the three, after them), by the place in it, and   *)
(* by the turns left of a loop that stays at its place.                    *)
BeforeAttempts == BeforeKill \cup Firmwares

ChapterOf(s, a) ==
    IF s \in BeforeAttempts THEN 4
    ELSE IF s \notin Attempts THEN 0
    ELSE IF a = "direct" THEN 3 ELSE IF a = "reset" THEN 2 ELSE 1

Chapter == ChapterOf(stage, attempt)

PlaceBefore(s) ==
    IF s = "scan" THEN 12 ELSE IF s = "bar" THEN 11 ELSE IF s = "warm" THEN 10
    ELSE IF s = "gfw" THEN 9 ELSE IF s = "time" THEN 8
    ELSE IF s = "alloc" THEN 7 ELSE IF s = "kill" THEN 6
    ELSE IF s = "check" THEN 5 ELSE IF s = "recheck" THEN 4
    ELSE IF s = "fwsec" THEN 3 ELSE 2

(* The blocks of the transfer are places too: each is waited for and then  *)
(* issued.                                                                 *)
PlaceInAttempt(s, c) ==
    IF s = "full" THEN 2 * (Blocks - c) + 5
    ELSE IF s = "issue" THEN 2 * (Blocks - c) + 4
    ELSE IF s = "idle" THEN 5 ELSE IF s = "start" THEN 4
    ELSE IF s \in {"result", "trace"} THEN 3 ELSE IF s = "poll" THEN 2
    ELSE 2 * Blocks +
         (IF s = "prepare" THEN 12 ELSE IF s = "ready" THEN 11
          ELSE IF s = "reset" THEN 10 ELSE IF s = "scrub" THEN 9
          ELSE IF s = "switch" THEN 8 ELSE IF s = "switched" THEN 7 ELSE 6)

PlaceAfter(s) ==
    IF s = "verdict" THEN 9 ELSE IF s = "halt" THEN 8
    ELSE IF s = "sanitize" THEN 7 ELSE IF s = "again" THEN 6
    ELSE IF s = "done" THEN 5 ELSE IF s = "rebar" THEN 4
    ELSE IF s = "own" THEN 3 ELSE IF s = "volumes" THEN 2
    ELSE IF s = "image" THEN 1 ELSE 0

PlaceOf(s, c) ==
    IF s \in BeforeAttempts THEN PlaceBefore(s)
    ELSE IF s \in Attempts THEN PlaceInAttempt(s, c) ELSE PlaceAfter(s)

Place == PlaceOf(stage, count)

Turns ==
    IF stage \in Waits THEN Polls - polls
    ELSE IF stage = "alloc" THEN Buffers - count
    ELSE IF stage = "poll" THEN Deadline - elapsed
    ELSE IF stage = "rebar" THEN ResizeLeft(pc)
    ELSE IF stage = "volumes" THEN Cardinality(left) ELSE 0

Sooner ==
    \/ Chapter' < Chapter
    \/ Chapter' = Chapter /\ Place' < Place
    \/ Chapter' = Chapter /\ Place' = Place /\ Turns' < Turns

(* Every step of the application, and every tick while it watches the      *)
(* clock, brings the end nearer; what the card does puts nothing off.      *)
BootRunsDown ==
    /\ Application \/ Tick => Sooner
    /\ EngineRuns => UNCHANGED <<Chapter, Place, Turns>>

BootMeasured == {Chapter, Place, Turns} \subseteq Nat

(* The loops count from zero to their bound.                               *)
LoopInv ==
    /\ stage \notin {"alloc", "full", "issue"} => count = 0
    /\ stage = "alloc" => count <= Buffers
    /\ stage \in {"full", "issue"} => count < Blocks
    /\ stage = "result" => attempt # "dma"

(* The measures at each place.                                            *)
LEMMA PlacesBefore ==
    ASSUME NEW a, NEW c
    PROVE  /\ ChapterOf("scan", a) = 4 /\ PlaceOf("scan", c) = 12
           /\ ChapterOf("bar", a) = 4 /\ PlaceOf("bar", c) = 11
           /\ ChapterOf("warm", a) = 4 /\ PlaceOf("warm", c) = 10
           /\ ChapterOf("gfw", a) = 4 /\ PlaceOf("gfw", c) = 9
           /\ ChapterOf("time", a) = 4 /\ PlaceOf("time", c) = 8
           /\ ChapterOf("alloc", a) = 4 /\ PlaceOf("alloc", c) = 7
           /\ ChapterOf("kill", a) = 4 /\ PlaceOf("kill", c) = 6
           /\ ChapterOf("check", a) = 4 /\ PlaceOf("check", c) = 5
           /\ ChapterOf("recheck", a) = 4 /\ PlaceOf("recheck", c) = 4
           /\ ChapterOf("fwsec", a) = 4 /\ PlaceOf("fwsec", c) = 3
           /\ ChapterOf("wpr2", a) = 4 /\ PlaceOf("wpr2", c) = 2
  BY DEF ChapterOf, PlaceOf, PlaceBefore, PlaceInAttempt, PlaceAfter,
         BeforeAttempts, BeforeKill, Firmwares, Attempts, Resetting, Loading

LEMMA PlacesInAttempt ==
    ASSUME NEW c
    PROVE  /\ PlaceOf("idle", c) = 5
           /\ PlaceOf("start", c) = 4
           /\ PlaceOf("result", c) = 3
           /\ PlaceOf("trace", c) = 3
           /\ PlaceOf("poll", c) = 2
           /\ PlaceOf("full", c) = 2 * (Blocks - c) + 5
           /\ PlaceOf("issue", c) = 2 * (Blocks - c) + 4
           /\ PlaceOf("prepare", c) = 2 * Blocks + 12
           /\ PlaceOf("ready", c) = 2 * Blocks + 11
           /\ PlaceOf("reset", c) = 2 * Blocks + 10
           /\ PlaceOf("scrub", c) = 2 * Blocks + 9
           /\ PlaceOf("switch", c) = 2 * Blocks + 8
           /\ PlaceOf("switched", c) = 2 * Blocks + 7
           /\ PlaceOf("load", c) = 2 * Blocks + 6
  BY DEF PlaceOf, PlaceInAttempt, BeforeAttempts, BeforeKill, Firmwares, Attempts, Resetting, Loading

LEMMA PlacesAfter ==
    ASSUME NEW a, NEW c
    PROVE  /\ ChapterOf("verdict", a) = 0 /\ PlaceOf("verdict", c) = 9
           /\ ChapterOf("halt", a) = 0 /\ PlaceOf("halt", c) = 8
           /\ ChapterOf("sanitize", a) = 0 /\ PlaceOf("sanitize", c) = 7
           /\ ChapterOf("again", a) = 0 /\ PlaceOf("again", c) = 6
           /\ ChapterOf("done", a) = 0 /\ PlaceOf("done", c) = 5
           /\ ChapterOf("rebar", a) = 0 /\ PlaceOf("rebar", c) = 4
           /\ ChapterOf("own", a) = 0 /\ PlaceOf("own", c) = 3
           /\ ChapterOf("volumes", a) = 0 /\ PlaceOf("volumes", c) = 2
           /\ ChapterOf("image", a) = 0 /\ PlaceOf("image", c) = 1
           /\ ChapterOf("windows", a) = 0 /\ PlaceOf("windows", c) = 0
           /\ ChapterOf("returned", a) = 0 /\ PlaceOf("returned", c) = 0
  BY DEF ChapterOf, PlaceOf, PlaceBefore, PlaceInAttempt, PlaceAfter,
         BeforeAttempts, BeforeKill, Firmwares, Attempts, Resetting, Loading

LEMMA ChaptersOfAttempts ==
    /\ \A s \in Attempts :
          /\ ChapterOf(s, "direct") = 3 /\ ChapterOf(s, "reset") = 2
          /\ ChapterOf(s, "dma") = 1
    /\ \A s : \A a : ChapterOf(s, a) \in 0 .. 4
  BY DEF ChapterOf, BeforeAttempts, BeforeKill, Firmwares, Attempts, Resetting, Loading

LEMMA LoopStep ==
    ASSUME BootTypeOK, PreparedInv, LoopInv, [BootNext]_allVars
    PROVE  LoopInv'
<1> USE BootBounds DEF LoopInv, BootTypeOK
<1>1. CASE FindCard \/ EnableBar \/ Warm \/ SetTime \/ KillGfw \/ CheckSec2 \/ Recheck
  BY <1>1 DEF FindCard, EnableBar, Warm, SetTime, KillGfw, CheckSec2, Recheck, Plain,
              loops
<1>2. CASE AwaitGfw \/ AwaitWpr2 \/ AwaitReady \/ AwaitScrub \/ AwaitNotFull
           \/ AwaitIdle \/ AwaitTrace \/ AwaitHalt
  BY <1>2 DEF AwaitGfw, AwaitWpr2, AwaitReady, AwaitScrub, AwaitNotFull,
              AwaitIdle, AwaitTrace, AwaitHalt, Await
<1>3. CASE Allocate
  BY <1>3 DEF Allocate
<1>4. CASE Fwsec \/ Prepare \/ ResetSec2 \/ SwitchCore \/ Switched \/ LoadPorts \/ LoadDma
  BY <1>4 DEF Fwsec, Prepare, ResetSec2, SwitchCore, Switched, LoadPorts, LoadDma, Plain,
              loops
<1>5. CASE Issue
  <2>1. /\ stage = "issue" /\ count < Blocks /\ count' = (count + 1) % Blocks
        /\ stage' = IF count' = 0 THEN "idle" ELSE "full"
    BY <1>5 DEF Issue
  <2>2. count' \in 0 .. Blocks - 1
    BY <2>1
  <2> QED BY <2>1, <2>2
<1>6. CASE StartDirect \/ StartDma \/ Result \/ PollSec2 \/ Verdict \/ Sanitize
           \/ ResetAgain
  BY <1>6 DEF StartDirect, StartDma, Started, Result, PollSec2, Verdict, Sanitize,
              ResetAgain, Plain, loops
<1>7. CASE Final \/ Resized
  BY <1>7 DEF Final, Resized, Leave, loops
<1>8. CASE ChainOwn \/ ChainVolume \/ ChainNothing \/ StartLoader
  BY <1>8 DEF ChainOwn, ChainVolume, ChainNothing, StartLoader, loops
<1>9. CASE Resize \/ EngineRuns \/ Tick \/ UNCHANGED allVars
  <2>1. UNCHANGED <<stage, count, attempt>>
    BY <1>9, BootStutter DEF Resize, bootVars, loops, EngineRuns, Tick
  <2> QED BY <2>1
<1> QED
  BY <1>1, <1>2, <1>3, <1>4, <1>5, <1>6, <1>7, <1>8, <1>9 DEF BootNext, Application

LEMMA LoopInit == BootInit => LoopInv
  BY DEF BootInit, LoopInv

LEMMA Measured == BootTypeOK /\ LoopInv => BootMeasured
<1> SUFFICES ASSUME BootTypeOK, LoopInv PROVE {Chapter, Place, Turns} \subseteq Nat
  BY DEF BootMeasured
<1> USE BootBounds
<1>1. Chapter \in Nat
  BY ChaptersOfAttempts DEF Chapter
<1>2. Place \in Nat
  <2>1. stage \in {"full", "issue"} => Blocks - count \in Nat
    BY DEF LoopInv, BootTypeOK
  <2>2. PlaceBefore(stage) \in Nat /\ PlaceAfter(stage) \in Nat
    BY DEF PlaceBefore, PlaceAfter
  <2>3. PlaceInAttempt(stage, count) \in Nat
    BY <2>1 DEF PlaceInAttempt
  <2> QED BY <2>2, <2>3 DEF Place, PlaceOf
<1>3. Turns \in Nat
  <2>1. Polls - polls \in Nat /\ Deadline - elapsed \in Nat
    BY DEF BootTypeOK
  <2>2. stage = "alloc" => Buffers - count \in Nat
    BY DEF BootTypeOK, LoopInv
  <2>3. Cardinality(left) \in Nat
    BY VolumesAreFinite, FS_Subset, FS_CardinalityType DEF BootTypeOK
  <2>4. ResizeLeft(pc) \in Nat
    BY ResizeLeftBound
  <2> QED BY <2>1, <2>2, <2>3, <2>4 DEF Turns
<1> QED BY <1>1, <1>2, <1>3

(* A step to an earlier place, in the same chapter or the next.            *)
LEMMA Onward ==
    ASSUME NEW s, NEW t, stage = s, stage' = t,
           \/ ChapterOf(t, attempt') < ChapterOf(s, attempt)
           \/ /\ ChapterOf(t, attempt') = ChapterOf(s, attempt)
              /\ PlaceOf(t, count') < PlaceOf(s, count)
    PROVE  Sooner
  BY DEF Sooner, Chapter, Place

LEMMA AwaitSooner ==
    ASSUME BootTypeOK, NEW s \in Waits, NEW t, NEW there, Await(s, there, t),
           \/ ChapterOf(t, attempt) < ChapterOf(s, attempt)
           \/ /\ ChapterOf(t, attempt) = ChapterOf(s, attempt)
              /\ PlaceOf(t, count) < PlaceOf(s, count)
    PROVE  Sooner
<1>1. stage = s /\ UNCHANGED <<attempt, count>>
  BY DEF Await
<1>2. CASE stage' = t
  BY <1>1, <1>2, Onward
<1>3. CASE stage' = s /\ polls' = polls + 1 /\ polls # Polls
  <2>1. Turns = Polls - polls /\ Turns' = Polls - polls'
    BY <1>1, <1>3 DEF Turns
  <2>2. Turns' < Turns
    BY <1>3, <2>1, BootBounds DEF BootTypeOK
  <2> QED BY <1>1, <1>3, <2>2 DEF Sooner, Chapter, Place
<1> QED BY <1>1, <1>2, <1>3 DEF Await

LEMMA BootStepSooner ==
    ASSUME BootTypeOK, PreparedInv, LoopInv, Application \/ Tick,
           ~ UNCHANGED allVars
    PROVE  Sooner
<1> USE DEF BootTypeOK
<1>0. Blocks \in Nat \ {0} /\ count \in Nat
  BY BootBounds
<1>1. CASE FindCard \/ EnableBar \/ Warm \/ SetTime
  BY <1>1, Onward, PlacesBefore, PlacesAfter DEF FindCard, EnableBar, Warm, SetTime
<1>2. CASE AwaitGfw
  BY <1>2, AwaitSooner, PlacesBefore DEF AwaitGfw, Waits
<1>3. CASE Allocate
  <2>1. CASE count < Buffers /\ stage = "alloc" /\ stage' = "alloc" /\ count' = count + 1
    <3>1. Turns = Buffers - count /\ Turns' = Buffers - (count + 1)
      BY <2>1 DEF Turns, Waits
    <3>2. Turns' < Turns
      BY <1>0, <3>1, BootBounds
    <3>3. Chapter' = Chapter /\ Place' = Place
      BY <2>1, PlacesBefore DEF Chapter, Place
    <3> QED BY <3>2, <3>3 DEF Sooner
  <2>2. CASE stage = "alloc" /\ stage' \in {"kill", "done"}
    BY <2>2, Onward, PlacesBefore, PlacesAfter
  <2> QED BY <1>3, <2>1, <2>2 DEF Allocate
<1>4. CASE KillGfw \/ CheckSec2 \/ Recheck
  BY <1>4, Onward, PlacesBefore, PlacesAfter DEF KillGfw, CheckSec2, Recheck
<1>5. CASE Fwsec
  <2>1. stage = "fwsec" /\ stage' \in {"prepare", "wpr2"} /\ UNCHANGED attempt
    BY <1>5 DEF Fwsec, Plain, loops
  <2>2. ChapterOf("prepare", attempt) < 4
    BY ChaptersOfAttempts DEF Attempts
  <2> QED BY <2>1, <2>2, Onward, PlacesBefore
<1>6. CASE AwaitWpr2
  <2>1. ChapterOf("prepare", attempt) < 4
    BY ChaptersOfAttempts DEF Attempts
  <2> QED BY <1>6, <2>1, AwaitSooner, PlacesBefore DEF AwaitWpr2, Waits
<1>7. ASSUME NEW s \in Attempts, NEW t \in Attempts
      PROVE  ChapterOf(t, attempt) = ChapterOf(s, attempt)
  BY ChaptersOfAttempts
<1>8. CASE Prepare \/ ResetSec2 \/ SwitchCore \/ LoadPorts \/ LoadDma
  <2>1. UNCHANGED <<attempt, count>>
    BY <1>8 DEF Prepare, ResetSec2, SwitchCore, LoadPorts, LoadDma, Plain, loops
  <2>2. \/ stage = "prepare" /\ stage' \in {"load", "ready"}
        \/ stage = "reset" /\ stage' = "scrub"
        \/ stage = "switch" /\ stage' \in {"switched", "load"}
        \/ stage = "load" /\ stage' = "start"
        \/ stage = "load" /\ stage' = "full" /\ count = 0
    BY <1>8 DEF Prepare, ResetSec2, SwitchCore, LoadPorts, LoadDma, LoopInv
  <2>3. stage \in Attempts /\ stage' \in Attempts
    BY <2>2 DEF Attempts, Resetting, Loading
  <2>4. PlaceOf(stage', count) < PlaceOf(stage, count)
    BY <1>0, <2>2, PlacesInAttempt
  <2> QED BY <1>7, <2>1, <2>3, <2>4, Onward
<1>9. CASE AwaitReady \/ AwaitScrub \/ AwaitNotFull \/ AwaitIdle \/ AwaitTrace
  <2>1. PICK st \in {<<"ready", "reset">>, <<"scrub", "switch">>, <<"full", "issue">>,
                     <<"idle", "start">>, <<"trace", "poll">>}, there \in BOOLEAN :
           Await(st[1], there, st[2])
    BY <1>9 DEF AwaitReady, AwaitScrub, AwaitNotFull, AwaitIdle, AwaitTrace
  <2>2. st[1] \in Attempts /\ st[2] \in Attempts /\ st[1] \in Waits
    BY DEF Attempts, Resetting, Loading, Waits
  <2>3. PlaceOf(st[2], count) < PlaceOf(st[1], count)
    BY <1>0, PlacesInAttempt
  <2> QED BY <1>7, <2>1, <2>2, <2>3, AwaitSooner
<1>10. CASE Switched
  <2>1. stage = "switched" /\ stage' \in {"load", "verdict"} /\ UNCHANGED <<attempt, count>>
    BY <1>10 DEF Switched, Plain, loops
  <2>2. "switched" \in Attempts /\ "load" \in Attempts
    BY DEF Attempts, Resetting, Loading
  <2>3. ChapterOf("switched", attempt) > 0
    BY <2>2, ChaptersOfAttempts
  <2> QED BY <1>0, <1>7, <2>1, <2>2, <2>3, Onward, PlacesInAttempt, PlacesAfter
<1>11. CASE Issue
  <2>1. /\ stage = "issue" /\ count < Blocks /\ UNCHANGED attempt
        /\ \/ stage' = "idle"
           \/ stage' = "full" /\ count' = count + 1
    <3>1. /\ stage = "issue" /\ count < Blocks /\ count' = (count + 1) % Blocks
          /\ stage' = IF count' = 0 THEN "idle" ELSE "full"
      BY <1>11 DEF Issue, LoopInv
    <3>2. count + 1 < Blocks => count' = count + 1
      BY <1>0, <3>1
    <3>3. count + 1 = Blocks => count' = 0
      BY <1>0, <3>1
    <3> QED BY <1>0, <1>11, <3>1, <3>2, <3>3 DEF Issue
  <2>2. {"issue", "idle", "full"} \subseteq Attempts
    BY DEF Attempts, Loading
  <2>3. PlaceOf(stage', count') < PlaceOf("issue", count)
    BY <1>0, <2>1, PlacesInAttempt
  <2> QED BY <1>7, <2>1, <2>2, <2>3, Onward
<1>12. CASE StartDirect \/ StartDma
  <2>1. stage = "start" /\ stage' \in {"result", "trace"} /\ UNCHANGED <<attempt, count>>
    BY <1>12 DEF StartDirect, StartDma, Started
  <2>2. {"start", "result", "trace"} \subseteq Attempts
    BY DEF Attempts, Loading
  <2> QED BY <1>7, <2>1, <2>2, Onward, PlacesInAttempt
<1>13. CASE Result
  <2>1. /\ stage = "result" /\ attempt \in {"direct", "reset"}
        /\ \/ stage' = "verdict"
           \/ stage' = "prepare" /\ attempt' = IF attempt = "direct" THEN "reset" ELSE "dma"
    BY <1>13 DEF Result, LoopInv
  <2>2. {"result", "prepare"} \subseteq Attempts
    BY DEF Attempts
  <2> QED BY <2>1, <2>2, ChaptersOfAttempts, Onward, PlacesAfter
<1>14. CASE PollSec2
  <2>1. stage = "poll" /\ (stage' = "verdict" \/ UNCHANGED <<bootVars, vars>>)
    BY <1>14 DEF PollSec2, Plain, bootVars
  <2>2. stage' = "verdict"
    BY <2>1 DEF allVars
  <2>3. ChapterOf("poll", attempt) > 0
    BY ChaptersOfAttempts DEF Attempts
  <2> QED BY <2>1, <2>2, <2>3, Onward, PlacesAfter
<1>15. CASE Verdict \/ Final \/ Resized
  BY <1>15, Onward, PlacesAfter DEF Verdict, Final, Resized, Leave
<1>25. CASE Sanitize
  <2>1. stage = "sanitize" /\ stage' = "again"
    BY <1>25 DEF Sanitize, At
  <2> QED BY <2>1, Onward, PlacesAfter
<1>26. CASE ResetAgain
  <2>1. stage = "again" /\ stage' = "done"
    BY <1>26 DEF ResetAgain, At
  <2> QED BY <2>1, Onward, PlacesAfter
<1>16. CASE AwaitHalt
  BY <1>16, AwaitSooner, PlacesAfter DEF AwaitHalt, Waits
<1>17. CASE Resize
  <2>1. stage = "rebar" /\ UNCHANGED <<stage, attempt, count>> /\ Next
    BY <1>17 DEF Resize, bootVars, loops
  <2>2. Turns = ResizeLeft(pc) /\ Turns' = ResizeLeft(pc')
    BY <2>1 DEF Turns, Waits
  <2> QED BY <2>1, <2>2, ResizeStepsDown DEF Sooner, Chapter, Place
<1>18. CASE ChainOwn \/ ChainNothing \/ StartLoader
  BY <1>18, Onward, PlacesAfter DEF ChainOwn, ChainNothing, StartLoader
<1>19. CASE ChainVolume
  <2>1. PICK v \in left :
           \/ stage = "volumes" /\ stage' = "image"
           \/ stage = "volumes" /\ stage' = "volumes" /\ left' = left \ {v}
    BY <1>19 DEF ChainVolume
  <2>2. CASE stage' = "image"
    BY <2>1, <2>2, Onward, PlacesAfter
  <2>3. CASE stage = "volumes" /\ stage' = "volumes" /\ left' = left \ {v}
    <3>1. IsFiniteSet(left)
      BY VolumesAreFinite, FS_Subset
    <3>2. Cardinality(left') = Cardinality(left) - 1 /\ Cardinality(left) \in Nat
      BY <2>3, <3>1, FS_RemoveElement, FS_CardinalityType
    <3>3. Turns = Cardinality(left) /\ Turns' = Cardinality(left')
      BY <2>3 DEF Turns, Waits
    <3>4. Chapter' = Chapter /\ Place' = Place
      BY <2>3, PlacesAfter DEF Chapter, Place
    <3> QED BY <3>2, <3>3, <3>4 DEF Sooner
  <2> QED BY <2>1, <2>2, <2>3
<1>20. CASE Tick
  <2>1. /\ stage = "poll" /\ elapsed < Deadline /\ elapsed' = elapsed + 1
        /\ UNCHANGED <<stage, attempt, count>>
    BY <1>20 DEF Tick
  <2>2. Turns = Deadline - elapsed /\ Turns' = Deadline - (elapsed + 1)
    BY <2>1 DEF Turns, Waits
  <2>3. Turns' < Turns
    BY <2>1, <2>2, BootBounds
  <2> QED BY <2>1, <2>3 DEF Sooner, Chapter, Place
<1> QED
  BY <1>1, <1>2, <1>3, <1>4, <1>5, <1>6, <1>8, <1>9, <1>10, <1>11, <1>12, <1>13, <1>14,
     <1>15, <1>25, <1>26, <1>16, <1>17, <1>18, <1>19, <1>20 DEF Application

LEMMA EngineKeepsPlace == EngineRuns => UNCHANGED <<Chapter, Place, Turns>>
  BY DEF EngineRuns, Chapter, Place, Turns, loops, disk, vars

(* A boot ends: every step of the application, and every tick while it     *)
(* waits for the engine by the clock, comes nearer to its end, whatever    *)
(* the card does meanwhile; no wait, no attempt and no transfer goes on    *)
(* for ever, for any number of turns, blocks, ticks and volumes.           *)
THEOREM BootApproachesEnd == BootSpec => []BootMeasured /\ [][BootRunsDown]_allVars
<1> DEFINE IInv == BootTypeOK /\ PreparedInv /\ LoopInv
<1>1. BootInit => IInv
  BY BootTypeInit, BootInvInit, LoopInit
<1>2. IInv /\ [BootNext]_allVars => IInv'
  BY BootTypeStep, PreparedStep, LoopStep
<1>3. IInv => BootMeasured
  BY Measured
<1>4. IInv /\ [BootNext]_allVars => [BootRunsDown]_allVars
  BY BootStepSooner, EngineKeepsPlace DEF BootRunsDown
<1> QED BY <1>1, <1>2, <1>3, <1>4, PTL DEF BootSpec
=============================================================================
