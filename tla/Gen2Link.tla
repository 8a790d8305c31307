------------------------------- MODULE Gen2Link -------------------------------
(***************************************************************************)
(* What the Gen2 sessions of 40HXInstaller do to the PCIe link (gen2Main   *)
(* between opening and closing the drivers), when they run again (the      *)
(* retry task they leave in the task scheduler, the resident guard) and    *)
(* what that makes of the link when several of them are started.  Loading  *)
(* and unloading the drivers is the subject of ByovdDrivers.               *)
(***************************************************************************)
EXTENDS Integers

CONSTANTS
    Manual,          \* sessions a user starts, next to "logon" and "retry"
    RetryCount,      \* retries after a failure (Gen2RetryCount)
    Rounds,          \* rounds of a retrain loop (6)
    SecondDisable,   \* the round that disables the link once more (2)
    Starts,          \* bound: logons and manual starts
    Mishaps          \* bound: killed sessions and driver reloads

Procs == {"logon", "retry"} \cup Manual

ASSUME ManualIsNew == Manual \cap {"logon", "retry"} = {}
ASSUME LimitsAreNatural ==
    /\ {RetryCount, Starts, Mishaps} \subseteq Nat
    /\ {Rounds, SecondDisable} \subseteq Nat \ {0}

VARIABLES
    dis,             \* the link-disable bit of the root port
    tls,             \* target speed of the GPU: 2, or 1 for anything less
    lost,            \* the display driver has lost the GPU
    task,            \* depth of the armed retry task, 0 if there is none
    pc, stage, round, half, ctl, fast, depth,   \* of each session
    resident, autoHard, root,                   \* configuration, platform
    \* history: since the GPU last came back, a session was killed before it
    \* had restarted it, or a pulse read the port while the link was disabled;
    \* the last restart failed
    orphan, echoed, stuck,
    starts, mishaps

link == <<dis, tls, lost>>
local == <<stage, round, half, ctl, fast, depth>>
config == <<resident, autoHard, root>>
history == <<orphan, echoed, stuck>>
budget == <<history, starts, mishaps>>
vars == <<link, task, pc, local, config, budget>>

Away == {"off", "guard"}
Working == {"tls", "pulse", "modify", "measure", "judge", "disable", "enable",
            "first", "recover", "reopen", "only", "finish"}
Inside == Working \cup {"find", "release"}

TypeOK ==
    /\ dis \in BOOLEAN /\ tls \in {1, 2} /\ lost \in BOOLEAN
    /\ task \in 0 .. RetryCount
    /\ pc \in [Procs -> Away \cup Inside]
    /\ stage \in [Procs -> {"retrain", "hard", "only"}]
    /\ round \in [Procs -> 0 .. Rounds - 1]
    /\ half \in [Procs -> {1, 2}]
    /\ ctl \in [Procs -> BOOLEAN]
    /\ fast \in [Procs -> BOOLEAN]
    /\ depth \in [Procs -> 0 .. RetryCount]
    /\ resident \in BOOLEAN /\ autoHard \in BOOLEAN /\ root \in BOOLEAN
    /\ orphan \in BOOLEAN /\ echoed \in BOOLEAN /\ stuck \in BOOLEAN
    /\ starts \in 0 .. Starts /\ mishaps \in 0 .. Mishaps

Init ==
    /\ dis = FALSE /\ tls = 1 /\ lost = FALSE
    /\ task = 0
    /\ pc = [p \in Procs |-> "off"]
    /\ stage = [p \in Procs |-> "retrain"]
    /\ round = [p \in Procs |-> 0]
    /\ half = [p \in Procs |-> 1]
    /\ ctl = [p \in Procs |-> FALSE]
    /\ fast = [p \in Procs |-> FALSE]
    /\ depth = [p \in Procs |-> 0]
    /\ resident \in BOOLEAN /\ autoHard \in BOOLEAN /\ root \in BOOLEAN
    /\ orphan = FALSE /\ echoed = FALSE /\ stuck = FALSE
    /\ starts = 0 /\ mishaps = 0

-----------------------------------------------------------------------------
(* Steps of a session's control flow.                                      *)
Set(f, p, v) == [f EXCEPT ![p] = v]

Go(p, from, to) == pc[p] = from /\ pc' = Set(pc, p, to)

(* What a reading of the link's speed may give.  While the link is down    *)
(* the GPU does not answer, which reads 0; otherwise the link is never     *)
(* faster than its target, and slows down whenever it is idle.             *)
Speeds == IF dis THEN {0} ELSE 1 .. tls

-----------------------------------------------------------------------------
(* Starting: at logon or by hand, or by the task scheduler, which does not *)
(* start a task that still runs.                                           *)
Begin(p) ==
    /\ p # "retry" /\ starts < Starts
    /\ Go(p, "off", "find")
    /\ starts' = starts + 1
    /\ UNCHANGED <<link, task, local, config, history, mishaps>>

Fire ==
    /\ task # 0
    /\ task' = 0
    /\ \/ Go("retry", "off", "find") /\ depth' = Set(depth, "retry", task)
       \/ pc["retry"] # "off" /\ UNCHANGED <<pc, depth>>
    /\ UNCHANGED <<link, stage, round, half, ctl, fast, config, budget>>

(* Where a process is after its session.                                   *)
After(p) == IF p = "logon" /\ resident THEN "guard" ELSE "off"

(* What a process forgets at the end of its session.                       *)
Forget(p) ==
    /\ stage' = Set(stage, p, "retrain") /\ round' = Set(round, p, 0)
    /\ half' = Set(half, p, 1) /\ ctl' = Set(ctl, p, FALSE)
    /\ fast' = Set(fast, p, FALSE) /\ depth' = Set(depth, p, 0)

Release(p) ==
    /\ Go(p, "release", After(p))
    /\ Forget(p)
    /\ UNCHANGED <<link, task, config, budget>>

(* The mutex keeps no session out: an existing one comes back as an error, *)
(* and with an error the session runs.  It ends early if a driver or the   *)
(* GPU is not found, BAR0 is not the expected one, or the link already is  *)
(* at Gen2.                                                                *)
Find(p) ==
    /\ \/ Go(p, "find", "release")
       \/ 1 \in Speeds /\ Go(p, "find", "tls")
    /\ UNCHANGED <<link, task, local, config, budget>>

-----------------------------------------------------------------------------
(* Target speed and retraining, shared by the three loops.                 *)

(* PL0 and TLS writes; the GPU may not take them.                          *)
Target(p) ==
    /\ Go(p, "tls", IF stage[p] = "only" THEN "only" ELSE "pulse")
    /\ tls' \in IF dis THEN {tls} ELSE {tls, 2}
    /\ UNCHANGED <<dis, lost, task, local, config, budget>>

AtRoot(p) == root /\ round[p] % 2 = 0

(* Clearing the retrain bit, then setting it: each reads and writes back   *)
(* the control register of the port, link-disable bit included.            *)
Pulse(p) ==
    /\ Go(p, "pulse", "modify")
    /\ ctl' = Set(ctl, p, AtRoot(p) /\ dis)
    /\ echoed' = (echoed \/ (AtRoot(p) /\ dis))
    /\ UNCHANGED <<link, task, stage, round, half, fast, depth, config, orphan,
                   stuck, starts, mishaps>>

Modify(p) ==
    /\ dis' = IF AtRoot(p) THEN ctl[p] ELSE dis
    /\ lost' = (lost \/ ctl[p])
    /\ ctl' = Set(ctl, p, FALSE)
    /\ \/ half[p] = 1 /\ Go(p, "modify", "pulse") /\ half' = Set(half, p, 2)
       \/ half[p] = 2 /\ Go(p, "modify", "measure") /\ half' = Set(half, p, 1)
    /\ UNCHANGED <<tls, task, stage, round, fast, depth, config, budget>>

(* A round of stage 2 starts with a link disable if it is the one for it.  *)
Head(p) == CASE stage[p] = "retrain" -> "pulse"
             [] stage[p] = "hard" ->
                  IF round[p] + 1 = SecondDisable /\ root THEN "disable" ELSE "tls"
             [] stage[p] = "only" -> "only"

Tail(p) == CASE stage[p] = "retrain" -> "judge"
             [] stage[p] = "hard" -> "recover"
             [] stage[p] = "only" -> "finish"

(* After the wait for the training.                                        *)
Measure(p) ==
    /\ \E v \in Speeds :
          \/ /\ v < 2 /\ round[p] < Rounds - 1
             /\ Go(p, "measure", Head(p))
             /\ round' = Set(round, p, round[p] + 1)
             /\ UNCHANGED fast
          \/ /\ v = 2 \/ round[p] = Rounds - 1
             /\ Go(p, "measure", Tail(p))
             /\ round' = Set(round, p, 0)
             /\ fast' = Set(fast, p, v = 2)
    /\ UNCHANGED <<link, task, stage, half, ctl, depth, config, budget>>

-----------------------------------------------------------------------------
(* Verdict and retry.                                                      *)

(* Mutant: every retry is started as the first one.                        *)
ScheduleMutant(p) == task' \in IF depth[p] >= RetryCount THEN {task}
                               ELSE {task, 1}

(* No retry beyond the budget, near midnight, or if schtasks fails.        *)
Schedule(p) == task' \in IF depth[p] >= RetryCount THEN {task}
                         ELSE {task, depth[p] + 1}

VerdictHard(p, ok) == IF ok THEN task' = 0 ELSE Schedule(p)

(* Stage 1 is over: by the target speed, an idle link at Gen1 is a success; *)
(* but with AutoHard any link at Gen1 goes on to stage 2.                  *)
Judge(p) ==
    /\ fast[p] \/ ~ autoHard
    /\ Go(p, "judge", "release")
    /\ IF fast[p] \/ (~ dis /\ tls = 2) THEN task' = 0
       ELSE IF resident THEN UNCHANGED task ELSE Schedule(p)
    /\ fast' = Set(fast, p, FALSE)
    /\ UNCHANGED <<link, stage, round, half, ctl, depth, config, budget>>

(* The start of stage 2; with no root port there is no link to disable.    *)
Fallback(p) ==
    /\ ~ fast[p] /\ autoHard
    /\ Go(p, "judge", IF root THEN "disable" ELSE "first")
    /\ stage' = Set(stage, p, "hard")
    /\ UNCHANGED <<link, task, round, half, ctl, fast, depth, config, budget>>

-----------------------------------------------------------------------------
(* gen2HardFallback.                                                       *)

(* gen2RootLinkDisable; taking the link down resets the GPU's side of it.  *)
Disable(p) ==
    /\ Go(p, "disable", "enable")
    /\ dis' = TRUE /\ lost' = TRUE
    /\ tls' \in {1, tls}
    /\ UNCHANGED <<task, local, config, budget>>

(* Mutant: the second link disable never clears the bit again.             *)
EnableMutant(p) ==
    /\ Go(p, "enable", IF round[p] = 0 THEN "first" ELSE "tls")
    /\ dis' = (dis /\ round[p] # 0)
    /\ UNCHANGED <<tls, lost, task, local, config, budget>>

(* The first one is followed by a measurement, the second by a round.      *)
Enable(p) ==
    /\ Go(p, "enable", IF round[p] = 0 THEN "first" ELSE "tls")
    /\ dis' = FALSE
    /\ UNCHANGED <<tls, lost, task, local, config, budget>>

First(p) ==
    /\ \E v \in Speeds :
          /\ Go(p, "first", IF v = 2 THEN "recover" ELSE "tls")
          /\ fast' = Set(fast, p, v = 2)
    /\ UNCHANGED <<link, task, stage, round, half, ctl, depth, config, budget>>

(* gen2PnpRecover40HX: the display driver takes the GPU back if the link   *)
(* is up; or the call fails, with the GPU as it was or left switched off.  *)
Restart ==
    /\ \/ /\ lost' = dis /\ stuck' = FALSE
          /\ orphan' = (orphan /\ dis)
          /\ echoed' = (echoed /\ (dis \/ \E q \in Procs : ctl[q]))
       \/ /\ lost' \in {lost, TRUE} /\ stuck' = lost'
          /\ UNCHANGED <<orphan, echoed>>
    /\ tls' \in {1, tls}

(* Mutant: the GPU is only recovered after a success.                      *)
RecoverMutant(p) ==
    /\ \/ /\ root /\ fast[p]
          /\ Go(p, "recover", "reopen")
          /\ Restart
          /\ UNCHANGED task
       \/ /\ ~ root \/ ~ fast[p]
          /\ Go(p, "recover", "release")
          /\ VerdictHard(p, fast[p])
          /\ UNCHANGED <<lost, tls, history>>
    /\ fast' = Set(fast, p, FALSE)
    /\ UNCHANGED <<dis, stage, round, half, ctl, depth, config, starts, mishaps>>

(* The restart follows once the link was taken down; its result is not     *)
(* looked at.                                                              *)
Recover(p) ==
    /\ \/ /\ root
          /\ Go(p, "recover", "reopen")
          /\ Restart
          /\ UNCHANGED task
       \/ /\ ~ root
          /\ Go(p, "recover", "release")
          /\ VerdictHard(p, fast[p])
          /\ UNCHANGED <<lost, tls, history>>
    /\ fast' = Set(fast, p, FALSE)
    /\ UNCHANGED <<dis, stage, round, half, ctl, depth, config, starts, mishaps>>

Reopen(p) ==
    /\ \/ /\ Go(p, "reopen", "tls")
          /\ stage' = Set(stage, p, "only")
          /\ UNCHANGED task
       \/ /\ Go(p, "reopen", "release")
          /\ VerdictHard(p, FALSE)
          /\ UNCHANGED stage
    /\ UNCHANGED <<link, round, half, ctl, fast, depth, config, budget>>

(* The last loop measures before each pulse.                               *)
Only(p) ==
    /\ \E v \in Speeds : Go(p, "only", IF v = 2 THEN "finish" ELSE "pulse")
    /\ UNCHANGED <<link, task, local, config, budget>>

Finish(p) ==
    /\ Go(p, "finish", "release")
    /\ \E v \in Speeds : VerdictHard(p, v = 2)
    /\ UNCHANGED <<link, local, config, budget>>

-----------------------------------------------------------------------------
(* The guard runs gen2Main again whenever it does not read a target speed  *)
(* of 2: because that is lost, or because it can read nothing, which may   *)
(* happen at any time, as the drivers come and go.                         *)
GuardRepairs ==
    /\ Go("logon", "guard", "find")
    /\ UNCHANGED <<link, task, local, config, budget>>

-----------------------------------------------------------------------------
(* The environment.                                                        *)
DriverReload ==
    /\ mishaps < Mishaps
    /\ tls' = 1
    /\ mishaps' = mishaps + 1
    /\ UNCHANGED <<dis, lost, task, pc, local, config, history, starts>>

(* A session that took the link down goes on to the restart of the GPU.    *)
Owing == {"enable", "first", "tls", "pulse", "modify", "measure", "disable",
          "recover"}
OwesGpu(p) == root /\ stage[p] = "hard" /\ pc[p] \in Owing

Kill(p) ==
    /\ mishaps < Mishaps /\ pc[p] # "off"
    /\ pc' = Set(pc, p, "off")
    /\ Forget(p)
    /\ orphan' = (orphan \/ (lost /\ OwesGpu(p)))
    /\ mishaps' = mishaps + 1
    /\ UNCHANGED <<link, task, config, echoed, stuck, starts>>

Session(p) ==
    \/ Find(p) \/ Target(p) \/ Pulse(p) \/ Modify(p) \/ Measure(p)
    \/ Judge(p) \/ Fallback(p) \/ Disable(p) \/ Enable(p) \/ First(p)
    \/ Recover(p) \/ Reopen(p) \/ Only(p) \/ Finish(p) \/ Release(p)

Next ==
    \/ \E p \in Procs : Session(p) \/ Begin(p) \/ Kill(p)
    \/ Fire \/ GuardRepairs \/ DriverReload

Fairness ==
    /\ \A p \in Procs : WF_vars(Session(p))
    /\ WF_vars(Fire)

Spec == Init /\ [][Next]_vars /\ Fairness

-----------------------------------------------------------------------------
(* Properties.                                                             *)

Quiet == \A p \in Procs : pc[p] \in Away

(* However many sessions overlap: once none is at work, the link is        *)
(* disabled only if, since a PnP restart last gave the GPU back, a session *)
(* was killed before it came to its own restart, or a retrain pulse read   *)
(* the control register of the root port while the link was disabled (or   *)
(* had done so and still had to write it back).                            *)
LinkIsBack == Quiet /\ ~ orphan /\ ~ echoed => ~ dis

(* ... and the display driver is without its GPU only in these two cases   *)
(* or if the last PnP restart failed: every session that takes the link    *)
(* down restarts the GPU, whether its training was a success or not.       *)
GpuIsBack == Quiet /\ ~ orphan /\ ~ echoed /\ ~ stuck => ~ lost

(* Without the guard, retries come to an end: some time after the last     *)
(* start nothing runs and no task is armed.                                *)
RetriesEnd == ~ resident => <>[](task = 0 /\ \A p \in Procs : pc[p] = "off")

-----------------------------------------------------------------------------
(* The inductive invariants behind the properties.                         *)

(* A pulse that will write the link-disable bit back has read it set.      *)
SnapshotInv == (\E p \in Procs : ctl[p]) => echoed

(* Where the loops of the three stages may be.                             *)
StageInv ==
    \A p \in Procs :
       /\ pc[p] \in {"disable", "enable", "first", "recover", "reopen"}
             => stage[p] = "hard"
       /\ pc[p] \in {"only", "finish"} => stage[p] = "only"
       /\ pc[p] = "judge" => stage[p] = "retrain"
       /\ pc[p] \in {"disable", "enable"} => root

(* The link is down only between the two writes of a session, and never    *)
(* with the GPU still at work.                                             *)
LinkInv ==
    /\ dis => orphan \/ echoed \/ \E p \in Procs : pc[p] = "enable"
    /\ dis => lost

(* The GPU is lost only as long as a session has yet to recover it.        *)
LostInv == lost => orphan \/ echoed \/ stuck \/ \E p \in Procs : OwesGpu(p)
=============================================================================
