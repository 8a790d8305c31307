----------------------------- MODULE ByovdDrivers -----------------------------
(***************************************************************************)
(* The life of the two temporary kernel drivers as the tools load, use and *)
(* unload them: the Gen2 sessions of 40HXInstaller (gen2Main, run by the   *)
(* SYSTEM logon task, the Run key, the guard loop or the GUI) and the      *)
(* diagnosis of 40HXCheck (check).  Every sc.exe call, file operation and  *)
(* handle operation is a step of its own, because each is a separate call  *)
(* that another process may run between.                                   *)
(***************************************************************************)
EXTENDS DriverScm

CONSTANTS
    Gen2,            \* processes that run gen2Main
    Check,           \* processes that run 40HXCheck
    Admin,           \* the processes with administrator or SYSTEM rights
    Mortal,          \* processes that may be killed before they end
    LongLived        \* Gen2 processes that call gen2Main again (GUI, guard)

ASSUME ProcessesAreDisjoint == Gen2 \cap Check = {} /\ Proc = Gen2 \cup Check
ASSUME CheckIsElevated == Admin \subseteq Proc /\ Check \subseteq Admin
ASSUME LongLivedAreGen2 == LongLived \subseteq Gen2 /\ Mortal \subseteq Proc

VARIABLES
    pc,              \* where each process is
    cur,             \* the driver its loop over the two drivers is at
    att,             \* the attempt it is at: first or second
    held,            \* what it got from CreateMutex
    tried,           \* Check: drivers it brought up itself
    resident,        \* the driver strategy is "resident", not "transient"
    app,             \* the ThrottleStop application is running
    met,             \* history: who ran beside another elevated process
    late,            \* history: who looked for the application too early
    orphaned         \* history: drivers that have run since a process died

procVars == <<pc, cur, att, held, tried>>
settings == <<resident, app>>
history == <<met, late, orphaned>>
vars == <<scmVars, procVars, settings, history>>

First == "ThrottleStop"
Last == "WinRing0"

(* The steps between gen2Main's acquire and its deferred release.          *)
Loading == {"stat", "query", "redeploy", "create", "start", "delete"}
Using == {"openTS", "openWR", "work", "reclose", "reopen", "tail", "close"}
Cleaning == {"gate", "stop", "drop", "remove", "release"}
Session == Loading \cup Using \cup Cleaning

CheckSteps == {"probe", "cdeploy", "cquery", "create", "start", "delete",
               "read", "reading", "dump", "dumping",
               "gate", "stop", "drop", "remove"}

PC == Session \cup CheckSteps \cup {"idle", "returned"}

InSession(p) == p \in Gen2 /\ pc[p] \in Session

(* Between the first and the last call of a process on the drivers.        *)
Active(p) == pc[p] \notin {"idle", "returned"}

Removing == {"stop", "drop", "remove"}

TypeOK ==
    /\ ScmTypeOK
    /\ pc \in [Proc -> PC]
    /\ cur \in [Proc -> Drv]
    /\ att \in [Proc -> {1, 2}]
    /\ held \in [Proc -> {"no", "owner", "bypass", "denied"}]
    /\ tried \in [Proc -> SUBSET Drv]
    /\ resident \in BOOLEAN
    /\ app \in BOOLEAN
    /\ met \subseteq Admin
    /\ late \subseteq Proc
    /\ orphaned \subseteq Drv

(* After an installation, a clean-up or a reboot no driver is loaded; the  *)
(* ThrottleStop application, if it runs, has its driver running.           *)
Init ==
    /\ ScmInit
    /\ resident \in BOOLEAN
    /\ app \in BOOLEAN
    /\ \E s, t \in {"absent", "stopped"} :
          svc = [d \in Drv |-> IF d = "WinRing0" THEN s
                              ELSE IF app THEN "running" ELSE t]
    /\ pc = [p \in Proc |-> "idle"]
    /\ cur = [p \in Proc |-> First]
    /\ att = [p \in Proc |-> 1]
    /\ held = [p \in Proc |-> "no"]
    /\ tried = [p \in Proc |-> {}]
    /\ met = {} /\ late = {} /\ orphaned = {}

-----------------------------------------------------------------------------
(* Control flow.                                                           *)
Go(p, to) == pc' = [pc EXCEPT ![p] = to]

SetCur(p, d) == cur' = [cur EXCEPT ![p] = d]

(* The next turn of a loop over both drivers, or what follows the loop.    *)
ForNext(p, loop, after) ==
    IF cur[p] = First
    THEN Go(p, loop) /\ SetCur(p, Last)
    ELSE Go(p, after) /\ SetCur(p, First)

Loaders(p) == IF p \in Check THEN "cdeploy" ELSE "query"
AfterLoading(p) == IF p \in Check THEN "read" ELSE "openTS"
AfterCleanup(p) == IF p \in Check THEN "returned" ELSE "release"

-----------------------------------------------------------------------------
(* gen2Main: the single-instance mutex.  windows.CreateMutex returns        *)
(* ERROR_ALREADY_EXISTS as an error together with the handle, and every     *)
(* error lets the session run, so the branch that skips is never taken.     *)
MutexExists == \E q \in Gen2 : held[q] \in {"owner", "bypass"}

MayCall(p) == pc[p] = "idle" \/ (pc[p] = "returned" /\ p \in LongLived)

(* The mutex did not exist: this process creates and owns it.              *)
Acquire(p) ==
    /\ MayCall(p)
    /\ ~ MutexExists
    /\ held' = [held EXCEPT ![p] = "owner"]
    /\ Go(p, "stat")
    /\ UNCHANGED <<svc, marked, files, handles, cur, att, tried>>

(* It existed: the handle that came with the error is dropped and stays    *)
(* open until the process exits; a limited user may be refused access to   *)
(* the mutex of an elevated process and gets no handle.                    *)
AcquireBypass(p) ==
    /\ MayCall(p)
    /\ MutexExists
    /\ \/ held' = [held EXCEPT ![p] = "bypass"]
       \/ /\ p \notin Admin
          /\ held[p] = "no"
          /\ held' = [held EXCEPT ![p] = "denied"]
    /\ Go(p, "stat")
    /\ UNCHANGED <<svc, marked, files, handles, cur, att, tried>>

(* gen2Main: a missing driver file is copied before anything is loaded.    *)
Stat(p) ==
    /\ pc[p] = "stat"
    /\ IF p \in Admin THEN WriteFile(cur[p]) ELSE UNCHANGED files
    /\ ForNext(p, "stat", "query")
    /\ UNCHANGED <<svc, marked, handles, att, held, tried>>

-----------------------------------------------------------------------------
(* ensureSvcLoaded, and the loop body of Check's ensureDrivers, which ends *)
(* in the same calls.                                                      *)
Query(p) ==
    /\ pc[p] = "query"
    /\ att' = [att EXCEPT ![p] = 1]
    /\ IF svc[cur[p]] = "running"
       THEN ForNext(p, "query", "openTS")
       ELSE Go(p, "redeploy") /\ UNCHANGED cur
    /\ UNCHANGED <<svc, marked, files, handles, held, tried>>

Redeploy(p) ==
    /\ pc[p] = "redeploy"
    /\ IF p \in Admin THEN WriteFile(cur[p]) ELSE UNCHANGED files
    /\ Go(p, "create")
    /\ UNCHANGED <<svc, marked, handles, cur, att, held, tried>>

Create(p) ==
    /\ pc[p] = "create"
    /\ IF p \in Admin THEN ScCreate(cur[p]) ELSE UNCHANGED <<svc, marked>>
    /\ Go(p, "start")
    /\ UNCHANGED <<files, handles, cur, att, held, tried>>

Start(p) ==
    /\ pc[p] = "start"
    /\ p \in Admin
    /\ ScStart(cur[p])
    /\ ForNext(p, Loaders(p), AfterLoading(p))
    /\ UNCHANGED <<files, handles, att, held, tried>>

(* Mutant: the number of attempts is not limited.                          *)
StartFailsMutant(p) ==
    /\ pc[p] = "start"
    /\ Go(p, "delete")
    /\ UNCHANGED <<svc, marked, files, handles, cur, att, held, tried>>

(* sc start may be refused by access rights, security software, a missing  *)
(* file, a marked service or a driver that runs already.                   *)
StartFails(p) ==
    /\ pc[p] = "start"
    /\ IF att[p] = 1
       THEN Go(p, "delete") /\ UNCHANGED cur
       ELSE ForNext(p, Loaders(p), AfterLoading(p))
    /\ UNCHANGED <<svc, marked, files, handles, att, held, tried>>

RetryDelete(p) ==
    /\ pc[p] = "delete"
    /\ IF p \in Admin THEN ScDelete(cur[p]) ELSE UNCHANGED <<svc, marked>>
    /\ att' = [att EXCEPT ![p] = 2]
    /\ Go(p, IF p \in Check THEN "create" ELSE "redeploy")
    /\ UNCHANGED <<files, handles, cur, held, tried>>

-----------------------------------------------------------------------------
(* gen2Main: the handles.                                                  *)
MayFailToOpen(p, d) == svc[d] # "running" \/ p \notin Admin

OpenTs(p) ==
    /\ pc[p] = "openTS"
    /\ \/ OpenHandle(p, "ThrottleStop") /\ Go(p, "openWR")
       \/ /\ MayFailToOpen(p, "ThrottleStop")
          /\ Go(p, "gate")
          /\ UNCHANGED handles
    /\ UNCHANGED <<svc, marked, files, cur, att, held, tried>>

(* Mutant: the error of the second open is not looked at.                  *)
OpenWrIgnoreMutant(p) ==
    /\ pc[p] = "openWR"
    /\ \/ OpenHandle(p, "WinRing0") /\ Go(p, "work")
       \/ MayFailToOpen(p, "WinRing0") /\ Go(p, "work") /\ UNCHANGED handles
    /\ UNCHANGED <<svc, marked, files, cur, att, held, tried>>

(* Mutant: the early return comes before the clean-up is deferred.         *)
OpenWrMutant(p) ==
    /\ pc[p] = "openWR"
    /\ \/ OpenHandle(p, "WinRing0") /\ Go(p, "work")
       \/ MayFailToOpen(p, "WinRing0") /\ Go(p, "release")
             /\ UNCHANGED handles
    /\ UNCHANGED <<svc, marked, files, cur, att, held, tried>>

(* Mutant: a failed open is tried again without a limit.                   *)
OpenWrRetryMutant(p) ==
    /\ pc[p] = "openWR"
    /\ OpenHandle(p, "WinRing0")
    /\ Go(p, "work")
    /\ UNCHANGED <<svc, marked, files, cur, att, held, tried>>

(* The early return here comes before the deferred close is registered:    *)
(* the ThrottleStop handle stays open.                                     *)
OpenWr(p) ==
    /\ pc[p] = "openWR"
    /\ \/ OpenHandle(p, "WinRing0") /\ Go(p, "work")
       \/ MayFailToOpen(p, "WinRing0") /\ Go(p, "gate") /\ UNCHANGED handles
    /\ UNCHANGED <<svc, marked, files, cur, att, held, tried>>

(* The link work of stage 1; stage 2 recovers the device and reopens both  *)
(* handles before it goes on.                                              *)
Work(p) ==
    /\ pc[p] = "work"
    /\ Go(p, "close") \/ Go(p, "reclose")
    /\ UNCHANGED <<svc, marked, files, handles, cur, att, held, tried>>

ReopenClose(p) ==
    /\ pc[p] = "reclose"
    /\ CloseHandles(p)
    /\ Go(p, "reopen")
    /\ UNCHANGED <<files, cur, att, held, tried>>

(* Both opens are tried; if either failed the stale value is kept and the  *)
(* rest of stage 2 is skipped.                                             *)
Reopen(p) ==
    /\ pc[p] = "reopen"
    /\ \/ OpenHandle(p, cur[p])
       \/ MayFailToOpen(p, cur[p]) /\ UNCHANGED handles
    /\ ForNext(p, "reopen", IF handles'[p] = Drv THEN "tail" ELSE "close")
    /\ UNCHANGED <<svc, marked, files, att, held, tried>>

Tail(p) ==
    /\ pc[p] = "tail"
    /\ Go(p, "close")
    /\ UNCHANGED <<svc, marked, files, handles, cur, att, held, tried>>

(* The deferred close of whatever th and wh hold at the end.               *)
Close(p) ==
    /\ pc[p] = "close"
    /\ CloseHandles(p)
    /\ Go(p, "gate")
    /\ UNCHANGED <<files, cur, att, held, tried>>

(* Mutant: the ThrottleStop application is not looked for.                 *)
GateAppMutant(p) ==
    /\ pc[p] = "gate"
    /\ Go(p, IF resident THEN AfterCleanup(p) ELSE "stop")
    /\ UNCHANGED <<svc, marked, files, handles, cur, att, held, tried>>

-----------------------------------------------------------------------------
(* cleanupByovd and cleanupDrivers: the same gate and the same calls.  The *)
(* process list is looked at once, here; the calls that follow do not look *)
(* again.                                                                  *)
Gate(p) ==
    /\ pc[p] = "gate"
    /\ Go(p, IF resident \/ app THEN AfterCleanup(p) ELSE "stop")
    /\ UNCHANGED <<svc, marked, files, handles, cur, att, held, tried>>

(* Mutant: the service is deleted only while its driver is loaded.      *)
DropMutant(p) ==
    /\ pc[p] = "drop"
    /\ IF p \in Admin /\ Loaded(cur[p])
       THEN ScDelete(cur[p]) ELSE UNCHANGED <<svc, marked>>
    /\ Go(p, "remove")
    /\ UNCHANGED <<files, handles, cur, att, held, tried>>

Stop(p) ==
    /\ pc[p] = "stop"
    /\ IF p \in Admin THEN ScStop(cur[p]) ELSE UNCHANGED <<svc, marked>>
    /\ Go(p, "drop")
    /\ UNCHANGED <<files, handles, cur, att, held, tried>>

Drop(p) ==
    /\ pc[p] = "drop"
    /\ IF p \in Admin THEN ScDelete(cur[p]) ELSE UNCHANGED <<svc, marked>>
    /\ Go(p, "remove")
    /\ UNCHANGED <<files, handles, cur, att, held, tried>>

Remove(p) ==
    /\ pc[p] = "remove"
    /\ IF p \in Admin THEN RemoveFile(cur[p]) ELSE UNCHANGED files
    /\ ForNext(p, "stop", AfterCleanup(p))
    /\ UNCHANGED <<svc, marked, handles, att, held, tried>>

(* The release function of a bypassed acquire does nothing.                *)
Release(p) ==
    /\ pc[p] = "release"
    /\ held' = [held EXCEPT ![p] = IF @ = "bypass" THEN @ ELSE "no"]
    /\ Go(p, "returned")
    /\ UNCHANGED <<svc, marked, files, handles, cur, att, tried>>

-----------------------------------------------------------------------------
(* 40HXCheck: ensureDrivers, the reads, cleanupDrivers.                    *)
CheckBegin(c) ==
    /\ pc[c] = "idle"
    /\ Go(c, "probe")
    /\ UNCHANGED <<svc, marked, files, handles, cur, att, held, tried>>

(* Both running: nothing to do.  Else bring them up, if the package has    *)
(* its driver directory.                                                   *)
Probe(c) ==
    /\ pc[c] = "probe"
    /\ att' = [att EXCEPT ![c] = 1]
    /\ IF svc[cur[c]] = "running"
       THEN ForNext(c, "probe", "read")
       ELSE /\ Go(c, "cdeploy") \/ Go(c, "read")
            /\ SetCur(c, First)
    /\ UNCHANGED <<svc, marked, files, handles, held, tried>>

CheckDeploy(c) ==
    /\ pc[c] = "cdeploy"
    /\ WriteFile(cur[c])
    /\ Go(c, "cquery")
    /\ UNCHANGED <<svc, marked, handles, cur, att, held, tried>>

(* Mutant: a driver that runs already resets what was brought up before.   *)
CheckQueryMutant(c) ==
    /\ pc[c] = "cquery"
    /\ IF svc[cur[c]] = "running"
       THEN /\ ForNext(c, "cdeploy", "read")
            /\ tried' = [tried EXCEPT ![c] = {}]
            /\ UNCHANGED att
       ELSE /\ tried' = [tried EXCEPT ![c] = {cur[c]}]
            /\ att' = [att EXCEPT ![c] = 1]
            /\ Go(c, "create")
            /\ UNCHANGED cur
    /\ UNCHANGED <<svc, marked, files, handles, held>>

CheckQuery(c) ==
    /\ pc[c] = "cquery"
    /\ IF svc[cur[c]] = "running"
       THEN ForNext(c, "cdeploy", "read") /\ UNCHANGED <<att, tried>>
       ELSE /\ tried' = [tried EXCEPT ![c] = @ \cup {cur[c]}]
            /\ att' = [att EXCEPT ![c] = 1]
            /\ Go(c, "create")
            /\ UNCHANGED cur
    /\ UNCHANGED <<svc, marked, files, handles, held>>

(* ReadUnlockStateV2, then rawPcieDump: WinRing0 first, ThrottleStop only  *)
(* when the device was found.                                              *)
CheckOpen(c) ==
    /\ pc[c] \in {"read", "dump"}
    /\ \E opened \in {{}, {"WinRing0"}, Drv} :
          /\ opened = {} => svc["WinRing0"] # "running"
          /\ \A d \in opened : svc[d] = "running"
          /\ handles' = [handles EXCEPT ![c] = opened]
    /\ Go(c, IF pc[c] = "read" THEN "reading" ELSE "dumping")
    /\ UNCHANGED <<svc, marked, files, cur, att, held, tried>>

CheckClose(c) ==
    /\ pc[c] \in {"reading", "dumping"}
    /\ CloseHandles(c)
    /\ Go(c, IF pc[c] = "reading" THEN "dump"
             ELSE IF tried[c] = {} THEN "returned" ELSE "gate")
    /\ UNCHANGED <<files, cur, att, held, tried>>

-----------------------------------------------------------------------------
(* A process that ends, normally or killed, loses its handles and mutex.   *)
End(p) ==
    /\ CloseHandles(p)
    /\ Go(p, "idle")
    /\ SetCur(p, First)
    /\ att' = [att EXCEPT ![p] = 1]
    /\ held' = [held EXCEPT ![p] = "no"]
    /\ tried' = [tried EXCEPT ![p] = {}]
    /\ UNCHANGED files

Exit(p) == pc[p] = "returned" /\ End(p)

Crash(p) == p \in Mortal /\ pc[p] # "idle" /\ End(p)

Load(p) == \/ Query(p) \/ Redeploy(p)
           \/ Create(p) \/ Start(p) \/ StartFails(p) \/ RetryDelete(p)

Use(p) == \/ OpenTs(p) \/ OpenWr(p) \/ Work(p) \/ ReopenClose(p)
          \/ Reopen(p) \/ Tail(p) \/ Close(p)

Cleanup(p) == Gate(p) \/ Stop(p) \/ Drop(p) \/ Remove(p)

Gen2Call(p) == Acquire(p) \/ AcquireBypass(p)

Gen2Step(p) == Stat(p) \/ Load(p) \/ Use(p) \/ Cleanup(p) \/ Release(p)

CheckStep(c) == \/ Probe(c) \/ CheckDeploy(c) \/ CheckQuery(c)
                \/ Load(c) \/ CheckOpen(c) \/ CheckClose(c) \/ Cleanup(c)

Antivirus == \E d \in Drv : AvRemovesFile(d) /\ UNCHANGED procVars

(* External: the user starts the ThrottleStop application, which uses the  *)
(* driver that runs or brings up its own; it cannot while a stop is        *)
(* pending.  Once started it runs on.                                      *)
AppStarts ==
    /\ ~ app
    /\ svc["ThrottleStop"] # "stopping"
    /\ app' = TRUE
    /\ svc' = [svc EXCEPT !["ThrottleStop"] = "running"]
    /\ UNCHANGED <<marked, files, handles, procVars>>

(* What the properties have to know of the past: which elevated processes  *)
(* were active together, who was past the gate when the application was    *)
(* started, and which drivers have run ever since a process was killed.    *)
Killed(p) == Active(p) /\ pc'[p] = "idle"

Record ==
    /\ met' = {p \in Admin : /\ Active(p)'
                             /\ \/ p \in met
                                \/ \E q \in Admin \ {p} : Active(q)'}
    /\ late' = {p \in Proc : pc'[p] \in Removing /\ (p \in late \/ app' # app)}
    /\ orphaned' = {d \in Drv : /\ svc'[d] = "running"
                                /\ \/ d \in orphaned
                                   \/ \E p \in Admin : Killed(p)}

Meanwhile == UNCHANGED settings /\ Record

(* The driver strategy does not change while the tools run.                *)
Next ==
    \/ /\ \/ \E p \in Gen2 : Gen2Call(p) \/ Gen2Step(p)
          \/ \E c \in Check : CheckBegin(c) \/ CheckStep(c)
          \/ \E p \in Proc : Exit(p) \/ Crash(p)
          \/ Antivirus
       /\ Meanwhile
    \/ AppStarts /\ UNCHANGED resident /\ Record

Spec == Init /\ [][Next]_vars

(* Every call the tools wait for returns, so a process that has begun goes *)
(* on; a process that is not long-lived exits.  Nothing forces a process   *)
(* to be started, a long-lived one to exit, a crash, a quarantine or the   *)
(* start of the application.                                               *)
Fairness ==
    /\ \A p \in Gen2 : WF_vars(Gen2Step(p) /\ Meanwhile)
    /\ \A c \in Check : WF_vars(CheckStep(c) /\ Meanwhile)
    /\ \A p \in Proc \ LongLived : WF_vars(Exit(p) /\ Meanwhile)

FairSpec == Spec /\ Fairness

-----------------------------------------------------------------------------
(* Properties.                                                             *)

(* What the header of gen2Main says: at most one elevated process is       *)
(* between its acquire and its release.                                    *)
ExclusiveSession ==
    \A p, q \in Gen2 \cap Admin : InSession(p) /\ InSession(q) => p = q

(* While an elevated Gen2 session works on the link, nobody has stopped    *)
(* either driver under it, unless another elevated session or diagnosis    *)
(* was active at some moment of this session: limited users, kills,        *)
(* handles left open by earlier sessions, quarantines and the start of the *)
(* application do not take a driver away.                                  *)
DriversStayLoaded ==
    \A p \in (Gen2 \cap Admin) \ met :
        pc[p] \in {"work", "tail"} => \A d \in Drv : svc[d] = "running"

(* When cleanupByovd or cleanupDrivers is done with a driver no handle     *)
(* pins, nothing of that driver is left, not the file, not the service,    *)
(* unless another elevated process was active meanwhile or the application *)
(* was started after the clean-up had looked for it.                       *)
CleanupLeavesNothing ==
    [][\A p \in Admin \ (met \cup late) : \A d \in Drv :
          (pc[p] = "remove" /\ cur[p] = d /\ pc'[p] \in {"stop", AfterCleanup(p)}
             /\ ~ HeldBy(d, Proc))
          => d \notin files' /\ svc'[d] = "absent"]_vars

(* What cleanupByovd promises: after the clean-up of an elevated session   *)
(* under the transient strategy neither driver is loaded and neither file  *)
(* is on disk.                                                             *)
NoResidue ==
    \A p \in Gen2 \cap Admin :
        pc[p] = "release" /\ ~ resident /\ ~ app
            => \A d \in Drv : ~ Loaded(d) /\ d \notin files

(* Under the resident strategy a driver that runs keeps running, whatever  *)
(* the sessions, diagnoses and users do beside each other.                 *)
ResidentNeverUnloads ==
    [][resident => \A d \in Drv : svc[d] = "running" => svc'[d] = "running"]_vars

(* While the ThrottleStop application runs, its driver is stopped by       *)
(* nobody, except by a clean-up that had looked at the process list before *)
(* the application was started and had not come to its end.                *)
AppKeepsItsDriver ==
    [][app /\ svc["ThrottleStop"] = "running" /\ svc'["ThrottleStop"] # "running"
          => \E p \in late : pc[p] = "stop" /\ cur[p] = "ThrottleStop"
                               /\ pc'[p] = "drop"]_vars

(* Under the transient strategy, as long as the application has not been   *)
(* started, a driver that is loaded when every process has ended has been  *)
(* running ever since an elevated process was killed: whatever else fails  *)
(* and however the processes interleave, somebody unloads it, and the next *)
(* clean-up that stops it makes a kill good.                               *)
QuietMeansUnloaded ==
    (\A p \in Proc : pc[p] = "idle") /\ ~ resident /\ ~ app
        => \A d \in Drv : Loaded(d) => d \in orphaned

(* A pending unload completes: whichever of the tools pins the driver lets *)
(* go of it.                                                               *)
StoppingEnds == \A d \in Drv : svc[d] = "stopping" ~> svc[d] # "stopping"

(* A Gen2 session reaches its end, whatever fails on the way, and gives    *)
(* the next one its turn.                                                  *)
SessionEnds == \A p \in Gen2 : InSession(p) ~> ~ InSession(p)

-----------------------------------------------------------------------------
(* The inductive invariants behind the properties.                         *)
Holding == {"work", "reclose", "reopen", "tail", "close"}

(* Who has not met another elevated process is alone among them.           *)
Alone == \A p \in Admin \ met : Active(p) => \A q \in Admin \ {p} : ~ Active(q)

(* What a session has open runs, until it closes it, if nobody else met    *)
(* it; outside the stretch with both handles only ThrottleStop's can be    *)
(* left open.                                                              *)
HoldsRunning(p) ==
    /\ pc[p] \notin Holding => handles[p] \subseteq {"ThrottleStop"}
    /\ pc[p] = "openWR" => handles[p] = {"ThrottleStop"}
    /\ pc[p] \in {"work", "tail"} => handles[p] = Drv
    /\ p \notin met /\ pc[p] \in Holding \cup {"openWR"}
          => \A d \in handles[p] : svc[d] = "running"

DriverInv == Alone /\ \A p \in Gen2 \cap Admin : HoldsRunning(p)

(* Between the calls of a clean-up: stopped before it is deleted, and      *)
(* gone, or going with the last foreign handle, before the file is.        *)
Swept(p) ==
    /\ pc[p] = "drop" => svc[cur[p]] # "running"
    /\ pc[p] = "remove" =>
          \/ svc[cur[p]] = "absent"
          \/ svc[cur[p]] = "stopping" /\ cur[p] \in marked

PendingIsHeld == \A d \in Drv : svc[d] = "stopping" => HeldBy(d, Proc)

CleanupInv ==
    /\ Alone
    /\ \A p \in Admin \ (met \cup late) : Swept(p)

(* While the application runs, only those get to a stop who were past the  *)
(* gate when it was started; under the resident strategy nobody does.      *)
GateInv ==
    \A p \in Proc : pc[p] \in Removing => /\ ~ resident
                                          /\ app => p \in late

(* A process that has a driver still to stop: on its way to cleanupByovd,  *)
(* or in the loop there and not past this driver.  Check comes there only  *)
(* if it has brought up a driver itself.                                   *)
Ahead == (Session \cup CheckSteps) \ {"stop", "drop", "remove", "release"}

Owes(p, d) ==
    /\ p \in Admin
    /\ p \in Check => tried[p] # {}
    /\ \/ pc[p] \in Ahead
       \/ pc[p] = "stop" /\ cur[p] \in {First, d}
       \/ pc[p] \in {"drop", "remove"} /\ cur[p] = First /\ d = Last

(* Between the loops over the two drivers, a process is at the first.      *)
Looping == Loading \cup {"reopen", "stop", "drop", "remove",
                         "probe", "cdeploy", "cquery"}

Orderly(p) ==
    /\ p \in Gen2 => pc[p] \in Session \cup {"idle", "returned"}
    /\ p \in Check => pc[p] \in CheckSteps \cup {"idle", "returned"}
    /\ pc[p] \notin Looping => cur[p] = First
    /\ pc[p] = "idle" => handles[p] = {}
    /\ p \in Check /\ pc[p] \notin {"reading", "dumping"} => handles[p] = {}
    /\ p \in Check /\ pc[p] \in {"create", "start", "delete"} => tried[p] # {}

(* Whatever runs under the transient strategy, some process is still going *)
(* to stop it, or one that was has been killed; and a stop that is pending *)
(* waits for a handle of a process that has not ended.                     *)
OwedInv ==
    /\ PendingIsHeld
    /\ \A p \in Proc : Orderly(p)
    /\ ~ resident /\ ~ app =>
          \A d \in Drv : svc[d] = "running"
              => d \in orphaned \/ \E p \in Proc : Owes(p, d)
=============================================================================
