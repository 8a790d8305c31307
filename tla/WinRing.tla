------------------------------- MODULE WinRing -------------------------------
(***************************************************************************)
(* The life of the WinRing0 driver under several processes that use        *)
(* WinRing0.dll (Driver.cpp, OlsDll.cpp, OlsApiInit.h) and the life cycle  *)
(* half of the driver itself (OpenLibSys.c).  Clients call InitializeOls   *)
(* and DeinitializeOls; a tool is a process that opens the device without  *)
(* the library, as the Gen2 tools do.  The service control manager is      *)
(* external: one service, which disappears only when it is marked for      *)
(* deletion, its driver is out of the kernel and nobody has a handle of    *)
(* the service open.  DriverScm describes the same manager as sc.exe shows *)
(* it, where no handle of the service outlives a call.                     *)
(***************************************************************************)
EXTENDS Integers, FiniteSets

CONSTANTS
    Client,      \* processes that load the library
    Tool,        \* processes that open the device by themselves
    Tries,       \* attempts of InitializeOls (4 in the code)
    Wrap,        \* size of the ULONG refCount
    MaxCalls     \* bound: InitializeOls calls of all processes together

ASSUME WinRingAssumption ==
    /\ IsFiniteSet(Client) /\ IsFiniteSet(Tool)
    /\ Client \cap Tool = {}
    /\ Tries \in Nat \ {0, 1}
    /\ Wrap \in Nat /\ Wrap > Cardinality(Client \cup Tool) + 1
    /\ MaxCalls \in Nat

VARIABLES
    svc,         \* the service: absent, stopped, running, or stopping
    marked,      \* it is marked for deletion
    pins,        \* processes that leaked a handle of the service
    handles,     \* processes that have the device open
    refCount,    \* static ULONG refCount of the driver
    irp,         \* refCount as an unfinished create or close has read it
    driverFile,  \* beside the executables: missing, blocked, or fine
    library,     \* WinRing0.dll exports the functions: whole, or partial
    pc,          \* where each process is
    try,         \* attempt InitializeOls is in
    plan,        \* why a client is removing the driver
    calls,       \* calls of InitializeOls so far
    \* history, for the properties only
    alone,       \* clients nobody else has run beside
    used,        \* clients that have called InitializeOls
    raced,       \* two dispatches overlapped since the driver was loaded
    held,        \* who has had the device open since a client counted
    disturbed    \* the driver was left to a process that does not remove it

scm   == <<svc, marked, pins, handles>>
files == <<driverFile, library>>
hist  == <<alone, used, raced, held, disturbed>>
vars  == <<scm, refCount, irp, files, pc, try, plan, calls, hist>>

Process == Client \cup Tool

None   == -1                \* no create or close is in progress
Frozen == Wrap - 1          \* (ULONG)-1, which the driver never counts from

ManagerPc == {"open", "query", "stop", "delete", "create", "start", "reopen"}

PcValues == ManagerPc \cup {"absent", "loaded", "opening", "ready", "failed",
                            "counted", "closing"}

Plans == {"none", "before", "after", "last"}

(* A client between the first line and the return of Initialize or         *)
(* Deinitialize.                                                           *)
Managing(p) == /\ p \in Client
               /\ pc[p] \in ManagerPc \cup {"opening", "counted", "closing"}

Busy(p) == irp[p] # None

Loaded == svc \in {"running", "stopping"}

(* Earlier processes may have left a service, with its driver loaded.       *)
Init ==
    /\ svc \in {"absent", "stopped", "running"}
    /\ marked = FALSE
    /\ pins = {}
    /\ handles = {}
    /\ refCount = 0
    /\ irp = [p \in Process |-> None]
    /\ driverFile \in {"missing", "blocked", "fine"}
    /\ library \in {"whole", "partial"}
    /\ pc = [p \in Process |-> "absent"]
    /\ try = [p \in Client |-> 0]
    /\ plan = [p \in Client |-> "none"]
    /\ calls = 0
    /\ alone = {}
    /\ used = {}
    /\ raced = FALSE
    /\ held = [p \in Client |-> {}]
    /\ disturbed = (svc # "absent")

-----------------------------------------------------------------------------
(* The service control manager.                                            *)

(* What is left once the driver is out of the kernel.                      *)
Settled(m, P) == IF m /\ P = {} THEN "absent" ELSE "stopped"

(* The state of the service when the handles H and the pins P are left.    *)
Settle(m, H, P) ==
    LET s == IF (svc = "stopping" /\ H = {}) \/ svc = "stopped"
             THEN Settled(m, P)
             ELSE svc
    IN svc' = s /\ marked' = (m /\ s # "absent")

(* History steps: the driver is left behind; a process lets go of it.      *)
Disturb(left) == disturbed' = (disturbed \/ left)

LetGo(p) == held' = [q \in Client |-> held[q] \ {p}]

-----------------------------------------------------------------------------
(* The driver: IRP_MJ_CREATE and IRP_MJ_CLOSE read and write refCount      *)
(* without a lock.                                                         *)

DispatchBegin(p) ==
    /\ irp' = [irp EXCEPT ![p] = refCount]
    /\ raced' = (raced \/ \E q \in Process \ {p} : Busy(q))

(* Mutant: a create falls through into the close.                          *)
CountedFallMutant(r, step) ==
    IF r = Frozen \/ step = 1 THEN refCount ELSE (r + step) % Wrap

Counted(r, step) == IF r = Frozen THEN refCount ELSE (r + step) % Wrap

DispatchEnd(p, step) ==
    /\ refCount' = Counted(irp[p], step)
    /\ irp' = [irp EXCEPT ![p] = None]

(* CreateFile on the device: the driver runs and no stop is pending.       *)
OpenDevice(p) ==
    /\ svc = "running"
    /\ handles' = handles \cup {p}
    /\ DispatchBegin(p)

-----------------------------------------------------------------------------
(* Processes come and go.                                                  *)

NoOne(p) == \A q \in Process \ {p} : pc[q] = "absent"

(* InitOpenLibSys: LoadLibrary, where the library is.                       *)
Load(p) ==
    /\ p \in Client
    /\ pc[p] = "absent"
    /\ pc' = [pc EXCEPT ![p] = "loaded"]
    /\ alone' = IF NoOne(p) THEN {p} ELSE {}
    /\ UNCHANGED <<scm, refCount, irp, files, try, plan, calls, used, raced,
                   held, disturbed>>

(* FreeLibrary or the end of the process; DllMain finds nothing to undo.   *)
(* The handles of the service that the library leaked are closed.          *)
Unload(p) ==
    /\ p \in Client
    /\ pc[p] = "loaded"
    /\ pc' = [pc EXCEPT ![p] = "absent"]
    /\ pins' = pins \ {p}
    /\ Settle(marked, handles, pins')
    /\ alone' = alone \ {p}
    /\ used' = used \ {p}
    /\ disturbed' = (disturbed /\ ~ (NoOne(p) /\ svc' = "absent"))
    /\ UNCHANGED <<handles, refCount, irp, files, try, plan, calls, raced,
                   held>>

(* A client is terminated: DllMain is not called, the kernel closes all.   *)
Kill(p) ==
    /\ Managing(p) \/ pc[p] \in {"ready", "failed"}
    /\ \A q \in Process : ~ Busy(q)
    /\ pc' = [pc EXCEPT ![p] = "absent"]
    /\ pins' = pins \ {p}
    /\ handles' = handles \ {p}
    /\ refCount' = IF p \in handles THEN Counted(refCount, -1) ELSE refCount
    /\ Settle(marked, handles', pins')
    /\ try' = [try EXCEPT ![p] = 0]
    /\ plan' = [plan EXCEPT ![p] = "none"]
    /\ alone' = alone \ {p}
    /\ used' = used \ {p}
    /\ LetGo(p)
    /\ Disturb(pc[p] # "failed")
    /\ UNCHANGED <<irp, files, calls, raced>>

(* A tool opens the device, if it is there, and closes it again.           *)
ToolOpen(p) ==
    /\ p \in Tool
    /\ pc[p] = "absent"
    /\ OpenDevice(p)
    /\ pc' = [pc EXCEPT ![p] = "opening"]
    /\ alone' = {}
    /\ UNCHANGED <<svc, marked, pins, refCount, files, try, plan, calls,
                   used, held, disturbed>>

ToolClose(p) ==
    /\ p \in Tool
    /\ pc[p] = "ready"
    /\ DispatchBegin(p)
    /\ pc' = [pc EXCEPT ![p] = "closing"]
    /\ UNCHANGED <<scm, refCount, files, try, plan, calls,
                   alone, used, held, disturbed>>

-----------------------------------------------------------------------------
(* InitializeOls.                                                          *)

(* InitOpenLibSys calls the library only if every function it looks up is  *)
(* exported; with one missing the process has loaded it for nothing.       *)
AllFunctions == library = "whole"

(* gInitDll is FALSE: the first attempt begins.                            *)
InitializeOls(p) ==
    /\ p \in Client
    /\ AllFunctions
    /\ pc[p] = "loaded"
    /\ calls < MaxCalls
    /\ calls' = calls + 1
    /\ pc' = [pc EXCEPT ![p] = "open"]
    /\ try' = [try EXCEPT ![p] = 1]
    /\ used' = used \cup {p}
    /\ UNCHANGED <<scm, refCount, irp, files, plan, alone, raced, held,
                   disturbed>>

(* Mutant: the attempts are not counted.                                   *)
TryAgainMutant(p) ==
    /\ pc' = [pc EXCEPT ![p] = "open"]
    /\ UNCHANGED try

(* The attempt has failed: the next one, or gInitDll with an error status. *)
TryAgain(p) ==
    IF try[p] < Tries
    THEN /\ pc' = [pc EXCEPT ![p] = "open"]
         /\ try' = [try EXCEPT ![p] = @ + 1]
    ELSE /\ pc' = [pc EXCEPT ![p] = "failed"]
         /\ try' = [try EXCEPT ![p] = 0]

(* IsFileExist and IsOnNetworkDrive: a file on a share counts as missing,  *)
(* since the kernel could not load it.                                     *)
FileInPlace == driverFile # "missing"

(* Initialize: no driver file, an open device, or removal and installation *)
(* when CreateFile fails, which it may do with the driver running, too.    *)
Initialize(p) ==
    /\ pc[p] = "open"
    /\ \/ /\ ~ FileInPlace
          /\ TryAgain(p)
          /\ UNCHANGED <<handles, irp, raced, plan>>
       \/ /\ FileInPlace
          /\ OpenDevice(p)
          /\ pc' = [pc EXCEPT ![p] = "opening"]
          /\ UNCHANGED <<try, plan>>
       \/ /\ FileInPlace
          /\ pc' = [pc EXCEPT ![p] = "query"]
          /\ plan' = [plan EXCEPT ![p] = "before"]
          /\ UNCHANGED <<handles, irp, raced, try>>
    /\ UNCHANGED <<svc, marked, pins, refCount, files, calls,
                   alone, used, held, disturbed>>

(* The create request is completed.                                        *)
Opened(p) ==
    /\ pc[p] = "opening"
    /\ DispatchEnd(p, 1)
    /\ pc' = [pc EXCEPT ![p] = "ready"]
    /\ try' = IF p \in Client THEN [try EXCEPT ![p] = 0] ELSE try
    /\ UNCHANGED <<scm, files, plan, calls, alone, used, raced, held,
                   disturbed>>

(* InstallDriver: a service that exists will do, one that is marked won't. *)
InstallDriver(p) ==
    /\ pc[p] = "create"
    /\ svc' = IF svc = "absent" THEN "stopped" ELSE svc
    /\ pc' = [pc EXCEPT ![p] = IF marked THEN "query" ELSE "start"]
    /\ plan' = [plan EXCEPT ![p] = IF marked THEN "after" ELSE "none"]
    /\ UNCHANGED <<marked, pins, handles, refCount, irp, files, try,
                   calls, alone, used, raced, held, disturbed>>

(* StartDriver: a driver that runs already will do.  DriverEntry begins    *)
(* with a count of zero.                                                   *)
StartDriver(p) ==
    /\ pc[p] = "start"
    /\ LET started == svc = "stopped" /\ ~ marked /\ driverFile = "fine"
           fine    == started \/ svc = "running"
       IN /\ svc' = IF started THEN "running" ELSE svc
          /\ refCount' = IF started THEN 0 ELSE refCount
          /\ raced' = (raced /\ ~ started)
          /\ pc' = [pc EXCEPT ![p] = IF fine THEN "reopen" ELSE "query"]
          /\ plan' = [plan EXCEPT ![p] = IF fine THEN "none" ELSE "after"]
    /\ UNCHANGED <<marked, pins, handles, irp, files, try, calls,
                   alone, used, held, disturbed>>

(* OpenDriver after the installation.  It may fail with the driver running;*)
(* nothing is removed then, and after the last attempt nothing will be.    *)
Reopen(p) ==
    /\ pc[p] = "reopen"
    /\ \/ /\ OpenDevice(p)
          /\ pc' = [pc EXCEPT ![p] = "opening"]
          /\ UNCHANGED <<try, disturbed>>
       \/ /\ TryAgain(p)
          /\ Disturb(try[p] = Tries /\ svc = "running")
          /\ UNCHANGED <<handles, irp, raced>>
    /\ UNCHANGED <<svc, marked, pins, refCount, files, plan, calls, alone,
                   used, held>>

-----------------------------------------------------------------------------
(* ManageDriver(OLS_DRIVER_REMOVE).                                        *)

(* IsSystemInstallDriver: the configuration of a service is read, but its  *)
(* start type only looked at when reading failed; the answer is FALSE and  *)
(* the handle of the service stays open.                                   *)
IsSystemInstallDriver(p) ==
    /\ pc[p] = "query"
    /\ pins' = IF svc = "absent" THEN pins ELSE pins \cup {p}
    /\ pc' = [pc EXCEPT ![p] = "stop"]
    /\ UNCHANGED <<svc, marked, handles, refCount, irp, files, try, plan,
                   calls, alone, used, raced, held, disturbed>>

(* Mutant: the driver is not stopped before its service is deleted.        *)
StopDriverMutant(p) ==
    /\ pc[p] = "stop"
    /\ pc' = [pc EXCEPT ![p] = "delete"]
    /\ UNCHANGED <<svc, marked, pins, handles, refCount, irp, files, try,
                   plan, calls, alone, used, raced, held, disturbed>>

(* StopDriver: at once, or pending while a handle of the device is open.   *)
StopDriver(p) ==
    /\ pc[p] = "stop"
    /\ svc' = IF svc # "running" THEN svc
              ELSE IF handles # {} THEN "stopping"
              ELSE Settled(marked, pins)
    /\ marked' = (marked /\ svc' # "absent")
    /\ pc' = [pc EXCEPT ![p] = "delete"]
    /\ UNCHANGED <<pins, handles, refCount, irp, files, try, plan,
                   calls, alone, used, raced, held, disturbed>>

(* RemoveDriver, and what the caller of the removal does next.             *)
RemoveDriver(p) ==
    /\ pc[p] = "delete"
    /\ IF svc = "absent"
       THEN UNCHANGED <<svc, marked>>
       ELSE Settle(TRUE, handles, pins)
    /\ plan' = [plan EXCEPT ![p] = "none"]
    /\ \/ /\ plan[p] = "before"
          /\ pc' = [pc EXCEPT ![p] = "create"]
          /\ UNCHANGED try
       \/ plan[p] = "after" /\ TryAgain(p)
       \/ /\ plan[p] = "last"
          /\ pc' = [pc EXCEPT ![p] = "loaded"]
          /\ UNCHANGED try
    /\ UNCHANGED <<pins, handles, refCount, irp, files, calls, alone,
                   used, raced, held, disturbed>>

-----------------------------------------------------------------------------
(* DeinitializeOls: the count is asked, the handle closed, and the driver  *)
(* removed if the count was one.                                           *)

(* IOCTL_OLS_GET_REFCOUNT answers what the count is at that moment, zero   *)
(* without a device.                                                       *)
GetRefCount(p) == IF p \in handles THEN refCount ELSE 0

(* What the count should be of, beside the client's own handle, and those  *)
(* of them that will count in turn: a tool never does, and a client that   *)
(* has counted already does not count again.                               *)
Others(p) == {q \in handles \ {p} : pc[q] # "opening"}

CountsLater(q) == q \in Client /\ pc[q] \in {"opening", "ready"}

(* A history step: whom the client must not take the driver from, and      *)
(* whether it leaves it to others none of whom will remove it.             *)
Counting(p) ==
    /\ held' = [held EXCEPT ![p] = IF pc[p] = "ready" THEN Others(p) ELSE {}]
    /\ Disturb(/\ pc[p] = "ready" /\ Others(p) # {}
               /\ \A q \in handles \ {p} : ~ CountsLater(q))

(* Mutant: the client does not count its own handle.                       *)
DeinitializeZeroMutant(p) ==
    /\ p \in Client
    /\ \/ /\ pc[p] = "ready"
          /\ plan' = [plan EXCEPT ![p] =
                        IF GetRefCount(p) = 0 THEN "last" ELSE "none"]
          /\ pc' = [pc EXCEPT ![p] = "counted"]
       \/ /\ pc[p] = "failed"
          /\ pc' = [pc EXCEPT ![p] = "loaded"]
          /\ UNCHANGED plan
    /\ Counting(p)
    /\ UNCHANGED <<scm, refCount, irp, files, try, calls, alone, used,
                   raced>>

(* Mutant: every client removes the driver.                                *)
DeinitializeAlwaysMutant(p) ==
    /\ p \in Client
    /\ \/ /\ pc[p] = "ready"
          /\ plan' = [plan EXCEPT ![p] = "last"]
          /\ pc' = [pc EXCEPT ![p] = "counted"]
       \/ /\ pc[p] = "failed"
          /\ pc' = [pc EXCEPT ![p] = "loaded"]
          /\ UNCHANGED plan
    /\ Counting(p)
    /\ UNCHANGED <<scm, refCount, irp, files, try, calls, alone, used,
                   raced>>

DeinitializeOls(p) ==
    /\ p \in Client
    /\ \/ /\ pc[p] = "ready"
          /\ plan' = [plan EXCEPT ![p] =
                        IF GetRefCount(p) = 1 THEN "last" ELSE "none"]
          /\ pc' = [pc EXCEPT ![p] = "counted"]
       \/ /\ pc[p] = "failed"
          /\ pc' = [pc EXCEPT ![p] = "loaded"]
          /\ UNCHANGED plan
    /\ Counting(p)
    /\ UNCHANGED <<scm, refCount, irp, files, try, calls, alone, used,
                   raced>>

CloseDevice(p) ==
    /\ pc[p] = "counted"
    /\ DispatchBegin(p)
    /\ pc' = [pc EXCEPT ![p] = "closing"]
    /\ UNCHANGED <<scm, refCount, files, try, plan, calls,
                   alone, used, held, disturbed>>

(* The close request is completed; a stop that waited for it takes effect. *)
Closed(p) ==
    /\ pc[p] = "closing"
    /\ DispatchEnd(p, -1)
    /\ handles' = handles \ {p}
    /\ Settle(marked, handles', pins)
    /\ pc' = [pc EXCEPT ![p] = IF p \in Tool THEN "absent"
                               ELSE IF plan[p] = "last" THEN "query"
                               ELSE "loaded"]
    /\ LetGo(p)
    /\ UNCHANGED <<pins, files, try, plan, calls, alone, used, raced,
                   disturbed>>

-----------------------------------------------------------------------------
(* The steps a process takes without being asked.                          *)
Step(p) ==
    \/ Initialize(p) \/ Opened(p) \/ InstallDriver(p) \/ StartDriver(p)
    \/ Reopen(p) \/ IsSystemInstallDriver(p) \/ StopDriver(p)
    \/ RemoveDriver(p) \/ CloseDevice(p) \/ Closed(p)

Next ==
    \E p \in Process :
        \/ Load(p) \/ Unload(p) \/ InitializeOls(p) \/ DeinitializeOls(p)
        \/ ToolOpen(p) \/ ToolClose(p)
        \/ p \in Client /\ Kill(p)
        \/ Step(p)

Spec == Init /\ [][Next]_vars

FairSpec == Spec /\ \A p \in Process : WF_vars(Step(p))

-----------------------------------------------------------------------------
TypeOK ==
    /\ svc \in {"absent", "stopped", "running", "stopping"}
    /\ marked \in BOOLEAN
    /\ pins \subseteq Client
    /\ handles \subseteq Process
    /\ refCount \in 0..(Wrap - 1)
    /\ irp \in [Process -> {None} \cup 0..(Wrap - 1)]
    /\ driverFile \in {"missing", "blocked", "fine"}
    /\ library \in {"whole", "partial"}
    /\ pc \in [Process -> PcValues]
    /\ try \in [Client -> 0..Tries]
    /\ plan \in [Client -> Plans]
    /\ calls \in 0..MaxCalls
    /\ alone \subseteq Client
    /\ used \subseteq Client
    /\ raced \in BOOLEAN
    /\ held \in [Client -> SUBSET Process]
    /\ disturbed \in BOOLEAN

(* As long as no two create or close requests overlapped since the driver  *)
(* was loaded, its count is the number of completed opens; every decision  *)
(* of DeinitializeOls rests on that.                                       *)
CountIsHandles ==
    Loaded /\ ~ raced =>
        refCount = Cardinality({p \in handles : pc[p] # "opening"})

(* When the last process has gone, neither driver nor service is left,     *)
(* however the calls of the clients overlapped.  Excused is only a driver  *)
(* that was                                                                *)
(*   - there before the first process;                                     *)
(*   - in the hands of a client that was killed in a call or with the      *)
(*     device open;                                                        *)
(*   - not removed by a client that counted others, each of them a tool or *)
(*     a client that had counted already;                                  *)
(*   - given up, running, by a client whose last attempt could not open it;*)
(*   - counted wrong since two requests overlapped.                        *)
QuietMeansGone ==
    (\A p \in Process : pc[p] = "absent") /\ ~ disturbed /\ ~ raced
        => svc = "absent"

(* A client that calls the library while no other process runs leaves      *)
(* nothing behind either, however disturbed the history before it: a       *)
(* driver or a service left by a killed client or by two that each saw the *)
(* other's handle is gone after the next one, even if the open fails while *)
(* the driver runs, at each attempt anew.  The driver's count must not     *)
(* have lost an update, and the driver file must be there.                 *)
LoneClientCleansUp ==
    [][\A p \in Client :
          /\ Unload(p)
          /\ p \in alone \cap used
          /\ FileInPlace
          /\ ~ raced
          => svc' = "absent"]_vars

(* A removal by DeinitializeOls never takes the driver away from a process *)
(* whose open was complete when the client counted, and that has had the   *)
(* device open ever since: excused are only the processes that came after  *)
(* the count, and a count that has lost an update.                         *)
LastMeansLast ==
    [][\A p \in Client :
          StopDriver(p) /\ plan[p] = "last" /\ ~ raced => held[p] = {}]_vars

(* Every call of InitializeOls returns, in spite of the attempts of others.*)
InitializeReturns ==
    \A p \in Client :
        (pc[p] = "open") ~> (pc[p] \in {"ready", "failed", "absent"})
=============================================================================
