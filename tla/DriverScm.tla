------------------------------ MODULE DriverScm ------------------------------
(***************************************************************************)
(* The part of Windows the tools drive through sc.exe, the file system and *)
(* device handles: the service control manager, the kernel's deferred      *)
(* unload and the two driver files in System32\drivers.  It is not code of *)
(* the repository; it is modelled from how the tools use it and from the   *)
(* outcomes their comments name (1056 already running, 1072 marked for     *)
(* deletion, files that are in use).                                       *)
(***************************************************************************)
EXTENDS FiniteSets

CONSTANT Proc          \* every process of the tools that may hold a handle

VARIABLES
    svc,               \* state of each driver's service
    marked,            \* services marked for deletion
    files,             \* driver files that are present and intact
    handles            \* drivers each process holds an open device handle of

scmVars == <<svc, marked, files, handles>>

Drv == {"ThrottleStop", "WinRing0"}

SvcState == {"absent", "stopped", "running", "stopping"}

Loaded(d) == svc[d] \in {"running", "stopping"}

HeldBy(d, P) == \E p \in P : d \in handles[p]

-----------------------------------------------------------------------------
(* What a service becomes once nothing keeps its driver in the kernel.     *)
Unloaded(d) == IF d \in marked THEN "absent" ELSE "stopped"

(* sc create: an existing service, marked or not, is left as it is.        *)
ScCreate(d) ==
    /\ svc' = [svc EXCEPT ![d] = IF @ = "absent" THEN "stopped" ELSE @]
    /\ UNCHANGED marked

(* sc start succeeds only on a stopped service whose file is there.        *)
Startable(d) == svc[d] = "stopped" /\ d \notin marked /\ d \in files

ScStart(d) ==
    /\ Startable(d)
    /\ svc' = [svc EXCEPT ![d] = "running"]
    /\ UNCHANGED marked

(* sc stop: the driver leaves the kernel at once, or, while a handle is    *)
(* open, only when the last one closes.                                    *)
ScStop(d) ==
    IF svc[d] # "running"
    THEN UNCHANGED <<svc, marked>>
    ELSE IF HeldBy(d, Proc)
    THEN svc' = [svc EXCEPT ![d] = "stopping"] /\ UNCHANGED marked
    ELSE svc' = [svc EXCEPT ![d] = Unloaded(d)] /\ marked' = marked \ {d}

(* sc delete: immediate on a stopped service, deferred on a loaded one.    *)
ScDelete(d) ==
    IF Loaded(d)
    THEN marked' = marked \cup {d} /\ UNCHANGED svc
    ELSE svc' = [svc EXCEPT ![d] = "absent"] /\ UNCHANGED marked

(* Process p closes all its handles; a driver whose stop was pending on    *)
(* them is unloaded.                                                       *)
CloseHandles(p) ==
    LET freed == {d \in handles[p] : svc[d] = "stopping"
                                       /\ ~ HeldBy(d, Proc \ {p})}
    IN /\ handles' = [handles EXCEPT ![p] = {}]
       /\ svc' = [d \in Drv |-> IF d \in freed THEN Unloaded(d) ELSE svc[d]]
       /\ marked' = marked \ freed

(* A device opens only while its driver runs and no stop is pending.       *)
OpenHandle(p, d) ==
    /\ svc[d] = "running"
    /\ handles' = [handles EXCEPT ![p] = @ \cup {d}]

WriteFile(d) == files' = files \cup {d}

(* The image of a loaded driver may or may not be deletable.               *)
RemoveFile(d) ==
    \/ files' = files \ {d}
    \/ Loaded(d) /\ UNCHANGED files

(* Antivirus software quarantines a file that is not loaded.               *)
AvRemovesFile(d) ==
    /\ d \in files
    /\ ~ Loaded(d)
    /\ files' = files \ {d}
    /\ UNCHANGED <<svc, marked, handles>>

-----------------------------------------------------------------------------
ScmTypeOK ==
    /\ svc \in [Drv -> SvcState]
    /\ marked \subseteq Drv
    /\ files \subseteq Drv
    /\ handles \in [Proc -> SUBSET Drv]

(* What the kernel guarantees: an open handle pins its driver, a pending   *)
(* stop has a handle it waits for, only loaded drivers stay marked.        *)
ScmConsistent ==
    /\ \A p \in Proc : \A d \in handles[p] : Loaded(d)
    /\ \A d \in Drv : svc[d] = "stopping" => HeldBy(d, Proc)
    /\ \A d \in marked : Loaded(d)

ScmInit ==
    /\ marked = {}
    /\ files \in SUBSET Drv
    /\ handles = [p \in Proc |-> {}]
=============================================================================
