---------------------------- MODULE WinRing_proofs -----------------------------
(***************************************************************************)
(* The count of the WinRing0 driver, for any number of clients, tools,     *)
(* attempts and calls: as long as no two requests overlapped since the     *)
(* driver was loaded, it is the number of completed opens.  And what the   *)
(* last process leaves behind: nothing, unless the driver was left to a    *)
(* process that does not remove it; and nothing if it called the library   *)
(* with nobody beside it.  And how many steps a call takes at most,        *)
(* whatever others do.                                                     *)
(***************************************************************************)
EXTENDS WinRing, FiniteSetTheorems, TLAPS

Holding == {"opening", "ready", "counted", "closing"}

ToolPc == {"absent", "opening", "ready", "closing"}

Completed == {p \in handles : pc[p] # "opening"}

(* A process has the device open from the begin of the create to the end   *)
(* of the close, and only in between is a request of it in progress.       *)
Follows ==
    /\ \A p \in Tool : pc[p] \in ToolPc
    /\ \A p \in Process : p \in handles <=> pc[p] \in Holding
    /\ \A p \in Process : Busy(p) <=> pc[p] \in {"opening", "closing"}
    /\ handles # {} => Loaded
    /\ svc = "stopping" => handles # {}

(* A request in progress is the only one, and has read the present count.  *)
Counts ==
    Loaded /\ ~ raced =>
        /\ refCount = Cardinality(Completed)
        /\ \A p \in Process : Busy(p) => irp[p] = refCount
        /\ \A p, q \in Process : Busy(p) /\ Busy(q) => p = q

RingInv == TypeOK /\ Follows /\ Counts

-----------------------------------------------------------------------------
(* Sets of processes.                                                      *)

LEMMA ProcessesAreFinite ==
    ASSUME NEW S \in SUBSET Process
    PROVE  /\ IsFiniteSet(S) /\ Cardinality(S) \in Nat
           /\ Cardinality(S) < Wrap - 1
<1>1. IsFiniteSet(Process)
  BY WinRingAssumption, FS_Union DEF Process
<1>2. IsFiniteSet(S) /\ Cardinality(S) <= Cardinality(Process)
  BY <1>1, FS_Subset
<1>3. Cardinality(S) \in Nat /\ Cardinality(Process) \in Nat
  BY <1>1, <1>2, FS_CardinalityType
<1>4. Wrap \in Nat /\ Wrap > Cardinality(Process) + 1
  BY WinRingAssumption DEF Process
<1> QED BY <1>2, <1>3, <1>4

LEMMA OneMore ==
    ASSUME NEW S \in SUBSET Process, NEW p \in Process, p \notin S
    PROVE  /\ Counted(Cardinality(S), 1) = Cardinality(S \cup {p})
           /\ Counted(Cardinality(S \cup {p}), -1) = Cardinality(S)
<1>1. S \cup {p} \in SUBSET Process
  OBVIOUS
<1>2. /\ IsFiniteSet(S) /\ Cardinality(S) \in Nat
      /\ Cardinality(S \cup {p}) < Wrap - 1
  BY <1>1, ProcessesAreFinite
<1>3. Cardinality(S \cup {p}) = Cardinality(S) + 1
  BY <1>2, FS_AddElement
<1>4. Wrap \in Nat
  BY WinRingAssumption
<1> DEFINE c == Cardinality(S)
<1>5. c \in Nat /\ c + 1 < Wrap - 1
  BY <1>2, <1>3
<1>6. c # Wrap - 1 /\ (c + 1) # Wrap - 1
  BY <1>4, <1>5
<1>7. (c + 1) % Wrap = c + 1 /\ ((c + 1) + (-1)) % Wrap = c
  BY <1>4, <1>5
<1> HIDE DEF c
<1>8. Counted(c, 1) = c + 1 /\ Counted(c + 1, -1) = c
  BY <1>4, <1>5, <1>6, <1>7 DEF Counted, Frozen
<1> QED BY <1>3, <1>8 DEF c

LEMMA CountStaysInWidth ==
    ASSUME TypeOK, NEW r \in 0 .. Wrap - 1, NEW step \in {1, -1}
    PROVE  Counted(r, step) \in 0 .. Wrap - 1
<1>1. Wrap \in Nat \ {0}
  <2>1. {} \in SUBSET Process
    OBVIOUS
  <2>2. Wrap \in Nat /\ 0 < Wrap - 1
    BY <2>1, ProcessesAreFinite, WinRingAssumption
  <2> QED BY <2>2
<1>2. r + step \in Int
  OBVIOUS
<1>3. (r + step) % Wrap \in 0 .. Wrap - 1
  BY <1>1, <1>2
<1>4. refCount \in 0 .. Wrap - 1
  BY DEF TypeOK
<1> QED BY <1>3, <1>4 DEF Counted

-----------------------------------------------------------------------------
(* Four kinds of steps.                                                    *)

LEMMA Settling ==
    ASSUME TypeOK, NEW m \in BOOLEAN, NEW H, NEW P, Settle(m, H, P)
    PROVE  /\ svc' \in {"absent", "stopped", "running", "stopping"}
           /\ marked' \in BOOLEAN
           /\ Loaded' => Loaded
           /\ Loaded /\ H # {} => Loaded'
           /\ svc' = "stopping" => H # {}
<1>1. svc' \in {svc, "absent", "stopped"}
  BY DEF Settle, Settled
<1>2. svc \in {"absent", "stopped", "running", "stopping"}
  BY DEF TypeOK
<1>3. marked' \in BOOLEAN
  BY DEF Settle
<1>4. Loaded /\ H # {} => svc' = svc
  BY <1>2 DEF Settle, Loaded
<1>5. svc' = "stopping" => H # {}
  BY <1>2 DEF Settle, Settled
<1> QED BY <1>1, <1>2, <1>3, <1>4, <1>5 DEF Loaded

(* A process goes on without a request; the driver is not loaded.          *)
LEMMA NoRequest ==
    ASSUME RingInv, TypeOK', NEW p \in Process, NEW v,
           pc' = [pc EXCEPT ![p] = v],
           p \in Tool => v \in ToolPc,
           pc[p] \in Holding <=> v \in Holding,
           {pc[p], v} \cap {"opening", "closing"} = {},
           UNCHANGED <<handles, refCount, irp, raced>>,
           Loaded' => Loaded, Loaded /\ handles # {} => Loaded',
           svc' = "stopping" => handles # {}
    PROVE  RingInv'
<1>1. pc \in [Process -> PcValues] /\ handles \subseteq Process
  BY DEF RingInv, TypeOK
<1>2. Follows'
  BY <1>1 DEF RingInv, Follows, Busy, Process
<1>3. Completed' = Completed
  BY <1>1 DEF Completed
<1>4. Counts'
  BY <1>3 DEF RingInv, Counts, Busy
<1> QED BY <1>2, <1>4 DEF RingInv

(* A request begins: a create, or a close by a process that has it open.   *)
LEMMA RequestBegins ==
    ASSUME RingInv, TypeOK', NEW p \in Process, NEW v,
           DispatchBegin(p), pc' = [pc EXCEPT ![p] = v],
           \/ /\ pc[p] \notin Holding /\ v = "opening"
              /\ handles' = handles \cup {p}
           \/ /\ pc[p] \in {"ready", "counted"} /\ v = "closing"
              /\ handles' = handles,
           Loaded, UNCHANGED <<svc, refCount>>
    PROVE  RingInv'
<1>1. /\ pc \in [Process -> PcValues] /\ handles \subseteq Process
      /\ irp \in [Process -> {None} \cup 0 .. Wrap - 1]
      /\ refCount \in 0 .. Wrap - 1 /\ raced \in BOOLEAN
  BY DEF RingInv, TypeOK
<1>2. irp' = [irp EXCEPT ![p] = refCount]
  BY DEF DispatchBegin
<1>3. \A q \in Process : Busy(q)' <=> (q = p \/ Busy(q))
  BY <1>1, <1>2 DEF Busy, None
<1>4. Follows'
  <2>1. v \in Holding /\ v \in ToolPc /\ v \in {"opening", "closing"}
    BY DEF Holding, ToolPc
  <2>2. \A q \in Tool : pc'[q] \in ToolPc
    BY <1>1, <2>1 DEF RingInv, Follows, Process
  <2>3. \A q \in Process : q \in handles' <=> pc'[q] \in Holding
    BY <1>1, <2>1 DEF RingInv, Follows, Holding
  <2>4. \A q \in Process : Busy(q)' <=> pc'[q] \in {"opening", "closing"}
    BY <1>1, <1>3, <2>1 DEF RingInv, Follows
  <2>5. Loaded' /\ handles' # {}
    <3>1. p \in handles'
      BY <1>1, <2>1, <2>3
    <3> QED BY <3>1 DEF Loaded
  <2> QED BY <2>2, <2>3, <2>4, <2>5 DEF Follows
<1>5. Completed' = Completed
  BY <1>1 DEF Completed, RingInv, Follows, Holding
<1>6. SUFFICES ASSUME Loaded', ~ raced' PROVE Counts'
  BY <1>4 DEF RingInv, Counts
<1>7. ~ raced /\ \A q \in Process \ {p} : ~ Busy(q)
  BY <1>6 DEF DispatchBegin
<1>8. refCount = Cardinality(Completed)
  BY <1>7 DEF RingInv, Counts
<1>9. \A q \in Process : Busy(q)' => q = p
  BY <1>3, <1>7
<1>10. irp'[p] = refCount
  BY <1>1, <1>2
<1> QED BY <1>5, <1>8, <1>9, <1>10 DEF Counts

(* A request ends.                                                         *)
LEMMA RequestEnds ==
    ASSUME RingInv, TypeOK', NEW p \in Process, NEW v, NEW step,
           DispatchEnd(p, step), pc' = [pc EXCEPT ![p] = v],
           p \in Tool => v \in ToolPc,
           \/ /\ pc[p] = "opening" /\ v = "ready" /\ step = 1
              /\ handles' = handles
           \/ /\ pc[p] = "closing" /\ v \notin Holding /\ step = -1
              /\ handles' = handles \ {p},
           Loaded' => Loaded, Loaded /\ handles' # {} => Loaded',
           svc' = "stopping" => handles' # {},
           UNCHANGED raced
    PROVE  RingInv'
<1>1. /\ pc \in [Process -> PcValues] /\ handles \subseteq Process
      /\ irp \in [Process -> {None} \cup 0 .. Wrap - 1]
  BY DEF RingInv, TypeOK
<1>2. irp' = [irp EXCEPT ![p] = None] /\ refCount' = Counted(irp[p], step)
  BY DEF DispatchEnd
<1>3. \A q \in Process : Busy(q)' <=> (q # p /\ Busy(q))
  BY <1>1, <1>2 DEF Busy
<1>4. v \notin {"opening", "closing"} /\ Busy(p)
  BY DEF Holding, RingInv, Follows
<1>5. Follows'
  <2>1. \A q \in Tool : pc'[q] \in ToolPc
    BY <1>1 DEF RingInv, Follows, Process
  <2>2. \A q \in Process : q \in handles' <=> pc'[q] \in Holding
    BY <1>1 DEF RingInv, Follows, Holding
  <2>3. \A q \in Process : Busy(q)' <=> pc'[q] \in {"opening", "closing"}
    BY <1>1, <1>3, <1>4 DEF RingInv, Follows
  <2>4. handles' # {} => Loaded'
    BY DEF RingInv, Follows
  <2> QED BY <2>1, <2>2, <2>3, <2>4 DEF Follows
<1>6. SUFFICES ASSUME Loaded', ~ raced' PROVE Counts'
  BY <1>5 DEF RingInv, Counts
<1>7. /\ refCount = Cardinality(Completed) /\ irp[p] = refCount
      /\ \A q \in Process : Busy(q) => q = p
  BY <1>4, <1>6 DEF RingInv, Counts
<1>8. refCount' = Cardinality(Completed')
  <2>1. CASE pc[p] = "opening"
    <3>1. Completed' = Completed \cup {p} /\ p \notin Completed /\ step = 1
      BY <1>1, <2>1 DEF Completed, RingInv, Follows, Holding
    <3>2. Completed \in SUBSET Process
      BY <1>1 DEF Completed
    <3> QED BY <1>2, <1>7, <3>1, <3>2, OneMore
  <2>2. CASE pc[p] = "closing"
    <3>1. /\ Completed = Completed' \cup {p} /\ p \notin Completed'
          /\ step = -1 /\ Completed' \in SUBSET Process
      BY <1>1, <2>2 DEF Completed, RingInv, Follows, Holding
    <3> DEFINE S == Completed'
    <3>2. S \in SUBSET Process /\ p \notin S /\ Completed = S \cup {p}
      BY <3>1
    <3> HIDE DEF S
    <3>3. Counted(Cardinality(S \cup {p}), -1) = Cardinality(S)
      BY <3>2, OneMore
    <3> QED BY <1>2, <1>7, <3>1, <3>2, <3>3 DEF S
  <2> QED BY <2>1, <2>2
<1>9. \A q \in Process : ~ Busy(q)'
  BY <1>3, <1>7
<1> QED BY <1>8, <1>9 DEF Counts

-----------------------------------------------------------------------------
(* Typing.                                                                 *)

LEMMA RingTypes ==
    ASSUME TypeOK, Follows, NEW p \in Process,
           \/ Load(p) \/ Unload(p) \/ InitializeOls(p) \/ DeinitializeOls(p)
           \/ ToolOpen(p) \/ ToolClose(p)
           \/ p \in Client /\ Kill(p)
           \/ Step(p)
    PROVE  TypeOK'
<1> USE DEF PcValues, ManagerPc, Plans, files
<1>1. \A m \in BOOLEAN : \A H, P : Settle(m, H, P) =>
        /\ svc' \in {"absent", "stopped", "running", "stopping"}
        /\ marked' \in BOOLEAN
  BY Settling
<1>2. DispatchBegin(p) =>
        /\ irp' \in [Process -> {None} \cup 0 .. Wrap - 1]
        /\ raced' \in BOOLEAN
  BY DEF TypeOK, DispatchBegin
<1>3. \A step \in {1, -1} : DispatchEnd(p, step) /\ Busy(p) =>
        /\ irp' \in [Process -> {None} \cup 0 .. Wrap - 1]
        /\ refCount' \in 0 .. Wrap - 1
  BY CountStaysInWidth DEF TypeOK, DispatchEnd, Busy
<1>4. /\ \A left : Disturb(left) => disturbed' \in BOOLEAN
      /\ Counting(p) => disturbed' \in BOOLEAN
      /\ Counting(p) \/ LetGo(p) => held' \in [Client -> SUBSET Process]
  <2>1. \A left : Disturb(left) => disturbed' \in BOOLEAN
    BY DEF Disturb
  <2>2. Counting(p) => disturbed' \in BOOLEAN
    BY <2>1 DEF Counting
  <2>3. Others(p) \in SUBSET Process
    BY DEF Others, TypeOK
  <2>4. Counting(p) => held' \in [Client -> SUBSET Process]
    BY <2>3 DEF Counting, TypeOK
  <2>5. LetGo(p) => held' \in [Client -> SUBSET Process]
    BY DEF LetGo, TypeOK
  <2> QED BY <2>1, <2>2, <2>4, <2>5
<1>5. OpenDevice(p) =>
        /\ irp' \in [Process -> {None} \cup 0 .. Wrap - 1]
        /\ raced' \in BOOLEAN /\ handles' \subseteq Process
  BY <1>2 DEF TypeOK, OpenDevice
<1>6. TryAgain(p) /\ p \in Client =>
        /\ pc' \in [Process -> PcValues] /\ try' \in [Client -> 0 .. Tries]
  BY WinRingAssumption DEF TypeOK, TryAgain
<1>7. pc[p] \notin ToolPc => p \in Client
  BY DEF Follows, Process
<1>8. CASE Load(p)
  BY <1>8 DEF Load, TypeOK, scm
<1>9. CASE Unload(p)
  <2>1. /\ pc' \in [Process -> PcValues] /\ pins' \subseteq Client
        /\ alone' \subseteq Client /\ used' \subseteq Client
    BY <1>9 DEF Unload, TypeOK
  <2>2. disturbed' \in BOOLEAN
    BY <1>9 DEF Unload, TypeOK
  <2>3. Settle(marked, handles, pins') /\ marked \in BOOLEAN
    BY <1>9 DEF Unload, TypeOK
  <2> QED BY <1>1, <1>9, <2>1, <2>2, <2>3 DEF Unload, TypeOK
<1>10. CASE InitializeOls(p)
  BY <1>4, <1>10, WinRingAssumption DEF InitializeOls, TypeOK, scm
<1>11. CASE DeinitializeOls(p)
  <2>1. disturbed' \in BOOLEAN /\ held' \in [Client -> SUBSET Process]
    BY <1>4, <1>11 DEF DeinitializeOls
  <2> QED BY <1>11, <2>1 DEF DeinitializeOls, TypeOK, scm
<1>12. CASE ToolOpen(p)
  BY <1>4, <1>5, <1>12 DEF ToolOpen, TypeOK
<1>13. CASE ToolClose(p)
  BY <1>2, <1>4, <1>13 DEF ToolClose, TypeOK, scm
<1>14. CASE p \in Client /\ Kill(p)
  <2>1. refCount' \in 0 .. Wrap - 1
    BY <1>14, CountStaysInWidth DEF Kill, TypeOK
  <2>2. Settle(marked, handles', pins') /\ marked \in BOOLEAN
    BY <1>14 DEF Kill, TypeOK
  <2>3. disturbed' \in BOOLEAN /\ held' \in [Client -> SUBSET Process]
    BY <1>4, <1>14 DEF Kill
  <2>4. /\ svc' \in {"absent", "stopped", "running", "stopping"}
        /\ marked' \in BOOLEAN
    BY <1>1, <2>2
  <2>5. /\ pc' \in [Process -> PcValues] /\ try' \in [Client -> 0 .. Tries]
        /\ plan' \in [Client -> Plans]
    BY <1>14, WinRingAssumption DEF Kill, TypeOK
  <2>6. /\ pins' \subseteq Client /\ handles' \subseteq Process
        /\ alone' \subseteq Client /\ used' \subseteq Client
    BY <1>14 DEF Kill, TypeOK
  <2> QED BY <1>14, <2>1, <2>3, <2>4, <2>5, <2>6 DEF Kill, TypeOK
<1>15. CASE Step(p)
  <2>1. CASE Initialize(p)
    BY <1>4, <1>5, <1>6, <1>7, <2>1 DEF Initialize, TypeOK, ToolPc
  <2>2. CASE Opened(p)
    <3>1. Busy(p)
      BY <2>2 DEF Opened, Follows
    <3>2. /\ irp' \in [Process -> {None} \cup 0 .. Wrap - 1]
          /\ refCount' \in 0 .. Wrap - 1
      BY <1>3, <2>2, <3>1 DEF Opened
    <3>3. 0 \in 0 .. Tries
      BY WinRingAssumption
    <3> QED BY <2>2, <3>2, <3>3 DEF Opened, TypeOK, scm
  <2>3. CASE InstallDriver(p)
    BY <1>4, <2>3 DEF InstallDriver, TypeOK
  <2>4. CASE StartDriver(p)
    <3>1. raced' \in BOOLEAN
      BY <2>4 DEF StartDriver
    <3>2. 0 \in 0 .. Wrap - 1
      <4>1. Wrap \in Nat /\ refCount \in 0 .. Wrap - 1
        BY WinRingAssumption DEF TypeOK
      <4> QED BY <4>1
    <3> QED BY <1>4, <2>4, <3>1, <3>2 DEF StartDriver, TypeOK
  <2>5. CASE Reopen(p)
    BY <1>4, <1>5, <1>6, <1>7, <2>5 DEF Reopen, TypeOK, ToolPc
  <2>6. CASE IsSystemInstallDriver(p)
    BY <1>4, <1>7, <2>6 DEF IsSystemInstallDriver, TypeOK, ToolPc
  <2>7. CASE StopDriver(p)
    <3>1. marked' \in BOOLEAN
      BY <2>7 DEF StopDriver
    <3> QED BY <1>4, <2>7, <3>1 DEF StopDriver, Settled, TypeOK
  <2>8. CASE RemoveDriver(p)
    <3>1. /\ svc' \in {"absent", "stopped", "running", "stopping"}
          /\ marked' \in BOOLEAN
      BY <1>1, <2>8 DEF RemoveDriver, TypeOK
    <3>2. p \in Client
      BY <1>7, <2>8 DEF RemoveDriver, ToolPc
    <3>3. pc' \in [Process -> PcValues] /\ try' \in [Client -> 0 .. Tries]
      BY <1>6, <2>8, <3>2 DEF RemoveDriver, TypeOK
    <3> QED BY <1>4, <2>8, <3>1, <3>3 DEF RemoveDriver, TypeOK
  <2>9. CASE CloseDevice(p)
    BY <1>2, <1>4, <2>9 DEF CloseDevice, TypeOK, scm
  <2>10. CASE Closed(p)
    <3>1. Busy(p)
      BY <2>10 DEF Closed, Follows
    <3>2. Settle(marked, handles', pins) /\ marked \in BOOLEAN
      BY <2>10 DEF Closed, TypeOK
    <3>3. DispatchEnd(p, -1) /\ handles' \subseteq Process
      BY <2>10 DEF Closed, TypeOK
    <3> QED BY <1>1, <1>3, <1>4, <2>10, <3>1, <3>2, <3>3 DEF Closed, TypeOK
  <2> QED
    BY <1>15, <2>1, <2>2, <2>3, <2>4, <2>5, <2>6, <2>7, <2>8, <2>9, <2>10
       DEF Step
<1> QED
  BY <1>8, <1>9, <1>10, <1>11, <1>12, <1>13, <1>14, <1>15

-----------------------------------------------------------------------------
(* The invariant.                                                          *)

LEMMA RingInitial == Init => RingInv
<1> SUFFICES ASSUME Init PROVE RingInv
  OBVIOUS
<1>1. TypeOK
  <2>1. {} \in SUBSET Process
    OBVIOUS
  <2>2. Wrap \in Nat /\ 0 < Wrap - 1
    BY <2>1, ProcessesAreFinite, WinRingAssumption
  <2>3. disturbed \in BOOLEAN
    BY DEF Init
  <2>4. 0 \in 0 .. Wrap - 1 /\ 0 \in 0 .. Tries /\ 0 \in 0 .. MaxCalls
    BY <2>2, WinRingAssumption
  <2>5. "absent" \in PcValues /\ "none" \in Plans
    BY DEF PcValues, Plans
  <2> QED BY <2>3, <2>4, <2>5 DEF Init, TypeOK
<1>2. Follows
  BY DEF Init, Follows, Busy, Process, ToolPc, Holding
<1>3. Completed = {} /\ \A p \in Process : ~ Busy(p)
  BY DEF Init, Completed, Busy
<1>4. Counts
  BY <1>3, FS_EmptySet DEF Init, Counts
<1> QED BY <1>1, <1>2, <1>4 DEF RingInv

(* A killed client has no request in progress.                             *)
LEMMA KillKeeps ==
    ASSUME RingInv, TypeOK', NEW p \in Client, Kill(p) PROVE RingInv'
<1>1. /\ pc \in [Process -> PcValues] /\ handles \subseteq Process
      /\ marked \in BOOLEAN /\ p \in Process /\ p \notin Tool
  BY WinRingAssumption DEF RingInv, TypeOK, Process
<1>2. /\ \A q \in Process : ~ Busy(q) /\ ~ Busy(q)'
      /\ pc' = [pc EXCEPT ![p] = "absent"] /\ handles' = handles \ {p}
      /\ raced' = raced
  BY DEF Kill, Busy
<1>3. Loaded' => Loaded
  BY <1>1, Settling DEF Kill, RingInv
<1>4. /\ Loaded /\ handles' # {} => Loaded'
      /\ svc' = "stopping" => handles' # {}
  BY <1>1, Settling DEF Kill, RingInv
<1>5. Follows'
  BY <1>1, <1>2, <1>4 DEF RingInv, Follows, Holding, ToolPc, Process
<1>6. SUFFICES ASSUME Loaded', ~ raced' PROVE Counts'
  BY <1>5 DEF RingInv, Counts
<1>7. refCount = Cardinality(Completed)
  BY <1>2, <1>3, <1>6 DEF RingInv, Counts
<1>8. \A q \in Process : pc[q] # "opening"
  BY <1>2 DEF RingInv, Follows
<1>9. refCount' = Cardinality(Completed')
  <2>1. CASE p \in handles
    <3> DEFINE S == Completed'
    <3>1. S \in SUBSET Process /\ p \notin S /\ Completed = S \cup {p}
      BY <1>1, <1>2, <1>8, <2>1 DEF Completed
    <3>2. refCount' = Counted(refCount, -1)
      BY <2>1 DEF Kill
    <3> HIDE DEF S
    <3>3. Counted(Cardinality(S \cup {p}), -1) = Cardinality(S)
      BY <1>1, <3>1, OneMore
    <3> QED BY <1>7, <3>1, <3>2, <3>3 DEF S
  <2>2. CASE p \notin handles
    <3>1. Completed' = Completed
      BY <1>1, <1>2, <2>2 DEF Completed
    <3>2. refCount' = refCount
      BY <2>2 DEF Kill
    <3> QED BY <1>7, <3>1, <3>2
  <2> QED BY <2>1, <2>2
<1> QED BY <1>2, <1>9 DEF Counts

(* A driver that starts has no user yet.                                   *)
LEMMA StartKeeps ==
    ASSUME RingInv, TypeOK', NEW p \in Process, StartDriver(p) PROVE RingInv'
<1>1. PICK v \in {"reopen", "query"} : pc' = [pc EXCEPT ![p] = v]
  BY DEF StartDriver
<1>2. /\ pc[p] = "start" /\ UNCHANGED <<handles, irp>>
      /\ pc \in [Process -> PcValues]
      /\ svc \in {"absent", "stopped", "running", "stopping"}
  BY DEF StartDriver, RingInv, TypeOK
<1>3. p \notin Tool
  BY <1>2 DEF RingInv, Follows, ToolPc
<1>4. CASE svc' = svc
  <2>1. UNCHANGED <<refCount, raced>>
    <3>1. ~ (svc = "stopped" /\ ~ marked /\ driverFile = "fine")
      BY <1>4 DEF StartDriver
    <3>2. refCount' = refCount
      BY <3>1 DEF StartDriver
    <3>3. raced \in BOOLEAN
      BY DEF RingInv, TypeOK
    <3>4. raced' = raced
      BY <3>1, <3>3 DEF StartDriver
    <3> QED BY <3>2, <3>4
  <2>2. Loaded' <=> Loaded
    BY <1>4 DEF Loaded
  <2>3. /\ pc[p] \in Holding <=> v \in Holding
        /\ {pc[p], v} \cap {"opening", "closing"} = {}
    BY <1>1, <1>2 DEF Holding
  <2>4. svc' = "stopping" => handles # {}
    BY <1>4 DEF RingInv, Follows
  <2> QED BY <1>1, <1>2, <1>3, <2>1, <2>2, <2>3, <2>4, NoRequest
<1>5. CASE svc' # svc
  <2>1. svc = "stopped" /\ svc' = "running" /\ refCount' = 0
    BY <1>5 DEF StartDriver
  <2>2. handles = {}
    BY <2>1 DEF RingInv, Follows, Loaded
  <2>3. Follows'
    BY <1>1, <1>2, <1>3, <2>1, <2>2
       DEF RingInv, Follows, Busy, Process, Holding
  <2>4. \A q \in Process : ~ Busy(q)'
    BY <1>2, <2>2 DEF RingInv, Follows, Busy, Holding
  <2>5. Completed' = {}
    BY <1>2, <2>2 DEF Completed
  <2>6. Counts'
    BY <2>1, <2>4, <2>5, FS_EmptySet DEF Counts
  <2> QED BY <2>3, <2>6 DEF RingInv
<1> QED BY <1>4, <1>5

LEMMA RingStep == RingInv /\ [Next]_vars => RingInv'
<1> SUFFICES ASSUME RingInv, [Next]_vars PROVE RingInv'
  OBVIOUS
<1>1. CASE UNCHANGED vars
  BY <1>1 DEF vars, scm, hist, files, RingInv, TypeOK, Follows, Counts, Completed,
     Busy, Loaded
<1>2. ASSUME NEW p \in Process,
             \/ Load(p) \/ Unload(p) \/ InitializeOls(p) \/ DeinitializeOls(p)
             \/ ToolOpen(p) \/ ToolClose(p)
             \/ p \in Client /\ Kill(p)
             \/ Step(p)
      PROVE  RingInv'
  <2> USE DEF Holding, ToolPc
  <2>1. TypeOK'
    BY <1>2, RingTypes DEF RingInv
  <2>2. /\ Client \cap Tool = {} /\ marked \in BOOLEAN
        /\ pc[p] \notin ToolPc => p \notin Tool
        /\ svc = "stopping" => handles # {}
    BY WinRingAssumption DEF RingInv, Follows, TypeOK
  <2>3. CASE Load(p)
    BY <2>1, <2>2, <2>3, NoRequest DEF Load, scm, Loaded
  <2>4. CASE Unload(p)
    <3>1. /\ Settle(marked, handles, pins') /\ pc[p] = "loaded" /\ p \notin Tool
          /\ pc' = [pc EXCEPT ![p] = "absent"]
          /\ UNCHANGED <<handles, refCount, irp, raced>>
      BY <2>2, <2>4 DEF Unload
    <3>2. /\ Loaded' => Loaded
          /\ Loaded /\ handles # {} => Loaded'
          /\ svc' = "stopping" => handles' # {}
      BY <2>2, <3>1, Settling DEF RingInv
    <3> QED BY <2>1, <3>1, <3>2, NoRequest
  <2>5. CASE InitializeOls(p)
    BY <2>1, <2>2, <2>5, NoRequest DEF InitializeOls, scm, Loaded
  <2>6. CASE DeinitializeOls(p)
    <3>1. UNCHANGED <<scm, refCount, irp, raced>> /\ p \notin Tool
      BY <2>2, <2>6 DEF DeinitializeOls
    <3>2. PICK v \in {"counted", "loaded"} :
            /\ pc' = [pc EXCEPT ![p] = v]
            /\ <<pc[p], v>> \in {<<"ready", "counted">>, <<"failed", "loaded">>}
      BY <2>6 DEF DeinitializeOls
    <3> QED BY <2>1, <2>2, <3>1, <3>2, NoRequest DEF scm, Loaded
  <2>7. CASE ToolOpen(p)
    <3>1. /\ Loaded /\ svc = "running" /\ DispatchBegin(p)
          /\ handles' = handles \cup {p}
      BY <2>7 DEF ToolOpen, OpenDevice, Loaded
    <3> QED BY <2>1, <2>7, <3>1, RequestBegins DEF ToolOpen
  <2>8. CASE ToolClose(p)
    <3>1. Loaded /\ handles # {}
      BY <2>8 DEF ToolClose, RingInv, Follows
    <3> QED BY <2>1, <2>2, <2>8, <3>1, RequestBegins DEF ToolClose, scm
  <2>9. CASE p \in Client /\ Kill(p)
    BY <2>1, <2>9, KillKeeps
  <2>10. CASE Step(p)
    <3> DEFINE Opens == /\ OpenDevice(p) /\ pc' = [pc EXCEPT ![p] = "opening"]
                        /\ pc[p] \in {"open", "reopen"}
                        /\ UNCHANGED <<svc, refCount>>
    <3>1. ASSUME Opens PROVE RingInv'
      BY <2>1, <3>1, RequestBegins DEF OpenDevice, Loaded
    <3> HIDE DEF Opens
    <3>2. ASSUME TryAgain(p), UNCHANGED <<svc, handles, refCount, irp, raced>>,
                 pc[p] \in ManagerPc
          PROVE  RingInv'
      <4>1. PICK v \in {"open", "failed"} : pc' = [pc EXCEPT ![p] = v]
        BY <3>2 DEF TryAgain
      <4> QED BY <2>1, <2>2, <3>2, <4>1, NoRequest DEF ManagerPc, Loaded
    <3>3. CASE Initialize(p)
      <4>1. CASE Opens
        BY <3>1, <4>1
      <4>2. CASE TryAgain(p) /\ UNCHANGED <<handles, irp, raced>>
        BY <3>2, <3>3, <4>2 DEF Initialize, ManagerPc
      <4>3. CASE /\ pc' = [pc EXCEPT ![p] = "query"]
                 /\ UNCHANGED <<handles, irp, raced>>
        BY <2>1, <2>2, <3>3, <4>3, NoRequest DEF Initialize, Loaded
      <4> QED BY <3>3, <4>1, <4>2, <4>3 DEF Initialize, Opens
    <3>4. CASE Opened(p)
      <4>1. DispatchEnd(p, 1) /\ pc[p] = "opening"
            /\ pc' = [pc EXCEPT ![p] = "ready"] /\ UNCHANGED <<scm, raced>>
        BY <3>4 DEF Opened
      <4>2. handles' = handles /\ (Loaded' <=> Loaded)
            /\ (svc' = "stopping" => handles' # {})
        BY <2>2, <4>1 DEF scm, Loaded
      <4> QED BY <2>1, <4>1, <4>2, RequestEnds
    <3>5. CASE InstallDriver(p)
      <4>1. PICK v \in {"query", "start"} : pc' = [pc EXCEPT ![p] = v]
        BY <3>5 DEF InstallDriver
      <4>2. /\ pc[p] = "create" /\ UNCHANGED <<handles, refCount, irp, raced>>
            /\ (Loaded' <=> Loaded) /\ (svc' = "stopping" => handles # {})
        BY <2>2, <3>5 DEF InstallDriver, Loaded
      <4> QED BY <2>1, <2>2, <4>1, <4>2, NoRequest
    <3>6. CASE StartDriver(p)
      BY <2>1, <3>6, StartKeeps
    <3>7. CASE Reopen(p)
      <4>1. CASE Opens
        BY <3>1, <4>1
      <4>2. CASE TryAgain(p) /\ UNCHANGED <<handles, irp, raced>>
        BY <3>2, <3>7, <4>2 DEF Reopen, ManagerPc
      <4> QED BY <3>7, <4>1, <4>2 DEF Reopen, Opens
    <3>8. CASE IsSystemInstallDriver(p)
      BY <2>1, <2>2, <3>8, NoRequest DEF IsSystemInstallDriver, Loaded
    <3>9. CASE StopDriver(p)
      <4>1. /\ Loaded' => Loaded
            /\ Loaded /\ handles # {} => Loaded'
            /\ svc' = "stopping" => handles # {}
        BY <2>2, <3>9 DEF StopDriver, Loaded, Settled
      <4> QED BY <2>1, <2>2, <3>9, <4>1, NoRequest DEF StopDriver
    <3>10. CASE RemoveDriver(p)
      <4>1. PICK v \in {"create", "open", "failed", "loaded"} :
              pc' = [pc EXCEPT ![p] = v]
        BY <3>10 DEF RemoveDriver, TryAgain
      <4>2. /\ pc[p] = "delete" /\ UNCHANGED <<handles, refCount, irp, raced>>
        BY <3>10 DEF RemoveDriver
      <4>3. /\ Loaded' => Loaded
            /\ Loaded /\ handles # {} => Loaded'
            /\ svc' = "stopping" => handles # {}
        BY <2>2, <3>10, Settling DEF RemoveDriver, RingInv, Loaded
      <4> QED BY <2>1, <2>2, <4>1, <4>2, <4>3, NoRequest
    <3>11. CASE CloseDevice(p)
      <4>1. Loaded /\ handles # {}
        BY <3>11 DEF CloseDevice, RingInv, Follows
      <4> QED BY <2>1, <2>2, <3>11, <4>1, RequestBegins DEF CloseDevice, scm
    <3>12. CASE Closed(p)
      <4>1. /\ Settle(marked, handles', pins) /\ DispatchEnd(p, -1)
            /\ pc[p] = "closing" /\ handles' = handles \ {p}
            /\ UNCHANGED raced
        BY <3>12 DEF Closed
      <4>2. PICK v \in {"absent", "query", "loaded"} :
              /\ pc' = [pc EXCEPT ![p] = v]
              /\ p \in Tool => v = "absent"
        BY <3>12 DEF Closed
      <4>3. /\ Loaded' => Loaded
            /\ Loaded /\ handles' # {} => Loaded'
            /\ svc' = "stopping" => handles' # {}
        BY <2>2, <4>1, Settling DEF RingInv
      <4> QED BY <2>1, <4>1, <4>2, <4>3, RequestEnds
    <3> QED
      BY <2>10, <3>3, <3>4, <3>5, <3>6, <3>7, <3>8, <3>9, <3>10, <3>11, <3>12
         DEF Step
  <2> QED BY <1>2, <2>3, <2>4, <2>5, <2>6, <2>7, <2>8, <2>9, <2>10
<1> QED BY <1>1, <1>2 DEF Next

(* Typing, whatever the number of processes.                               *)
THEOREM RingTyping == Spec => []TypeOK
<1>1. RingInv => TypeOK
  BY DEF RingInv
<1> QED BY <1>1, RingInitial, RingStep, PTL DEF Spec

(* The driver's count is what DeinitializeOls takes it for, unless two     *)
(* requests overlapped (OpenLibSys.c, IRP_MJ_CREATE and IRP_MJ_CLOSE).     *)
THEOREM RingCount == Spec => []CountIsHandles
<1>1. RingInv => CountIsHandles
  BY DEF RingInv, Counts, Completed, CountIsHandles
<1> QED BY <1>1, RingInitial, RingStep, PTL DEF Spec

-----------------------------------------------------------------------------
(* The last user.                                                          *)

(* Whom a client must not take the driver from has it open still; a client *)
(* that took itself for the last one has counted nobody, or a count that   *)
(* had lost an update.                                                     *)
LastInv ==
    \A c \in Client :
        /\ held[c] \subseteq handles
        /\ plan[c] = "last" /\ held[c] # {} => raced = TRUE

LEMMA OnlyOne ==
    ASSUME NEW S \in SUBSET Process, NEW p \in S, Cardinality(S) = 1
    PROVE  S = {p}
<1> DEFINE T == S \ {p}
<1>1. T \in SUBSET Process /\ p \in Process /\ p \notin T /\ S = T \cup {p}
  OBVIOUS
<1> HIDE DEF T
<1>2. IsFiniteSet(T) /\ Cardinality(T) \in Nat
  BY <1>1, ProcessesAreFinite
<1>3. Cardinality(T \cup {p}) = Cardinality(T) + 1
  BY <1>1, <1>2, FS_AddElement
<1>4. Cardinality(T) = 0
  BY <1>1, <1>2, <1>3
<1>5. T = {}
  BY <1>2, <1>4, FS_EmptySet
<1> QED BY <1>1, <1>5

(* The decision of DeinitializeOls, as long as the count is right.         *)
LEMMA CountedLast ==
    ASSUME RingInv, NEW p \in Client, DeinitializeOls(p), pc[p] = "ready",
           raced = FALSE
    PROVE  plan'[p] = "last" <=> Others(p) = {}
<1>1. plan' = [plan EXCEPT ![p] =
                 IF GetRefCount(p) = 1 THEN "last" ELSE "none"]
  BY DEF DeinitializeOls
<1>2. plan'[p] = "last" <=> GetRefCount(p) = 1
  BY <1>1 DEF RingInv, TypeOK
<1>3. p \in handles /\ Loaded /\ handles \subseteq Process
  BY DEF RingInv, TypeOK, Follows, Holding, Process
<1>4. GetRefCount(p) = Cardinality(Completed)
  BY <1>3 DEF GetRefCount, RingInv, Counts
<1>5. /\ p \in Completed /\ Completed \in SUBSET Process
      /\ Others(p) = Completed \ {p}
  BY <1>3 DEF Completed, Others
<1>6. Cardinality(Completed) = 1 => Completed = {p}
  BY <1>5, OnlyOne
<1>7. Completed = {p} => Cardinality(Completed) = 1
  BY FS_Singleton
<1> QED BY <1>2, <1>4, <1>5, <1>6, <1>7

LEMMA LastInitial == Init => LastInv
BY DEF Init, LastInv

(* Steps that open the device or leave it alone.                           *)
LEMMA LastStays ==
    ASSUME TypeOK, LastInv, NEW p \in Client,
           held' = held, handles \subseteq handles', raced = TRUE => raced' = TRUE,
           \E v \in Plans \ {"last"} : plan' \in {plan, [plan EXCEPT ![p] = v]}
    PROVE  LastInv'
<1>1. PICK v \in Plans \ {"last"} : plan' \in {plan, [plan EXCEPT ![p] = v]}
  OBVIOUS
<1>2. plan \in [Client -> Plans]
  BY DEF TypeOK
<1>3. ASSUME NEW c \in Client PROVE plan'[c] = "last" => plan[c] = "last"
  BY <1>1, <1>2
<1> QED BY <1>3 DEF LastInv

(* Steps in which a process lets go of the device.                         *)
LEMMA LastLetsGo ==
    ASSUME TypeOK, LastInv, NEW p \in Process, LetGo(p),
           handles' = handles \ {p}, raced' = raced,
           \A c \in Client : plan'[c] = "last" => plan[c] = "last"
    PROVE  LastInv'
<1>1. \A c \in Client : held'[c] = held[c] \ {p}
  BY DEF LetGo
<1> QED BY <1>1 DEF LastInv

LEMMA LastStep == RingInv /\ LastInv /\ [Next]_vars => LastInv'
<1> SUFFICES ASSUME RingInv, LastInv, [Next]_vars PROVE LastInv'
  OBVIOUS
<1>1. CASE UNCHANGED vars
  BY <1>1 DEF vars, scm, hist, LastInv
<1>2. ASSUME NEW p \in Process,
             \/ Load(p) \/ Unload(p) \/ InitializeOls(p) \/ DeinitializeOls(p)
             \/ ToolOpen(p) \/ ToolClose(p)
             \/ p \in Client /\ Kill(p)
             \/ Step(p)
      PROVE  LastInv'
  <2>1. /\ TypeOK /\ Follows /\ plan \in [Client -> Plans] /\ raced \in BOOLEAN
        /\ pc[p] \notin ToolPc => p \in Client
    BY DEF RingInv, TypeOK, Follows, Process
  <2>2. DispatchBegin(p) => (raced = TRUE => raced' = TRUE)
    BY DEF DispatchBegin
  <2>3. /\ "none" \in Plans \ {"last"} /\ "before" \in Plans \ {"last"}
        /\ "after" \in Plans \ {"last"}
    BY DEF Plans
  <2>4. ASSUME held' = held, handles \subseteq handles', plan' = plan,
               raced = TRUE => raced' = TRUE
        PROVE  LastInv'
    BY <2>4 DEF LastInv
  <2>5. CASE Load(p) \/ Unload(p) \/ InitializeOls(p)
    BY <2>4, <2>5 DEF Load, Unload, InitializeOls, scm
  <2>6. CASE DeinitializeOls(p)
    <3>1. p \in Client /\ UNCHANGED <<handles, raced>> /\ Counting(p)
      BY <2>6 DEF DeinitializeOls, scm
    <3>2. held' = [held EXCEPT ![p] = IF pc[p] = "ready" THEN Others(p) ELSE {}]
      BY <3>1 DEF Counting
    <3>3. \A c \in Client \ {p} : held'[c] = held[c] /\ plan'[c] = plan[c]
      BY <2>1, <2>6, <3>2 DEF DeinitializeOls, TypeOK
    <3>4. held'[p] = IF pc[p] = "ready" THEN Others(p) ELSE {}
      BY <3>1, <3>2 DEF RingInv, TypeOK
    <3>5. held'[p] \subseteq handles'
      BY <3>1, <3>4 DEF Others
    <3>6. plan'[p] = "last" /\ held'[p] # {} => raced = TRUE
      BY <2>1, <2>6, <3>1, <3>4, CountedLast
    <3> QED BY <3>1, <3>3, <3>5, <3>6 DEF LastInv
  <2>7. CASE ToolOpen(p) \/ ToolClose(p)
    BY <2>2, <2>4, <2>7 DEF ToolOpen, ToolClose, OpenDevice, scm
  <2>8. CASE p \in Client /\ Kill(p)
    <3>1. \A c \in Client : plan'[c] = "last" => plan[c] = "last"
      BY <2>1, <2>8 DEF Kill
    <3> QED BY <2>1, <2>8, <3>1, LastLetsGo DEF Kill
  <2>9. CASE Initialize(p) \/ Reopen(p)
    <3>1. p \in Client
      BY <2>1, <2>9 DEF Initialize, Reopen, ToolPc
    <3>2. /\ held' = held /\ handles \subseteq handles'
          /\ raced = TRUE => raced' = TRUE
      BY <2>2, <2>9 DEF Initialize, Reopen, OpenDevice
    <3>3. plan' \in {plan, [plan EXCEPT ![p] = "before"]}
      BY <2>9 DEF Initialize, Reopen
    <3> QED BY <2>1, <2>3, <3>1, <3>2, <3>3, LastStays
  <2>10. CASE InstallDriver(p)
    <3>1. /\ p \in Client /\ UNCHANGED <<held, handles, raced>>
          /\ \/ plan' = [plan EXCEPT ![p] = "after"]
             \/ plan' = [plan EXCEPT ![p] = "none"]
      BY <2>1, <2>10 DEF InstallDriver, ToolPc
    <3> QED BY <2>1, <2>3, <3>1, LastStays
  <2>11. CASE StartDriver(p) /\ svc' = svc
    <3>1. /\ p \in Client /\ UNCHANGED <<held, handles>>
          /\ \/ plan' = [plan EXCEPT ![p] = "after"]
             \/ plan' = [plan EXCEPT ![p] = "none"]
      BY <2>1, <2>11 DEF StartDriver, ToolPc
    <3>2. ~ (svc = "stopped" /\ ~ marked /\ driverFile = "fine")
      BY <2>11 DEF StartDriver
    <3>3. raced = TRUE => raced' = TRUE
      BY <2>11, <3>2 DEF StartDriver
    <3> QED BY <2>1, <2>3, <3>1, <3>3, LastStays
  <2>12. CASE StartDriver(p) /\ svc' # svc
    <3>1. svc = "stopped" /\ UNCHANGED <<held, handles>>
      BY <2>12 DEF StartDriver
    <3>2. handles = {}
      BY <2>1, <3>1 DEF Follows, Loaded
    <3> QED BY <3>1, <3>2 DEF LastInv
  <2>13. CASE IsSystemInstallDriver(p) \/ StopDriver(p)
    BY <2>4, <2>13 DEF IsSystemInstallDriver, StopDriver
  <2>14. CASE RemoveDriver(p)
    <3>1. /\ p \in Client /\ UNCHANGED <<held, handles, raced>>
          /\ plan' = [plan EXCEPT ![p] = "none"]
      BY <2>1, <2>14 DEF RemoveDriver, ToolPc
    <3> QED BY <2>1, <2>3, <3>1, LastStays
  <2>15. CASE Opened(p) \/ CloseDevice(p)
    BY <2>2, <2>4, <2>15 DEF Opened, CloseDevice, scm
  <2>16. CASE Closed(p)
    BY <2>1, <2>16, LastLetsGo DEF Closed
  <2> QED
    BY <1>2, <2>5, <2>6, <2>7, <2>8, <2>9, <2>10, <2>11, <2>12, <2>13, <2>14,
       <2>15, <2>16 DEF Step
<1> QED BY <1>1, <1>2 DEF Next

(* A client that removes the driver as its last user (DeinitializeOls,     *)
(* OlsDll.cpp:99) takes it from no process whose open was complete when    *)
(* the client counted and that has not closed since, unless the count had  *)
(* lost an update; processes that came after the count are not protected.  *)
THEOREM RingLastMeansLast == Spec => LastMeansLast
<1>1. RingInv /\ LastInv =>
        \A p \in Client :
          StopDriver(p) /\ plan[p] = "last" /\ ~ raced => held[p] = {}
  BY DEF LastInv
<1> QED
  BY <1>1, RingInitial, RingStep, LastInitial, LastStep, PTL
     DEF Spec, LastMeansLast

-----------------------------------------------------------------------------
(* What is left behind.                                                    *)

(* Nothing, or a service that goes with the last leaked handle of it.      *)
Clear == \/ svc = "absent"
         \/ svc = "stopped" /\ marked /\ pins # {}

Down == svc \in {"absent", "stopped"}

(* A process that has ended has leaked nothing.                            *)
PinsInv == \A p \in Client : p \in pins => pc[p] # "absent"

LEMMA PinsInitial == Init => PinsInv
BY DEF Init, PinsInv

LEMMA PinsStep == TypeOK /\ PinsInv /\ [Next]_vars => PinsInv'
<1> SUFFICES ASSUME TypeOK, PinsInv, [Next]_vars, NEW c \in Client, c \in pins'
             PROVE  pc'[c] # "absent"
  BY DEF PinsInv
<1>1. CASE UNCHANGED vars
  BY <1>1 DEF vars, scm, PinsInv
<1>2. ASSUME NEW p \in Process,
             \/ Load(p) \/ Unload(p) \/ InitializeOls(p) \/ DeinitializeOls(p)
             \/ ToolOpen(p) \/ ToolClose(p)
             \/ p \in Client /\ Kill(p)
             \/ Step(p)
      PROVE  pc'[c] # "absent"
  <2>1. pc \in [Process -> PcValues] /\ c \in Process /\ c \notin Tool
    BY WinRingAssumption DEF TypeOK, Process
  <2>2. CASE Unload(p) \/ Kill(p)
    BY <2>1, <2>2 DEF Unload, Kill, PinsInv
  <2>3. CASE Load(p) \/ InitializeOls(p) \/ DeinitializeOls(p)
    BY <2>1, <2>3 DEF Load, InitializeOls, DeinitializeOls, PinsInv, scm
  <2>4. CASE ToolOpen(p) \/ ToolClose(p)
    BY <2>1, <2>4 DEF ToolOpen, ToolClose, PinsInv, scm
  <2>5. CASE IsSystemInstallDriver(p)
    BY <2>1, <2>5 DEF IsSystemInstallDriver, PinsInv
  <2>6. CASE Initialize(p) \/ Opened(p) \/ InstallDriver(p) \/ StartDriver(p)
    BY <2>1, <2>6 DEF Initialize, Opened, InstallDriver, StartDriver, TryAgain,
       PinsInv, scm
  <2>7. CASE Reopen(p) \/ StopDriver(p) \/ RemoveDriver(p)
    BY <2>1, <2>7 DEF Reopen, StopDriver, RemoveDriver, TryAgain, PinsInv
  <2>8. CASE CloseDevice(p) \/ Closed(p)
    BY <2>1, <2>8 DEF CloseDevice, Closed, PinsInv, scm
  <2> QED BY <1>2, <2>2, <2>3, <2>4, <2>5, <2>6, <2>7, <2>8 DEF Step
<1> QED BY <1>1, <1>2 DEF Next

(* Only a client that has found the driver file installs a service.        *)
FileInv ==
    \A p \in Client : plan[p] = "before" \/ pc[p] = "create" => FileInPlace

LEMMA FileInitial == Init => FileInv
BY DEF Init, FileInv, Process

LEMMA FileStep == RingInv /\ FileInv /\ [Next]_vars => FileInv'
<1> SUFFICES ASSUME RingInv, FileInv, [Next]_vars, NEW c \in Client,
                    plan'[c] = "before" \/ pc'[c] = "create"
             PROVE  FileInPlace'
  BY DEF FileInv
<1>1. CASE UNCHANGED vars
  BY <1>1 DEF vars, files, FileInv, FileInPlace
<1>2. ASSUME NEW p \in Process,
             \/ Load(p) \/ Unload(p) \/ InitializeOls(p) \/ DeinitializeOls(p)
             \/ ToolOpen(p) \/ ToolClose(p)
             \/ p \in Client /\ Kill(p)
             \/ Step(p)
      PROVE  FileInPlace'
  <2>1. /\ pc \in [Process -> PcValues] /\ plan \in [Client -> Plans]
        /\ c \in Process
    BY DEF RingInv, TypeOK, Process
  <2>2. UNCHANGED files
    BY <1>2 DEF Load, Unload, InitializeOls, DeinitializeOls, ToolOpen,
       ToolClose, Kill, Step, Initialize, Opened, InstallDriver, StartDriver,
       Reopen, IsSystemInstallDriver, StopDriver, RemoveDriver, CloseDevice,
       Closed
  <2>3. FileInPlace => FileInPlace'
    BY <2>2 DEF FileInPlace, files
  <2> USE DEF FileInv
  <2>4. CASE Load(p) \/ Unload(p) \/ InitializeOls(p)
    BY <2>1, <2>3, <2>4 DEF Load, Unload, InitializeOls
  <2>5. CASE DeinitializeOls(p)
    BY <2>1, <2>3, <2>5 DEF DeinitializeOls
  <2>6. CASE ToolOpen(p) \/ ToolClose(p) \/ (p \in Client /\ Kill(p))
    BY <2>1, <2>3, <2>6 DEF ToolOpen, ToolClose, Kill
  <2>7. CASE Initialize(p) \/ Reopen(p)
    BY <2>1, <2>3, <2>7 DEF Initialize, Reopen, TryAgain
  <2>8. CASE Opened(p) \/ CloseDevice(p) \/ Closed(p)
    BY <2>1, <2>3, <2>8 DEF Opened, CloseDevice, Closed
  <2>9. CASE InstallDriver(p) \/ StartDriver(p)
    BY <2>1, <2>3, <2>9 DEF InstallDriver, StartDriver
  <2>10. CASE IsSystemInstallDriver(p) \/ StopDriver(p)
    BY <2>1, <2>3, <2>10 DEF IsSystemInstallDriver, StopDriver
  <2>11. CASE RemoveDriver(p)
    <3>1. p \in Client
      BY <2>11 DEF RingInv, Follows, ToolPc, RemoveDriver, Process
    <3>2. CASE c = p
      <4>1. plan'[c] = "none"
        BY <2>1, <2>11, <3>1, <3>2 DEF RemoveDriver
      <4>2. pc'[c] = "create" => plan[c] = "before"
        BY <2>1, <2>11, <3>2 DEF RemoveDriver, TryAgain
      <4> QED BY <2>3, <4>1, <4>2
    <3>3. CASE c # p
      BY <2>1, <2>3, <2>11, <3>1, <3>3 DEF RemoveDriver, TryAgain
    <3> QED BY <3>2, <3>3
  <2> QED
    BY <1>2, <2>4, <2>5, <2>6, <2>7, <2>8, <2>9, <2>10, <2>11 DEF Step
<1> QED BY <1>1, <1>2 DEF Next

(* A client that will remove a driver that runs, if it does not come to    *)
(* use it; and one that will remove a stopped driver, or start it.         *)
Keeper(p) ==
    \/ pc[p] \in {"open", "query", "stop", "create", "start", "reopen",
                  "opening", "ready"}
    \/ pc[p] \in {"counted", "closing"} /\ plan[p] = "last"

Mender(p) == pc[p] \in {"open", "query", "stop", "delete", "create", "start"}

Kept == \E c \in Client : Keeper(c)

Mended == \E c \in Client : Mender(c)

Deleting == \E c \in Client : pc[c] = "delete"

Pinned == marked = TRUE /\ pins # {}

(* As long as the driver has been left to nobody: whatever is there of it  *)
(* is in the hands of a client that has yet to remove it, or goes by       *)
(* itself.                                                                 *)
QuietInv ==
    disturbed = FALSE =>
        /\ svc # "absent" => FileInPlace
        /\ svc = "running" /\ raced = FALSE => Kept
        /\ svc = "stopping" => marked = TRUE \/ Deleting
        /\ svc = "stopped" => Pinned \/ Mended

LEMMA QuietInitial == Init => QuietInv
BY DEF Init, QuietInv

(* What the step of p has to leave behind; the others keep their places.   *)
LEMMA QuietMoves ==
    ASSUME TypeOK, QuietInv, disturbed = FALSE, NEW p \in Process, NEW v,
           pc' = [pc EXCEPT ![p] = v],
           \A c \in Client \ {p} : plan'[c] = plan[c],
           UNCHANGED files,
           svc = "absent" /\ svc' # "absent" => FileInPlace,
           svc' = "running" /\ raced' = FALSE =>
               \/ Kept'
               \/ /\ svc = "running" /\ raced = FALSE
                  /\ ~ (p \in Client /\ Keeper(p)),
           svc' = "stopping" =>
               \/ marked' = TRUE
               \/ Deleting'
               \/ svc = "stopping" /\ marked = FALSE /\ pc[p] # "delete",
           svc' = "stopped" =>
               \/ Pinned'
               \/ Mended'
               \/ svc = "stopped" /\ ~ Pinned /\ ~ (p \in Client /\ Mender(p))
               \/ svc = "stopping" /\ marked = FALSE /\ pc[p] # "delete"
    PROVE  QuietInv'
<1>1. pc \in [Process -> PcValues] /\ Client \subseteq Process
  BY DEF TypeOK, Process
<1>2. ASSUME NEW c \in Client, c # p
      PROVE  /\ pc'[c] = pc[c]
             /\ Keeper(c) => Keeper(c)'
             /\ Mender(c) => Mender(c)'
  <2>1. pc'[c] = pc[c] /\ plan'[c] = plan[c]
    BY <1>1, <1>2
  <2> QED BY <2>1 DEF Keeper, Mender
<1>3. svc' # "absent" => FileInPlace'
  <2>1. FileInPlace' <=> FileInPlace
    BY DEF FileInPlace, files
  <2> QED BY <2>1 DEF QuietInv
<1>4. svc' = "running" /\ raced' = FALSE => Kept'
  BY <1>2 DEF QuietInv, Kept
<1>5. svc' = "stopping" => marked' = TRUE \/ Deleting'
  BY <1>2 DEF QuietInv, Deleting
<1>6. svc' = "stopped" => Pinned' \/ Mended'
  <2>1. svc = "stopping" /\ marked = FALSE /\ pc[p] # "delete" => Mended'
    BY <1>2 DEF QuietInv, Deleting, Mended, Mender
  <2>2. svc = "stopped" /\ ~ Pinned /\ ~ (p \in Client /\ Mender(p)) => Mended'
    BY <1>2 DEF QuietInv, Mended
  <2> QED BY <2>1, <2>2
<1> QED BY <1>3, <1>4, <1>5, <1>6 DEF QuietInv

(* A step that leaves the service as it is.                                *)
LEMMA QuietStays ==
    ASSUME TypeOK, QuietInv, disturbed = FALSE, NEW p \in Process, NEW v,
           pc' = [pc EXCEPT ![p] = v],
           \A c \in Client \ {p} : plan'[c] = plan[c],
           UNCHANGED <<files, svc, marked>>, pins \subseteq pins',
           raced' = FALSE => raced = FALSE,
           svc = "running" /\ raced = FALSE /\ p \in Client /\ Keeper(p) => Kept',
           svc = "stopped" /\ p \in Client /\ Mender(p) => Mended',
           pc[p] # "delete"
    PROVE  QuietInv'
<1>1. Pinned => Pinned'
  BY DEF Pinned
<1>2. marked \in BOOLEAN
  BY DEF TypeOK
<1>3. svc' = "stopping" =>
        \/ marked' = TRUE
        \/ svc = "stopping" /\ marked = FALSE /\ pc[p] # "delete"
  BY <1>2
<1>4. svc' = "stopped" =>
        \/ Pinned'
        \/ Mended'
        \/ svc = "stopped" /\ ~ Pinned /\ ~ (p \in Client /\ Mender(p))
  BY <1>1
<1> QED BY <1>3, <1>4, QuietMoves

(* A step with which handles go away.                                      *)
LEMMA QuietSettles ==
    ASSUME TypeOK, QuietInv, disturbed = FALSE, NEW p \in Process, NEW v,
           pc' = [pc EXCEPT ![p] = v],
           \A c \in Client \ {p} : plan'[c] = plan[c],
           UNCHANGED <<files, raced>>, Settle(marked, handles', pins'),
           p \in Client /\ Keeper(p) => Kept',
           p \in Client => ~ Mender(p)
    PROVE  QuietInv'
<1>1. /\ svc \in {"absent", "stopped", "running", "stopping"}
      /\ marked \in BOOLEAN
  BY DEF TypeOK
<1>2. /\ svc' = IF (svc = "stopping" /\ handles' = {}) \/ svc = "stopped"
                THEN (IF marked /\ pins' = {} THEN "absent" ELSE "stopped")
                ELSE svc
      /\ marked' = (marked /\ svc' # "absent")
  BY DEF Settle, Settled
<1>3. pc[p] = "delete" => p \notin Client
  BY DEF Mender
<1>4. CASE pc[p] # "delete"
  <2>1. svc' = "running" /\ raced' = FALSE =>
          \/ Kept'
          \/ /\ svc = "running" /\ raced = FALSE
             /\ ~ (p \in Client /\ Keeper(p))
    BY <1>2
  <2>2. svc' = "stopping" =>
          \/ marked' = TRUE
          \/ svc = "stopping" /\ marked = FALSE /\ pc[p] # "delete"
    BY <1>1, <1>2, <1>4
  <2>3. svc' = "stopped" =>
          \/ Pinned'
          \/ svc = "stopped" /\ ~ Pinned /\ ~ (p \in Client /\ Mender(p))
          \/ svc = "stopping" /\ marked = FALSE /\ pc[p] # "delete"
    BY <1>1, <1>2, <1>4 DEF Pinned
  <2>4. svc = "absent" => svc' = "absent"
    BY <1>2
  <2> QED BY <2>1, <2>2, <2>3, <2>4, QuietMoves
<1>5. CASE pc[p] = "delete"
  <2>1. \A c \in Client : pc'[c] = pc[c] /\ plan'[c] = plan[c]
    BY <1>3, <1>5 DEF TypeOK, Process
  <2>2. (Kept => Kept') /\ (Deleting => Deleting') /\ (Mended => Mended')
    BY <2>1 DEF Kept, Keeper, Deleting, Mended, Mender
  <2>3. Deleting => Mended
    BY DEF Deleting, Mended, Mender
  <2>4. FileInPlace' <=> FileInPlace
    BY DEF FileInPlace, files
  <2>5. svc' # "absent" => FileInPlace'
    BY <1>2, <2>4 DEF QuietInv
  <2>6. svc' = "running" /\ raced' = FALSE => Kept'
    BY <1>2, <2>2 DEF QuietInv
  <2>7. svc' = "stopping" => marked' = TRUE \/ Deleting'
    BY <1>1, <1>2, <2>2 DEF QuietInv
  <2>8. svc' = "stopped" => Pinned' \/ Mended'
    BY <1>1, <1>2, <2>2, <2>3 DEF QuietInv, Pinned
  <2> QED BY <2>5, <2>6, <2>7, <2>8 DEF QuietInv
<1> QED BY <1>4, <1>5

(* Clients and tools that come and go.                                     *)
LEMMA QuietComesAndGoes ==
    ASSUME RingInv, QuietInv, NEW p \in Process, disturbed' = FALSE,
           \/ Load(p) \/ Unload(p) \/ (p \in Client /\ Kill(p))
           \/ ToolOpen(p) \/ ToolClose(p)
           \/ (p \in Tool /\ (Opened(p) \/ Closed(p)))
    PROVE  QuietInv'
<1>1. /\ TypeOK /\ pc \in [Process -> PcValues] /\ Client \cap Tool = {}
      /\ disturbed \in BOOLEAN /\ raced \in BOOLEAN
  BY WinRingAssumption DEF RingInv, TypeOK
<1>2. DispatchBegin(p) => (raced' = FALSE => raced = FALSE)
  BY <1>1 DEF DispatchBegin
<1>3. CASE Load(p)
  BY <1>1, <1>3, QuietStays DEF Load, scm, Keeper, Mender
<1>4. CASE Unload(p) /\ disturbed = TRUE
  <2>1. svc' = "absent"
    BY <1>4 DEF Unload
  <2> QED BY <2>1 DEF QuietInv
<1>5. CASE Unload(p) /\ disturbed = FALSE
  <2>1. ~ Keeper(p) /\ ~ Mender(p)
    BY <1>5 DEF Unload, Keeper, Mender
  <2> QED BY <1>1, <1>5, <2>1, QuietSettles DEF Unload
<1>6. CASE p \in Client /\ Kill(p)
  <2>1. disturbed = FALSE /\ pc[p] = "failed"
    BY <1>1, <1>6 DEF Kill, Disturb
  <2>2. ~ Keeper(p) /\ ~ Mender(p)
    BY <2>1 DEF Keeper, Mender
  <2>3. \A c \in Client \ {p} : plan'[c] = plan[c]
    BY <1>1, <1>6 DEF Kill, TypeOK
  <2> QED BY <1>1, <1>6, <2>1, <2>2, <2>3, QuietSettles DEF Kill
<1>7. CASE ToolOpen(p) \/ ToolClose(p)
  <2>1. /\ p \notin Client /\ pc[p] # "delete" /\ disturbed = FALSE
        /\ UNCHANGED <<files, svc, marked, pins, plan>>
    BY <1>1, <1>7 DEF ToolOpen, ToolClose, scm
  <2>2. PICK v : pc' = [pc EXCEPT ![p] = v]
    BY <1>7 DEF ToolOpen, ToolClose
  <2>3. raced' = FALSE => raced = FALSE
    BY <1>2, <1>7 DEF ToolOpen, ToolClose, OpenDevice
  <2> QED BY <1>1, <2>1, <2>2, <2>3, QuietStays
<1>8. CASE p \in Tool /\ Opened(p)
  BY <1>1, <1>8, QuietStays DEF Opened, scm
<1>9. CASE p \in Tool /\ Closed(p)
  <2>1. /\ p \notin Client /\ disturbed = FALSE
        /\ UNCHANGED <<files, raced, plan, pins>>
        /\ Settle(marked, handles', pins')
    BY <1>1, <1>9 DEF Closed
  <2>2. PICK v : pc' = [pc EXCEPT ![p] = v]
    BY <1>9 DEF Closed
  <2> QED BY <1>1, <2>1, <2>2, QuietSettles
<1> QED
  BY <1>1, <1>3, <1>4, <1>5, <1>6, <1>7, <1>8, <1>9

(* The calls of the library and the requests of a client.                  *)
LEMMA QuietCalls ==
    ASSUME RingInv, QuietInv, NEW p \in Client, disturbed' = FALSE,
           \/ InitializeOls(p) \/ DeinitializeOls(p)
           \/ Opened(p) \/ CloseDevice(p) \/ Closed(p)
    PROVE  QuietInv'
<1>1. /\ TypeOK /\ pc \in [Process -> PcValues] /\ p \in Process
      /\ disturbed \in BOOLEAN /\ raced \in BOOLEAN
      /\ plan \in [Client -> Plans] /\ p \notin Tool
  BY WinRingAssumption DEF RingInv, TypeOK, Process
<1>2. CASE InitializeOls(p)
  BY <1>1, <1>2, QuietStays DEF InitializeOls, scm, Keeper, Mender
<1>3. CASE DeinitializeOls(p) /\ pc[p] = "failed"
  <2>1. disturbed = FALSE
    BY <1>1, <1>3 DEF DeinitializeOls, Counting, Disturb
  <2> QED BY <1>1, <1>3, <2>1, QuietStays
          DEF DeinitializeOls, scm, Keeper, Mender
<1>4. CASE DeinitializeOls(p) /\ pc[p] = "ready"
  <2>1. /\ disturbed = FALSE
        /\ Others(p) # {} => \E q \in handles \ {p} : CountsLater(q)
    BY <1>1, <1>4 DEF DeinitializeOls, Counting, Disturb
  <2>2. /\ pc' = [pc EXCEPT ![p] = "counted"] /\ pc'[p] = "counted"
        /\ UNCHANGED <<files, svc, marked, pins, raced>>
        /\ \A c \in Client \ {p} : plan'[c] = plan[c]
    BY <1>1, <1>4 DEF DeinitializeOls, scm
  <2>3. ASSUME raced = FALSE PROVE Kept'
    <3>1. CASE Others(p) = {}
      <4>1. plan'[p] = "last"
        BY <1>4, <2>3, <3>1, CountedLast
      <4> QED BY <2>2, <4>1 DEF Kept, Keeper
    <3>2. CASE Others(p) # {}
      <4>1. PICK q \in handles \ {p} : CountsLater(q)
        BY <2>1, <3>2
      <4>2. q \in Client /\ pc'[q] \in {"opening", "ready"}
        BY <1>1, <2>2, <4>1 DEF CountsLater, Process
      <4> QED BY <4>2 DEF Kept, Keeper
    <3> QED BY <3>1, <3>2
  <2>4. ~ Mender(p) /\ pc[p] # "delete"
    BY <1>4 DEF Mender
  <2> QED BY <1>1, <2>1, <2>2, <2>3, <2>4, QuietStays
<1>5. CASE Opened(p)
  <2>1. pc'[p] = "ready" /\ pc[p] = "opening"
    BY <1>1, <1>5 DEF Opened
  <2>2. Kept' /\ ~ Mender(p)
    BY <2>1 DEF Kept, Keeper, Mender
  <2> QED BY <1>1, <1>5, <2>2, QuietStays DEF Opened, scm
<1>6. CASE CloseDevice(p)
  <2>1. /\ pc'[p] = "closing" /\ pc[p] = "counted" /\ plan' = plan
        /\ UNCHANGED <<files, svc, marked, pins, disturbed>>
        /\ pc' = [pc EXCEPT ![p] = "closing"]
    BY <1>1, <1>6 DEF CloseDevice, scm
  <2>2. (Keeper(p) => Kept') /\ ~ Mender(p)
    BY <2>1 DEF Kept, Keeper, Mender
  <2>3. raced' = FALSE => raced = FALSE
    BY <1>1, <1>6 DEF CloseDevice, DispatchBegin
  <2> QED BY <1>1, <2>1, <2>2, <2>3, QuietStays
<1>7. CASE Closed(p)
  <2>1. /\ pc[p] = "closing" /\ plan' = plan /\ disturbed = FALSE
        /\ UNCHANGED <<files, raced, pins>> /\ Settle(marked, handles', pins')
        /\ pc' = [pc EXCEPT ![p] = IF plan[p] = "last" THEN "query"
                                                      ELSE "loaded"]
    BY <1>1, <1>7 DEF Closed
  <2>2. plan[p] = "last" => pc'[p] = "query"
    BY <1>1, <2>1
  <2>3. (Keeper(p) => Kept') /\ ~ Mender(p)
    BY <2>1, <2>2 DEF Kept, Keeper, Mender
  <2> QED BY <1>1, <2>1, <2>3, QuietSettles
<1> QED BY <1>2, <1>3, <1>4, <1>5, <1>6, <1>7 DEF DeinitializeOls

(* Opening and installing.                                                 *)
LEMMA QuietInstalls ==
    ASSUME RingInv, FileInv, QuietInv, NEW p \in Client, disturbed' = FALSE,
           \/ Initialize(p) \/ InstallDriver(p) \/ StartDriver(p)
           \/ Reopen(p)
    PROVE  QuietInv'
<1>1. /\ TypeOK /\ pc \in [Process -> PcValues] /\ p \in Process
      /\ disturbed \in BOOLEAN /\ raced \in BOOLEAN /\ marked \in BOOLEAN
      /\ plan \in [Client -> Plans] /\ Tries \in Nat /\ try[p] \in 0 .. Tries
      /\ svc \in {"absent", "stopped", "running", "stopping"}
  BY WinRingAssumption DEF RingInv, TypeOK, Process
<1>2. disturbed = FALSE /\ UNCHANGED files
  BY <1>1 DEF Initialize, InstallDriver, StartDriver, Reopen, Disturb
<1>3. DispatchBegin(p) => (raced' = FALSE => raced = FALSE)
  BY <1>1 DEF DispatchBegin
<1>4. \A c \in Client \ {p} : plan'[c] = plan[c]
  BY <1>1 DEF Initialize, InstallDriver, StartDriver, Reopen
<1>5. CASE Initialize(p)
  <2>1. /\ pc[p] = "open" /\ UNCHANGED <<svc, marked, pins>>
        /\ raced' = FALSE => raced = FALSE
    BY <1>3, <1>5 DEF Initialize, OpenDevice
  <2>2. CASE ~ FileInPlace
    <3>1. svc = "absent"
      BY <1>2, <2>2 DEF QuietInv
    <3> QED BY <2>1, <3>1 DEF QuietInv
  <2>3. CASE FileInPlace
    <3>1. PICK v \in {"opening", "query"} :
            /\ pc' = [pc EXCEPT ![p] = v]
            /\ v = "opening" => svc = "running"
      BY <1>5, <2>3 DEF Initialize, OpenDevice
    <3>2. pc'[p] = v
      BY <1>1, <3>1
    <3>3. Kept' /\ (svc = "stopped" => Mended')
      BY <3>1, <3>2 DEF Kept, Keeper, Mended, Mender
    <3> QED BY <1>1, <1>2, <1>4, <2>1, <3>1, <3>3, QuietStays
  <2> QED BY <2>2, <2>3
<1>6. CASE InstallDriver(p)
  <2>1. /\ pc[p] = "create" /\ UNCHANGED <<marked, pins, raced>>
        /\ svc' = IF svc = "absent" THEN "stopped" ELSE svc
    BY <1>6 DEF InstallDriver
  <2>2. PICK v \in {"query", "start"} : pc' = [pc EXCEPT ![p] = v]
    BY <1>6 DEF InstallDriver
  <2>3. pc'[p] = v
    BY <1>1, <2>2
  <2>4. Kept' /\ Mended'
    BY <2>3 DEF Kept, Keeper, Mended, Mender
  <2>5. FileInPlace
    BY <2>1 DEF FileInv
  <2>6. svc' = "stopping" =>
          \/ marked' = TRUE
          \/ svc = "stopping" /\ marked = FALSE /\ pc[p] # "delete"
    BY <1>1, <2>1
  <2> QED BY <1>1, <1>2, <1>4, <2>2, <2>4, <2>5, <2>6, QuietMoves
<1>7. CASE StartDriver(p) /\ svc' = svc
  <2>1. /\ pc[p] = "start" /\ UNCHANGED <<marked, pins>>
        /\ ~ (svc = "stopped" /\ ~ marked /\ driverFile = "fine")
    BY <1>7 DEF StartDriver
  <2>2. raced' = FALSE => raced = FALSE
    BY <1>1, <1>7, <2>1 DEF StartDriver
  <2>3. PICK v \in {"reopen", "query"} :
          /\ pc' = [pc EXCEPT ![p] = v]
          /\ v = "reopen" => svc = "running"
    BY <1>7, <2>1 DEF StartDriver
  <2>4. pc'[p] = v
    BY <1>1, <2>3
  <2>5. Kept' /\ (svc = "stopped" => Mended')
    BY <2>3, <2>4 DEF Kept, Keeper, Mended, Mender
  <2> QED BY <1>1, <1>2, <1>4, <1>7, <2>1, <2>2, <2>3, <2>5, QuietStays
<1>8. CASE StartDriver(p) /\ svc' # svc
  <2>1. /\ svc = "stopped" /\ svc' = "running"
        /\ pc' = [pc EXCEPT ![p] = "reopen"]
    BY <1>8 DEF StartDriver
  <2>2. pc'[p] = "reopen"
    BY <1>1, <2>1
  <2>3. Kept'
    BY <2>2 DEF Kept, Keeper
  <2> QED BY <1>1, <1>2, <1>4, <2>1, <2>3, QuietMoves
<1>9. CASE Reopen(p)
  <2>1. /\ pc[p] = "reopen" /\ UNCHANGED <<svc, marked, pins>>
        /\ raced' = FALSE => raced = FALSE
    BY <1>3, <1>9 DEF Reopen, OpenDevice
  <2>2. ~ Mender(p) /\ pc[p] # "delete"
    BY <2>1 DEF Mender
  <2>3. PICK v \in {"opening", "open", "failed"} :
          /\ pc' = [pc EXCEPT ![p] = v]
          /\ v = "failed" => svc # "running"
    <3>1. CASE pc' = [pc EXCEPT ![p] = "opening"]
      BY <3>1
    <3>2. CASE TryAgain(p) /\ Disturb(try[p] = Tries /\ svc = "running")
      <4>1. ~ (try[p] = Tries /\ svc = "running")
        BY <3>2 DEF Disturb
      <4>2. CASE try[p] < Tries
        BY <3>2, <4>2 DEF TryAgain
      <4>3. CASE ~ (try[p] < Tries)
        BY <1>1, <3>2, <4>1, <4>3 DEF TryAgain
      <4> QED BY <4>2, <4>3
    <3> QED BY <1>9, <3>1, <3>2 DEF Reopen
  <2>4. pc'[p] = v
    BY <1>1, <2>3
  <2>5. svc = "running" => Kept'
    BY <2>3, <2>4 DEF Kept, Keeper
  <2> QED BY <1>1, <1>2, <1>4, <2>1, <2>2, <2>3, <2>5, QuietStays
<1> QED BY <1>5, <1>6, <1>7, <1>8, <1>9

(* Stopping and deleting the service.                                      *)
LEMMA QuietRemoves ==
    ASSUME RingInv, QuietInv, NEW p \in Client, disturbed' = FALSE,
           IsSystemInstallDriver(p) \/ StopDriver(p) \/ RemoveDriver(p)
    PROVE  QuietInv'
<1>1. /\ TypeOK /\ pc \in [Process -> PcValues] /\ p \in Process
      /\ disturbed \in BOOLEAN /\ raced \in BOOLEAN /\ marked \in BOOLEAN
      /\ plan \in [Client -> Plans] /\ handles \subseteq Process
      /\ svc \in {"absent", "stopped", "running", "stopping"}
  BY DEF RingInv, TypeOK, Process
<1>2. disturbed = FALSE /\ UNCHANGED <<files, raced>>
  BY DEF IsSystemInstallDriver, StopDriver, RemoveDriver
<1>3. \A c \in Client \ {p} : plan'[c] = plan[c]
  BY <1>1 DEF IsSystemInstallDriver, StopDriver, RemoveDriver
<1>4. CASE IsSystemInstallDriver(p)
  <2>1. pc[p] = "query" /\ pc' = [pc EXCEPT ![p] = "stop"]
        /\ UNCHANGED <<svc, marked>> /\ pins \subseteq pins'
    BY <1>4 DEF IsSystemInstallDriver
  <2>2. pc'[p] = "stop"
    BY <1>1, <2>1
  <2>3. Kept' /\ Mended'
    BY <2>2 DEF Kept, Keeper, Mended, Mender
  <2> QED BY <1>1, <1>2, <1>3, <2>1, <2>3, QuietStays
<1>5. CASE StopDriver(p)
  <2>1. /\ pc' = [pc EXCEPT ![p] = "delete"]
        /\ svc' # "running" /\ (svc = "absent" => svc' = "absent")
    BY <1>5 DEF StopDriver, Settled
  <2>2. pc'[p] = "delete"
    BY <1>1, <2>1
  <2>3. Deleting' /\ Mended'
    BY <2>2 DEF Deleting, Mended, Mender
  <2> QED BY <1>1, <1>2, <1>3, <2>1, <2>3, QuietMoves
<1>6. CASE RemoveDriver(p)
  <2>1. /\ pc[p] = "delete" /\ pins' = pins
        /\ IF svc = "absent" THEN UNCHANGED <<svc, marked>>
                             ELSE Settle(TRUE, handles, pins)
    BY <1>6 DEF RemoveDriver
  <2>2. PICK v : pc' = [pc EXCEPT ![p] = v]
    BY <1>6 DEF RemoveDriver, TryAgain
  <2>3. /\ svc = "absent" => svc' = "absent"
        /\ svc' # "absent" => marked' = TRUE
        /\ svc' = "running" => svc = "running"
        /\ svc' = "stopped" => pins # {}
    BY <1>1, <2>1 DEF Settle, Settled
  <2>4. ~ Keeper(p)
    BY <2>1 DEF Keeper
  <2>5. svc' = "stopped" => Pinned'
    BY <2>1, <2>3 DEF Pinned
  <2> QED BY <1>1, <1>2, <1>3, <2>2, <2>3, <2>4, <2>5, QuietMoves
<1> QED BY <1>4, <1>5, <1>6

LEMMA QuietStep == RingInv /\ FileInv /\ QuietInv /\ [Next]_vars => QuietInv'
<1> SUFFICES ASSUME RingInv, FileInv, QuietInv, [Next]_vars PROVE QuietInv'
  OBVIOUS
<1>1. CASE UNCHANGED vars
  BY <1>1 DEF vars, scm, hist, files, QuietInv, FileInPlace, Kept, Keeper,
     Deleting, Pinned, Mended, Mender
<1>2. ASSUME NEW p \in Process,
             \/ Load(p) \/ Unload(p) \/ InitializeOls(p) \/ DeinitializeOls(p)
             \/ ToolOpen(p) \/ ToolClose(p)
             \/ p \in Client /\ Kill(p)
             \/ Step(p)
      PROVE  QuietInv'
  <2>1. SUFFICES ASSUME disturbed' = FALSE PROVE QuietInv'
    BY DEF QuietInv
  <2>2. p \in Client \/ p \in Tool
    BY DEF Process
  <2>3. /\ InitializeOls(p) \/ DeinitializeOls(p) => p \in Client
        /\ p \in Tool => pc[p] \in ToolPc
    BY DEF InitializeOls, DeinitializeOls, RingInv, Follows
  <2>4. CASE \/ Load(p) \/ Unload(p) \/ (p \in Client /\ Kill(p))
             \/ ToolOpen(p) \/ ToolClose(p)
    BY <2>1, <2>4, QuietComesAndGoes
  <2>5. CASE InitializeOls(p) \/ DeinitializeOls(p)
    BY <2>1, <2>3, <2>5, QuietCalls
  <2>6. CASE Step(p) /\ p \in Tool
    <3>1. Opened(p) \/ Closed(p)
      BY <2>3, <2>6 DEF Step, ToolPc, Initialize, InstallDriver, StartDriver,
         Reopen, IsSystemInstallDriver, StopDriver, RemoveDriver, CloseDevice
    <3> QED BY <2>1, <2>6, <3>1, QuietComesAndGoes
  <2>7. CASE Step(p) /\ p \in Client
    <3>1. CASE Opened(p) \/ CloseDevice(p) \/ Closed(p)
      BY <2>1, <2>7, <3>1, QuietCalls
    <3>2. CASE \/ Initialize(p) \/ InstallDriver(p) \/ StartDriver(p)
               \/ Reopen(p)
      BY <2>1, <2>7, <3>2, QuietInstalls
    <3>3. CASE IsSystemInstallDriver(p) \/ StopDriver(p) \/ RemoveDriver(p)
      BY <2>1, <2>7, <3>3, QuietRemoves
    <3> QED BY <2>7, <3>1, <3>2, <3>3 DEF Step
  <2> QED BY <1>2, <2>2, <2>4, <2>5, <2>6, <2>7
<1> QED BY <1>1, <1>2 DEF Next

(* The last process to go leaves neither driver nor service behind,        *)
(* however the calls overlapped, unless it was left to nobody: by a killed *)
(* client, by one that counted only tools and clients that had counted     *)
(* already, by a last attempt that could not open the running driver, or   *)
(* by a count that has lost an update (OlsDll.cpp:99, 183-187).            *)
THEOREM RingQuietMeansGone == Spec => []QuietMeansGone
<1>1. RingInv /\ PinsInv /\ QuietInv => QuietMeansGone
  <2> SUFFICES ASSUME RingInv, PinsInv, QuietInv, disturbed = FALSE,
                      raced = FALSE, \A p \in Process : pc[p] = "absent"
               PROVE  svc = "absent"
    BY DEF QuietMeansGone, RingInv, TypeOK
  <2>1. \A p \in Client : pc[p] = "absent"
    BY DEF Process
  <2>2. pins = {}
    BY <2>1 DEF PinsInv, RingInv, TypeOK
  <2>3. handles = {}
    BY DEF RingInv, TypeOK, Follows, Holding
  <2>4. ~ Kept /\ ~ Mended /\ ~ Pinned
    BY <2>1, <2>2 DEF Kept, Keeper, Mended, Mender, Pinned
  <2>5. svc \in {"absent", "stopped", "running", "stopping"}
    BY DEF RingInv, TypeOK
  <2> QED BY <2>3, <2>4, <2>5 DEF QuietInv, RingInv, Follows
<1>2. RingInv => TypeOK
  BY DEF RingInv
<1> QED
  BY <1>1, <1>2, RingInitial, RingStep, PinsInitial, PinsStep, FileInitial,
     FileStep, QuietInitial, QuietStep, PTL DEF Spec

-----------------------------------------------------------------------------
(* A client beside which nobody runs.                                      *)

(* In a later attempt a lone client always finds a service, which it then  *)
(* marks; it cannot install the driver anew before it has gone, since it   *)
(* has leaked a handle of the old service itself.                          *)
Again(p) == try[p] > 1

(* What its place says of the service, once it has called the library,     *)
(* whatever it found when it came.                                         *)
LonePlace(p) ==
    /\ pc[p] \in {"create", "delete"} => Down
    /\ pc[p] = "start" => svc = "stopped"
    /\ pc[p] = "reopen" => svc = "running"
    /\ pc[p] \in {"stop", "delete"} /\ svc # "absent" => p \in pins
    /\ pc[p] \in {"start", "reopen"} => ~ Again(p)
    /\ pc[p] \in {"open", "create"} /\ Again(p) => svc # "absent"
    /\ pc[p] = "create" /\ Again(p) => marked = TRUE
    /\ pc[p] \in {"query", "stop", "delete"} /\ (Again(p) \/ plan[p] = "after")
           => svc # "absent"
    /\ pc[p] \in {"counted", "closing"} => plan[p] = "last" \/ raced = TRUE
    /\ pc[p] = "failed" => Clear
    /\ pc[p] = "loaded" => Clear \/ raced = TRUE

LoneInv ==
    \A p \in alone :
        /\ pc[p] # "absent" /\ NoOne(p) /\ svc # "stopping"
        /\ p \in used /\ FileInPlace => LonePlace(p)

(* A process that has ended has called nothing.                            *)
UsedInv == \A p \in used : pc[p] # "absent"

LEMMA LoneFacts ==
    ASSUME RingInv, PinsInv, NEW p \in Client, NoOne(p)
    PROVE  handles \subseteq {p} /\ pins \subseteq {p}
BY DEF RingInv, TypeOK, Follows, Holding, PinsInv, NoOne, Process

(* A step of the one client there is: only its own place matters.          *)
LEMMA LoneOwn ==
    ASSUME TypeOK, LoneInv, NEW p \in Client, pc[p] # "absent",
           NEW v, v # "absent", pc' = [pc EXCEPT ![p] = v], alone' = alone,
           NoOne(p) /\ p \in alone /\ svc # "stopping" =>
               /\ svc' # "stopping"
               /\ p \in used' /\ FileInPlace' => LonePlace(p)'
    PROVE  LoneInv'
<1>1. pc \in [Process -> PcValues] /\ p \in Process
  BY DEF TypeOK, Process
<1>2. ASSUME NEW q \in alone' PROVE q = p
  BY <1>1, <1>2 DEF LoneInv, NoOne
<1>3. ASSUME p \in alone'
      PROVE  /\ pc'[p] # "absent" /\ NoOne(p)' /\ svc' # "stopping"
             /\ p \in used' /\ FileInPlace' => LonePlace(p)'
  <2>1. NoOne(p) /\ p \in alone /\ svc # "stopping"
    BY <1>3 DEF LoneInv
  <2>2. pc'[p] # "absent" /\ NoOne(p)'
    BY <1>1, <2>1 DEF NoOne
  <2> QED BY <2>1, <2>2
<1> QED BY <1>2, <1>3 DEF LoneInv

LEMMA LoneInitial == Init => LoneInv /\ UsedInv
BY DEF Init, LoneInv, UsedInv

LEMMA UsedStep == TypeOK /\ UsedInv /\ [Next]_vars => UsedInv'
<1> SUFFICES ASSUME TypeOK, UsedInv, [Next]_vars, NEW c \in used'
             PROVE  pc'[c] # "absent"
  BY DEF UsedInv
<1>1. CASE UNCHANGED vars
  BY <1>1 DEF vars, hist, UsedInv
<1>2. ASSUME NEW p \in Process,
             \/ Load(p) \/ Unload(p) \/ InitializeOls(p) \/ DeinitializeOls(p)
             \/ ToolOpen(p) \/ ToolClose(p)
             \/ p \in Client /\ Kill(p)
             \/ Step(p)
      PROVE  pc'[c] # "absent"
  <2>1. /\ pc \in [Process -> PcValues] /\ used \subseteq Client
        /\ Client \cap Tool = {}
    BY WinRingAssumption DEF TypeOK
  <2>2. CASE Unload(p) \/ Kill(p)
    BY <2>1, <2>2 DEF Unload, Kill, UsedInv, Process
  <2>3. CASE Load(p) \/ InitializeOls(p) \/ DeinitializeOls(p)
    BY <2>1, <2>3 DEF Load, InitializeOls, DeinitializeOls, UsedInv, Process
  <2>4. CASE ToolOpen(p) \/ ToolClose(p)
    BY <2>1, <2>4 DEF ToolOpen, ToolClose, UsedInv, Process
  <2>5. CASE \/ IsSystemInstallDriver(p) \/ CloseDevice(p) \/ Closed(p)
    BY <2>1, <2>5 DEF IsSystemInstallDriver, CloseDevice, Closed, UsedInv,
       Process
  <2>6. CASE Initialize(p) \/ Opened(p) \/ InstallDriver(p) \/ StartDriver(p)
    BY <2>1, <2>6 DEF Initialize, Opened, InstallDriver, StartDriver, TryAgain,
       UsedInv, Process
  <2>7. CASE Reopen(p) \/ StopDriver(p) \/ RemoveDriver(p)
    BY <2>1, <2>7 DEF Reopen, StopDriver, RemoveDriver, TryAgain, UsedInv,
       Process
  <2> QED BY <1>2, <2>2, <2>3, <2>4, <2>5, <2>6, <2>7 DEF Step
<1> QED BY <1>1, <1>2 DEF Next

(* Clients and tools that come and go.                                     *)
LEMMA LoneComesAndGoes ==
    ASSUME RingInv, UsedInv, LoneInv, NEW p \in Process,
           \/ Load(p) \/ Unload(p) \/ Kill(p) \/ ToolOpen(p) \/ ToolClose(p)
           \/ (p \in Tool /\ (Opened(p) \/ Closed(p)))
    PROVE  LoneInv'
<1>1. /\ TypeOK /\ pc \in [Process -> PcValues] /\ alone \subseteq Client
      /\ Client \cap Tool = {} /\ Client \subseteq Process
  BY WinRingAssumption DEF RingInv, TypeOK, Process
<1>2. CASE Load(p)
  <2>1. alone' = {} \/ (alone' = {p} /\ NoOne(p))
    BY <1>2 DEF Load
  <2>2. CASE alone' = {p} /\ NoOne(p)
    <3>1. /\ pc[p] = "absent" /\ pc' = [pc EXCEPT ![p] = "loaded"]
          /\ svc' = svc /\ used' = used
      BY <1>2 DEF Load, scm
    <3>2. \A q \in Process : pc[q] = "absent"
      BY <2>2, <3>1 DEF NoOne
    <3>3. handles = {}
      BY <3>2 DEF RingInv, TypeOK, Follows, Holding
    <3>4. svc' # "stopping"
      BY <3>1, <3>3 DEF RingInv, Follows
    <3>5. p \notin used'
      BY <3>1 DEF UsedInv
    <3>6. pc'[p] # "absent" /\ NoOne(p)'
      BY <1>1, <2>2, <3>1 DEF NoOne
    <3> QED BY <2>2, <3>4, <3>5, <3>6 DEF LoneInv
  <2> QED BY <2>1, <2>2 DEF LoneInv
<1>3. CASE ToolOpen(p)
  BY <1>3 DEF ToolOpen, LoneInv
<1>4. ASSUME pc[p] # "absent", alone' \subseteq alone \ {p} PROVE LoneInv'
  <2>1. \A q \in alone \ {p} : FALSE
    BY <1>1, <1>4 DEF LoneInv, NoOne
  <2> QED BY <1>4, <2>1 DEF LoneInv
<1>5. CASE Unload(p) \/ Kill(p)
  BY <1>4, <1>5 DEF Unload, Kill, Managing, ManagerPc
<1>6. CASE ToolClose(p)
  BY <1>1, <1>4, <1>6 DEF ToolClose
<1>7. CASE p \in Tool /\ (Opened(p) \/ Closed(p))
  <2>1. pc[p] # "absent" /\ alone' = alone /\ p \notin alone
    BY <1>1, <1>7 DEF Opened, Closed
  <2> QED BY <1>4, <2>1
<1> QED BY <1>2, <1>3, <1>5, <1>6, <1>7

(* The calls of the library and the requests of a client.                  *)
LEMMA LoneCalls ==
    ASSUME RingInv, PinsInv, LoneInv, NEW p \in Client,
           \/ InitializeOls(p) \/ DeinitializeOls(p)
           \/ CloseDevice(p) \/ Closed(p)
    PROVE  LoneInv'
<1>1. /\ TypeOK /\ pc \in [Process -> PcValues] /\ p \in Process
      /\ raced \in BOOLEAN /\ plan \in [Client -> Plans] /\ p \notin Tool
  BY WinRingAssumption DEF RingInv, TypeOK, Process
<1> DEFINE Mine == /\ NoOne(p) /\ p \in alone /\ svc # "stopping"
                   /\ p \in used /\ FileInPlace => LonePlace(p)
<1>2. NoOne(p) /\ p \in alone /\ svc # "stopping" => Mine
  BY DEF LoneInv
<1>3. CASE InitializeOls(p)
  <2>1. /\ pc[p] # "absent" /\ pc' = [pc EXCEPT ![p] = "open"]
        /\ alone' = alone /\ svc' = svc /\ try' = [try EXCEPT ![p] = 1]
    BY <1>3 DEF InitializeOls, scm
  <2>2. ~ Again(p)'
    <3>1. try'[p] = 1
      BY <2>1 DEF RingInv, TypeOK
    <3> QED BY <3>1 DEF Again
  <2>3. LonePlace(p)'
    BY <1>1, <2>1, <2>2 DEF LonePlace
  <2> QED BY <1>1, <2>1, <2>3, LoneOwn
<1>4. CASE DeinitializeOls(p) /\ pc[p] = "ready"
  <2>1. /\ pc' = [pc EXCEPT ![p] = "counted"]
        /\ plan' = [plan EXCEPT ![p] =
                      IF GetRefCount(p) = 1 THEN "last" ELSE "none"]
        /\ UNCHANGED <<alone, svc, raced>>
    BY <1>1, <1>4 DEF DeinitializeOls, scm
  <2>2. ASSUME NoOne(p), raced = FALSE PROVE plan'[p] = "last"
    <3>1. handles \subseteq {p}
      BY <2>2, LoneFacts
    <3>2. p \in handles /\ Loaded
      BY <1>1, <1>4 DEF RingInv, Follows, Holding
    <3>3. Completed = {p}
      BY <1>4, <3>1, <3>2 DEF Completed
    <3>4. refCount = Cardinality({p})
      BY <2>2, <3>2, <3>3 DEF RingInv, Counts
    <3>5. Cardinality({p}) = 1
      BY FS_Singleton
    <3> QED BY <1>1, <2>1, <3>2, <3>4, <3>5 DEF GetRefCount
  <2>3. NoOne(p) => LonePlace(p)'
    BY <1>1, <2>1, <2>2 DEF LonePlace
  <2> QED BY <1>1, <1>4, <2>1, <2>3, LoneOwn
<1>5. CASE DeinitializeOls(p) /\ pc[p] = "failed"
  <2>1. /\ pc' = [pc EXCEPT ![p] = "loaded"]
        /\ UNCHANGED <<alone, used, svc, marked, pins, files, raced>>
    BY <1>1, <1>5 DEF DeinitializeOls, scm
  <2>2. Mine /\ p \in used' /\ FileInPlace' => LonePlace(p)'
    BY <1>1, <1>5, <2>1 DEF LonePlace, Clear, FileInPlace, files
  <2> QED BY <1>1, <1>2, <1>5, <2>1, <2>2, LoneOwn
<1>6. CASE CloseDevice(p)
  <2>1. /\ pc[p] = "counted" /\ pc' = [pc EXCEPT ![p] = "closing"]
        /\ UNCHANGED <<alone, used, svc, files, plan>>
        /\ raced = TRUE => raced' = TRUE
    BY <1>1, <1>6 DEF CloseDevice, DispatchBegin, scm
  <2>2. Mine /\ p \in used' /\ FileInPlace' => LonePlace(p)'
    BY <1>1, <2>1 DEF LonePlace, FileInPlace, files
  <2> QED BY <1>1, <1>2, <2>1, <2>2, LoneOwn
<1>7. CASE Closed(p)
  <2>1. /\ pc[p] = "closing" /\ UNCHANGED <<alone, used, files, plan, raced>>
        /\ pc' = [pc EXCEPT ![p] = IF plan[p] = "last" THEN "query"
                                                      ELSE "loaded"]
        /\ handles' = handles \ {p} /\ Settle(marked, handles', pins)
    BY <1>1, <1>7 DEF Closed
  <2>2. svc # "stopping" => svc' # "stopping"
    BY <2>1 DEF Settle, Settled
  <2>3. Mine => svc' # "absent"
    <3>1. Loaded
      BY <1>1, <2>1 DEF RingInv, Follows, Holding
    <3> QED BY <2>1, <3>1 DEF Loaded, Settle
  <2>4. Mine /\ p \in used' /\ FileInPlace' => LonePlace(p)'
    BY <1>1, <2>1, <2>3 DEF LonePlace, FileInPlace, files
  <2> QED BY <1>1, <1>2, <2>1, <2>2, <2>4, LoneOwn
<1> QED BY <1>3, <1>4, <1>5, <1>6, <1>7 DEF DeinitializeOls

(* Opening and installing.                                                 *)
LEMMA LoneInstalls ==
    ASSUME RingInv, LoneInv, NEW p \in Client,
           \/ Initialize(p) \/ Opened(p) \/ InstallDriver(p) \/ StartDriver(p)
           \/ Reopen(p)
    PROVE  LoneInv'
<1>1. /\ TypeOK /\ pc \in [Process -> PcValues] /\ p \in Process
      /\ plan \in [Client -> Plans] /\ p \notin Tool
      /\ svc \in {"absent", "stopped", "running", "stopping"}
  BY WinRingAssumption DEF RingInv, TypeOK, Process
<1> DEFINE Mine == /\ NoOne(p) /\ p \in alone /\ svc # "stopping"
                   /\ p \in used /\ FileInPlace => LonePlace(p)
<1>2. NoOne(p) /\ p \in alone /\ svc # "stopping" => Mine
  BY DEF LoneInv
<1>3. CASE Initialize(p)
  <2>1. /\ pc[p] = "open" /\ UNCHANGED <<alone, used, svc, files>>
        /\ FileInPlace =>
             \/ pc' = [pc EXCEPT ![p] = "opening"]
             \/ /\ pc' = [pc EXCEPT ![p] = "query"]
                /\ plan' = [plan EXCEPT ![p] = "before"] /\ try' = try
    BY <1>3 DEF Initialize
  <2>2. FileInPlace' <=> FileInPlace
    BY <2>1 DEF FileInPlace, files
  <2>3. PICK v : v # "absent" /\ pc' = [pc EXCEPT ![p] = v]
    BY <1>3 DEF Initialize, TryAgain
  <2>4. Mine /\ p \in used' /\ FileInPlace' => LonePlace(p)'
    BY <1>1, <2>1, <2>2 DEF LonePlace, Again
  <2> QED BY <1>1, <1>2, <2>1, <2>3, <2>4, LoneOwn
<1>4. CASE Opened(p)
  <2>1. /\ pc[p] = "opening" /\ pc' = [pc EXCEPT ![p] = "ready"]
        /\ alone' = alone /\ svc' = svc
    BY <1>4 DEF Opened, scm
  <2>2. LonePlace(p)'
    BY <1>1, <2>1 DEF LonePlace
  <2> QED BY <1>1, <2>1, <2>2, LoneOwn
<1>5. CASE InstallDriver(p)
  <2>0. marked \in BOOLEAN
    BY DEF RingInv, TypeOK
  <2>1. /\ pc[p] = "create" /\ UNCHANGED <<alone, used, files, try>>
        /\ \/ pc' = [pc EXCEPT ![p] = "query"]
           \/ pc' = [pc EXCEPT ![p] = "start"] /\ marked = FALSE
        /\ svc' = IF svc = "absent" THEN "stopped" ELSE svc
    BY <1>5, <2>0 DEF InstallDriver
  <2>2. Mine /\ p \in used' /\ FileInPlace' => LonePlace(p)'
    <3>1. SUFFICES ASSUME Mine, p \in used', FileInPlace'
                   PROVE  LonePlace(p)'
      OBVIOUS
    <3>2. /\ Down /\ (Again(p) => marked = TRUE)
          /\ (Again(p)' <=> Again(p))
      BY <2>1, <3>1 DEF LonePlace, Again, FileInPlace, files
    <3>3. svc' = "stopped"
      BY <2>1, <3>2 DEF Down
    <3>4. \/ pc'[p] = "query"
          \/ pc'[p] = "start" /\ ~ Again(p)'
      BY <1>1, <2>1, <3>2
    <3> QED BY <3>3, <3>4 DEF LonePlace
  <2>3. PICK v : v # "absent" /\ pc' = [pc EXCEPT ![p] = v]
    BY <2>1
  <2>4. svc # "stopping" => svc' # "stopping"
    BY <2>1
  <2> QED BY <1>1, <1>2, <2>1, <2>2, <2>3, <2>4, LoneOwn
<1>6. CASE StartDriver(p)
  <2>1. /\ pc[p] = "start" /\ UNCHANGED <<alone, used, files, try>>
        /\ \/ pc' = [pc EXCEPT ![p] = "reopen"] /\ svc' = "running"
           \/ pc' = [pc EXCEPT ![p] = "query"] /\ svc' = svc
    BY <1>6 DEF StartDriver
  <2>2. Mine /\ p \in used' /\ FileInPlace' => LonePlace(p)'
    BY <1>1, <2>1 DEF LonePlace, Again, FileInPlace, files
  <2>3. PICK v : v # "absent" /\ pc' = [pc EXCEPT ![p] = v]
    BY <2>1
  <2>4. svc # "stopping" => svc' # "stopping"
    BY <2>1
  <2> QED BY <1>1, <1>2, <2>1, <2>2, <2>3, <2>4, LoneOwn
<1>7. CASE Reopen(p)
  <2>1. pc[p] = "reopen" /\ UNCHANGED <<alone, used, svc, files>>
    BY <1>7 DEF Reopen
  <2>2. Mine /\ p \in used' /\ FileInPlace' => LonePlace(p)'
    <3>1. SUFFICES ASSUME Mine, p \in used', FileInPlace'
                   PROVE  LonePlace(p)'
      OBVIOUS
    <3>2. svc = "running" /\ ~ Again(p)
      BY <2>1, <3>1 DEF LonePlace, FileInPlace, files
    <3>3. try[p] < Tries
      BY <1>1, <3>2, WinRingAssumption DEF Again, TypeOK
    <3>4. \/ pc' = [pc EXCEPT ![p] = "opening"]
          \/ pc' = [pc EXCEPT ![p] = "open"]
      BY <1>7, <3>3 DEF Reopen, TryAgain
    <3>5. svc' = "running" /\ pc'[p] \in {"opening", "open"}
      BY <1>1, <2>1, <3>2, <3>4
    <3> QED BY <3>5 DEF LonePlace
  <2>3. PICK v : v # "absent" /\ pc' = [pc EXCEPT ![p] = v]
    BY <1>7 DEF Reopen, TryAgain
  <2> QED BY <1>1, <1>2, <2>1, <2>2, <2>3, LoneOwn
<1> QED BY <1>3, <1>4, <1>5, <1>6, <1>7

(* Stopping and deleting the service.                                      *)
LEMMA LoneRemoves ==
    ASSUME RingInv, PinsInv, LoneInv, NEW p \in Client,
           IsSystemInstallDriver(p) \/ StopDriver(p) \/ RemoveDriver(p)
    PROVE  LoneInv'
<1>1. /\ TypeOK /\ pc \in [Process -> PcValues] /\ p \in Process
      /\ plan \in [Client -> Plans] /\ p \notin Tool
      /\ svc \in {"absent", "stopped", "running", "stopping"}
  BY WinRingAssumption DEF RingInv, TypeOK, Process
<1> DEFINE Mine == /\ NoOne(p) /\ p \in alone /\ svc # "stopping"
                   /\ p \in used /\ FileInPlace => LonePlace(p)
<1>2. NoOne(p) /\ p \in alone /\ svc # "stopping" => Mine
  BY DEF LoneInv
<1>3. CASE IsSystemInstallDriver(p)
  <2>1. /\ pc[p] = "query" /\ pc' = [pc EXCEPT ![p] = "stop"]
        /\ UNCHANGED <<alone, used, files, svc, try, plan>>
        /\ pins' = IF svc = "absent" THEN pins ELSE pins \cup {p}
    BY <1>3 DEF IsSystemInstallDriver
  <2>2. Mine /\ p \in used' /\ FileInPlace' => LonePlace(p)'
    BY <1>1, <2>1 DEF LonePlace, Again, FileInPlace, files
  <2> QED BY <1>1, <1>2, <2>1, <2>2, LoneOwn
<1>4. CASE StopDriver(p)
  <2>1. /\ pc[p] = "stop" /\ pc' = [pc EXCEPT ![p] = "delete"]
        /\ UNCHANGED <<alone, used, files, pins, handles, try, plan>>
        /\ svc' = IF svc # "running" THEN svc
                  ELSE IF handles # {} THEN "stopping"
                  ELSE Settled(marked, pins)
    BY <1>4 DEF StopDriver
  <2>2. NoOne(p) => handles = {}
    <3>1. p \notin handles
      BY <1>1, <2>1 DEF RingInv, Follows, Holding
    <3> QED BY <3>1, LoneFacts
  <2>3. NoOne(p) /\ svc # "stopping" => Down'
    BY <1>1, <2>1, <2>2 DEF Down, Settled
  <2>4. Mine /\ p \in used' /\ FileInPlace' => LonePlace(p)'
    <3>1. SUFFICES ASSUME Mine, p \in used', FileInPlace'
                   PROVE  LonePlace(p)'
      OBVIOUS
    <3>2. svc # "absent" => p \in pins
      BY <2>1, <3>1 DEF LonePlace, FileInPlace, files
    <3>3. svc' # "absent" => p \in pins'
      BY <2>1, <3>2
    <3>4. svc # "absent" => svc' # "absent"
      BY <2>1, <3>2 DEF Settled
    <3>5. Again(p) \/ plan[p] = "after" => svc # "absent"
      BY <2>1, <3>1 DEF LonePlace, FileInPlace, files
    <3>6. (Again(p)' <=> Again(p)) /\ plan'[p] = plan[p] /\ pc'[p] = "delete"
      BY <1>1, <2>1 DEF Again
    <3> QED BY <2>3, <3>1, <3>3, <3>4, <3>5, <3>6 DEF LonePlace
  <2> QED BY <1>1, <1>2, <2>1, <2>3, <2>4, LoneOwn DEF Down
<1>5. CASE RemoveDriver(p)
  <2>1. /\ pc[p] = "delete" /\ UNCHANGED <<alone, used, files, pins, handles>>
        /\ IF svc = "absent" THEN UNCHANGED <<svc, marked>>
                             ELSE Settle(TRUE, handles, pins)
    BY <1>5 DEF RemoveDriver
  <2>2. PICK v \in {"create", "open", "failed", "loaded"} :
          pc' = [pc EXCEPT ![p] = v]
    BY <1>5 DEF RemoveDriver, TryAgain
  <2>3. svc # "stopping" => svc' # "stopping"
    BY <2>1 DEF Settle, Settled
  <2>4. Mine /\ p \in used' /\ FileInPlace' => LonePlace(p)'
    <3>1. SUFFICES ASSUME Mine, p \in used', FileInPlace'
                   PROVE  LonePlace(p)'
      OBVIOUS
    <3>2. svc = "absent" \/ (svc = "stopped" /\ p \in pins)
      BY <2>1, <3>1 DEF LonePlace, Down, FileInPlace, files
    <3>3. Clear' /\ Down'
      BY <2>1, <3>2 DEF Clear, Down, Settle, Settled
    <3>4. svc # "absent" => svc' # "absent" /\ marked' = TRUE
      BY <2>1, <3>2 DEF Settle, Settled
    <3>5. Again(p) \/ plan[p] = "after" => svc # "absent"
      BY <2>1, <3>1 DEF LonePlace, FileInPlace, files
    <3>6. pc'[p] = v
      BY <1>1, <2>2
    <3>7. CASE plan[p] = "before" /\ try' = try
      <4>1. Again(p)' <=> Again(p)
        BY <3>7 DEF Again
      <4>2. v = "create"
        BY <1>1, <1>5, <3>6, <3>7 DEF RemoveDriver
      <4> QED BY <3>3, <3>4, <3>5, <3>6, <4>1, <4>2 DEF LonePlace
    <3>8. CASE plan[p] = "after" /\ TryAgain(p)
      <4>1. pc'[p] \in {"open", "failed"}
        BY <1>1, <3>8 DEF TryAgain
      <4>2. svc' # "absent"
        BY <3>4, <3>5, <3>8
      <4> QED BY <3>3, <4>1, <4>2 DEF LonePlace
    <3>9. CASE pc' = [pc EXCEPT ![p] = "loaded"]
      <4>1. pc'[p] = "loaded"
        BY <1>1, <3>9
      <4> QED BY <3>3, <4>1 DEF LonePlace
    <3> QED BY <1>5, <3>7, <3>8, <3>9 DEF RemoveDriver
  <2> QED BY <1>1, <1>2, <2>1, <2>2, <2>3, <2>4, LoneOwn
<1> QED BY <1>3, <1>4, <1>5

LEMMA LoneStep ==
    /\ RingInv /\ PinsInv /\ UsedInv /\ LoneInv /\ [Next]_vars
    => LoneInv'
<1> SUFFICES ASSUME RingInv, PinsInv, UsedInv, LoneInv, [Next]_vars
             PROVE  LoneInv'
  OBVIOUS
<1>1. CASE UNCHANGED vars
  BY <1>1 DEF vars, scm, hist, files, LoneInv, LonePlace, Again, Clear, Down,
     NoOne, FileInPlace
<1>2. ASSUME NEW p \in Process,
             \/ Load(p) \/ Unload(p) \/ InitializeOls(p) \/ DeinitializeOls(p)
             \/ ToolOpen(p) \/ ToolClose(p)
             \/ p \in Client /\ Kill(p)
             \/ Step(p)
      PROVE  LoneInv'
  <2>1. p \in Client \/ p \in Tool
    BY DEF Process
  <2>2. CASE Load(p) \/ Unload(p) \/ ToolOpen(p) \/ ToolClose(p)
    BY <2>2, LoneComesAndGoes
  <2>3. CASE p \in Client /\ Kill(p)
    BY <2>3, LoneComesAndGoes
  <2>4. CASE Step(p) /\ p \in Tool
    <3>1. pc[p] \in ToolPc
      BY <2>4 DEF RingInv, Follows
    <3>2. Opened(p) \/ Closed(p)
      BY <2>4, <3>1 DEF Step, ToolPc, Initialize, InstallDriver, StartDriver,
         Reopen, IsSystemInstallDriver, StopDriver, RemoveDriver, CloseDevice
    <3> QED BY <2>4, <3>2, LoneComesAndGoes
  <2>5. CASE InitializeOls(p) \/ DeinitializeOls(p)
    BY <2>5, LoneCalls DEF InitializeOls, DeinitializeOls
  <2>6. CASE Step(p) /\ p \in Client
    BY <2>6, LoneCalls, LoneInstalls, LoneRemoves DEF Step
  <2> QED BY <1>2, <2>1, <2>2, <2>3, <2>4, <2>5, <2>6
<1> QED BY <1>1, <1>2 DEF Next

(* A client that has called the library while nobody else ran leaves       *)
(* nothing behind, whatever earlier processes left, as long as the         *)
(* driver's count has not lost an update and the driver file is there.     *)
THEOREM RingLoneClientCleansUp == Spec => LoneClientCleansUp
<1>1. RingInv /\ PinsInv /\ LoneInv =>
        \A p \in Client :
          /\ Unload(p)
          /\ p \in alone \cap used
          /\ FileInPlace
          /\ ~ raced
          => svc' = "absent"
  <2> SUFFICES ASSUME RingInv, PinsInv, LoneInv, NEW p \in Client, Unload(p),
                      p \in alone, p \in used, FileInPlace, ~ raced
               PROVE  svc' = "absent"
    OBVIOUS
  <2>1. /\ pc[p] = "loaded" /\ pins' = pins \ {p}
        /\ Settle(marked, handles, pins')
    BY DEF Unload
  <2>2. NoOne(p) /\ LonePlace(p)
    BY DEF LoneInv
  <2>3. Clear
    BY <2>1, <2>2 DEF LonePlace
  <2>4. pins' = {}
    BY <2>1, <2>2, LoneFacts
  <2> QED BY <2>1, <2>3, <2>4 DEF Clear, Settle, Settled
<1>2. RingInv => TypeOK
  BY DEF RingInv
<1> QED
  BY <1>1, <1>2, RingInitial, RingStep, PinsInitial, PinsStep, LoneInitial,
     UsedStep, LoneStep, PTL DEF Spec, LoneClientCleansUp

-----------------------------------------------------------------------------
(* How long a call takes.                                                  *)

(* A bound on the steps still to come at place c with plan l: an attempt   *)
(* opens, removes, installs and reopens, and removes again if that failed; *)
(* the end of the library asks, closes and removes.                        *)
RemovalLeft(l) == IF l = "before" THEN 9 ELSE IF l = "after" THEN 4 ELSE 1

PlaceLeft(c, l) ==
    IF c = "open" THEN 12
    ELSE IF c = "query" THEN RemovalLeft(l) + 2
    ELSE IF c = "stop" THEN RemovalLeft(l) + 1
    ELSE IF c = "delete" THEN RemovalLeft(l)
    ELSE IF c = "create" THEN 8
    ELSE IF c = "start" THEN 7
    ELSE IF c = "reopen" \/ c = "counted" THEN 5
    ELSE IF c = "opening" \/ c = "closing" THEN 4
    ELSE 0

(* The places of an attempt of InitializeOls, with others to come.         *)
Attempting(c, l) == \/ c \in {"open", "create", "start", "reopen"}
                    \/ c \in {"query", "stop", "delete"} /\ l \in {"before", "after"}

CallLeft(p) ==
    IF p \in Tool THEN (IF pc[p] \in {"opening", "closing"} THEN 1 ELSE 0)
    ELSE (IF Attempting(pc[p], plan[p]) THEN 12 * (Tries - try[p]) ELSE 0)
         + PlaceLeft(pc[p], plan[p])

(* A call that begins.                                                     *)
Calls(p) == \/ InitializeOls(p) \/ DeinitializeOls(p)
            \/ ToolOpen(p) \/ ToolClose(p)

(* A call of InitializeOls returns after at most 12 of its own steps for   *)
(* each attempt, DeinitializeOls after five; each step brings the return   *)
(* nearer, and nobody else, with a driver taken away or put back, puts it  *)
(* off.                                                                    *)
CallsRunDown ==
    \A p \in Process :
        /\ InitializeOls(p) => CallLeft(p)' = 12 * Tries
        /\ DeinitializeOls(p) => CallLeft(p)' <= 5
        /\ Step(p) => CallLeft(p)' < CallLeft(p)
        /\ ~ Calls(p) => CallLeft(p)' <= CallLeft(p)

CallIsCounted == \A p \in Process : CallLeft(p) \in Nat

LEMMA CallIsNumber == TypeOK => CallIsCounted
<1> SUFFICES ASSUME TypeOK, NEW p \in Process PROVE CallLeft(p) \in Nat
  BY DEF CallIsCounted
<1>1. PlaceLeft(pc[p], plan[p]) \in Nat
  BY DEF PlaceLeft, RemovalLeft
<1>2. p \in Tool \/ (try[p] \in 0..Tries /\ Tries \in Nat)
  BY WinRingAssumption DEF TypeOK, Process
<1> QED BY <1>1, <1>2 DEF CallLeft

(* A process that keeps its place keeps what is left.                      *)
LEMMA SamePlace ==
    ASSUME TypeOK, NEW p \in Process, pc'[p] = pc[p],
           p \in Client => plan'[p] = plan[p] /\ try'[p] = try[p]
    PROVE  CallLeft(p)' <= CallLeft(p)
<1>1. CallLeft(p) \in Nat
  BY CallIsNumber DEF CallIsCounted
<1>2. CallLeft(p)' = CallLeft(p)
  BY DEF CallLeft, Process
<1> QED BY <1>1, <1>2

(* Steps of one process leave the places of all others alone.              *)
LEMMA PlacesAreOwn ==
    ASSUME TypeOK, NEW p \in Process, NEW q \in Process, q # p,
           \/ Load(p) \/ Unload(p) \/ InitializeOls(p) \/ DeinitializeOls(p)
           \/ ToolOpen(p) \/ ToolClose(p)
           \/ p \in Client /\ Kill(p)
           \/ Step(p)
    PROVE  pc'[q] = pc[q] /\ (q \in Client => plan'[q] = plan[q] /\ try'[q] = try[q])
<1> USE DEF TypeOK, TryAgain
<1>1. CASE Load(p) \/ Unload(p) \/ InitializeOls(p) \/ DeinitializeOls(p)
  BY <1>1 DEF Load, Unload, InitializeOls, DeinitializeOls
<1>2. CASE ToolOpen(p) \/ ToolClose(p) \/ (p \in Client /\ Kill(p))
  BY <1>2 DEF ToolOpen, ToolClose, Kill
<1>3. CASE Step(p)
  <2>1. CASE Initialize(p) \/ Opened(p) \/ Reopen(p)
    BY <2>1 DEF Initialize, Opened, Reopen
  <2>2. CASE InstallDriver(p) \/ StartDriver(p)
    BY <2>2 DEF InstallDriver, StartDriver
  <2>3. CASE IsSystemInstallDriver(p) \/ StopDriver(p) \/ RemoveDriver(p)
    BY <2>3 DEF IsSystemInstallDriver, StopDriver, RemoveDriver
  <2>4. CASE CloseDevice(p) \/ Closed(p)
    BY <2>4 DEF CloseDevice, Closed
  <2> QED BY <1>3, <2>1, <2>2, <2>3, <2>4 DEF Step
<1> QED BY <1>1, <1>2, <1>3

(* The next attempt, or none: either takes fewer steps than any place of   *)
(* the attempt that failed.                                                *)
LEMMA NextAttempt ==
    ASSUME TypeOK, NEW p \in Client, TryAgain(p),
           Attempting(pc[p], plan[p]),
           plan'[p] = plan[p] \/ pc[p] = "delete"
    PROVE  CallLeft(p)' < CallLeft(p)
<1>1. /\ p \notin Tool /\ pc \in [Process -> PcValues] /\ p \in Process
      /\ try \in [Client -> 0..Tries] /\ Tries \in Nat /\ try[p] \in 0..Tries
  BY WinRingAssumption DEF TypeOK, Process
<1>2. CallLeft(p) = 12 * (Tries - try[p]) + PlaceLeft(pc[p], plan[p])
  BY <1>1 DEF CallLeft
<1>3. PlaceLeft(pc[p], plan[p]) \in Nat /\ PlaceLeft(pc[p], plan[p]) >= 4
  BY DEF Attempting, PlaceLeft, RemovalLeft
<1>4. CASE try[p] < Tries
  <2>1. pc'[p] = "open" /\ try'[p] = try[p] + 1
    BY <1>1, <1>4 DEF TryAgain
  <2>2. CallLeft(p)' = 12 * (Tries - (try[p] + 1)) + 12
    BY <1>1, <2>1 DEF CallLeft, Attempting, PlaceLeft
  <2> QED BY <1>1, <1>2, <1>3, <2>2
<1>5. CASE ~ (try[p] < Tries)
  <2>1. pc'[p] = "failed"
    BY <1>1, <1>5 DEF TryAgain
  <2>2. CallLeft(p)' = 0
    BY <1>1, <2>1 DEF CallLeft, Attempting, PlaceLeft
  <2> QED BY <1>1, <1>2, <1>3, <2>2
<1> QED BY <1>4, <1>5

(* One step of InitializeOls or DeinitializeOls that stays in its attempt: *)
(* the place is further down.                                              *)
LEMMA FurtherDown ==
    ASSUME TypeOK, NEW p \in Client, try'[p] \in Int,
           try'[p] = try[p] \/ ~ Attempting(pc'[p], plan'[p]),
           Attempting(pc'[p], plan'[p]) => Attempting(pc[p], plan[p]),
           PlaceLeft(pc'[p], plan'[p]) < PlaceLeft(pc[p], plan[p])
    PROVE  CallLeft(p)' < CallLeft(p)
<1>1. /\ p \notin Tool /\ Tries \in Nat /\ try[p] \in 0..Tries
  BY WinRingAssumption DEF TypeOK
<1>2. /\ PlaceLeft(pc[p], plan[p]) \in Nat
      /\ PlaceLeft(pc'[p], plan'[p]) \in Nat
  BY DEF PlaceLeft, RemovalLeft
<1>3. CallLeft(p) = (IF Attempting(pc[p], plan[p]) THEN 12 * (Tries - try[p]) ELSE 0)
                    + PlaceLeft(pc[p], plan[p])
  BY <1>1 DEF CallLeft
<1>4. CallLeft(p)' = (IF Attempting(pc'[p], plan'[p]) THEN 12 * (Tries - try'[p]) ELSE 0)
                     + PlaceLeft(pc'[p], plan'[p])
  BY <1>1 DEF CallLeft
<1>5. CASE Attempting(pc'[p], plan'[p])
  BY <1>1, <1>2, <1>3, <1>4, <1>5
<1>6. CASE ~ Attempting(pc'[p], plan'[p])
  BY <1>1, <1>2, <1>3, <1>4, <1>6
<1> QED BY <1>5, <1>6

LEMMA StepRunsDown ==
    ASSUME TypeOK, Follows, NEW p \in Process, Step(p)
    PROVE  CallLeft(p)' < CallLeft(p)
<1> USE DEF TypeOK
<1>1. CASE p \in Tool
  <2>1. pc[p] \in ToolPc /\ p \notin Client
    BY <1>1, WinRingAssumption DEF Follows
  <2>2. Opened(p) \/ Closed(p)
    BY <2>1 DEF Step, ToolPc, Initialize, InstallDriver, StartDriver, Reopen,
       IsSystemInstallDriver, StopDriver, RemoveDriver, CloseDevice
  <2>3. /\ pc[p] \in {"opening", "closing"}
        /\ pc'[p] \in {"ready", "absent"}
    BY <1>1, <2>2 DEF Opened, Closed
  <2> QED BY <1>1, <2>3 DEF CallLeft
<1>2. CASE p \in Client
  <2>1. p \notin Tool /\ Tries \in Nat /\ try[p] \in 0..Tries
    BY <1>2, WinRingAssumption
  <2> USE DEF Attempting, PlaceLeft, RemovalLeft
  <2>2. ASSUME OpenDevice(p), pc' = [pc EXCEPT ![p] = "opening"],
               pc[p] \in {"open", "reopen"}, UNCHANGED <<try, plan>>
        PROVE  CallLeft(p)' < CallLeft(p)
    BY <1>2, <2>1, <2>2, FurtherDown
  <2>3. CASE Initialize(p)
    <3>1. CASE TryAgain(p) /\ UNCHANGED plan
      BY <1>2, <2>3, <3>1, NextAttempt DEF Initialize
    <3>2. CASE OpenDevice(p) /\ pc' = [pc EXCEPT ![p] = "opening"] /\ UNCHANGED <<try, plan>>
      BY <2>2, <2>3, <3>2 DEF Initialize
    <3>3. CASE /\ pc' = [pc EXCEPT ![p] = "query"]
               /\ plan' = [plan EXCEPT ![p] = "before"] /\ UNCHANGED try
      <4>1. pc[p] = "open" /\ pc'[p] = "query" /\ plan'[p] = "before" /\ try'[p] = try[p]
        BY <1>2, <2>3, <3>3 DEF Initialize
      <4> QED BY <1>2, <2>1, <4>1, FurtherDown
    <3> QED BY <2>3, <3>1, <3>2, <3>3 DEF Initialize
  <2>4. CASE Opened(p)
    <3>1. pc[p] = "opening" /\ pc'[p] = "ready" /\ try'[p] = 0
      BY <1>2, <2>4 DEF Opened
    <3> QED BY <1>2, <2>1, <3>1, FurtherDown
  <2>5. CASE InstallDriver(p)
    <3>1. /\ pc[p] = "create" /\ try'[p] = try[p]
          /\ \/ pc'[p] = "query" /\ plan'[p] = "after"
             \/ pc'[p] = "start"
      BY <1>2, <2>5 DEF InstallDriver
    <3> QED BY <1>2, <2>1, <3>1, FurtherDown
  <2>6. CASE StartDriver(p)
    <3>1. /\ pc[p] = "start" /\ try'[p] = try[p]
          /\ \/ pc'[p] = "query" /\ plan'[p] = "after"
             \/ pc'[p] = "reopen"
      BY <1>2, <2>6 DEF StartDriver
    <3> QED BY <1>2, <2>1, <3>1, FurtherDown
  <2>7. CASE Reopen(p)
    <3>1. CASE TryAgain(p)
      BY <1>2, <2>7, <3>1, NextAttempt DEF Reopen
    <3>2. CASE OpenDevice(p) /\ pc' = [pc EXCEPT ![p] = "opening"] /\ UNCHANGED try
      BY <2>2, <2>7, <3>2 DEF Reopen
    <3> QED BY <2>7, <3>1, <3>2 DEF Reopen
  <2>8. CASE IsSystemInstallDriver(p)
    <3>1. /\ pc[p] = "query" /\ pc'[p] = "stop"
          /\ try'[p] = try[p] /\ plan'[p] = plan[p]
      BY <1>2, <2>8 DEF IsSystemInstallDriver
    <3> QED BY <1>2, <2>1, <3>1, FurtherDown
  <2>9. CASE StopDriver(p)
    <3>1. /\ pc[p] = "stop" /\ pc'[p] = "delete"
          /\ try'[p] = try[p] /\ plan'[p] = plan[p]
      BY <1>2, <2>9 DEF StopDriver
    <3> QED BY <1>2, <2>1, <3>1, FurtherDown
  <2>10. CASE RemoveDriver(p)
    <3>1. pc[p] = "delete"
      BY <2>10 DEF RemoveDriver
    <3>2. CASE plan[p] = "after" /\ TryAgain(p)
      BY <1>2, <3>1, <3>2, NextAttempt
    <3>3. CASE /\ try' = try
               /\ \/ plan[p] = "before" /\ pc' = [pc EXCEPT ![p] = "create"]
                  \/ plan[p] = "last" /\ pc' = [pc EXCEPT ![p] = "loaded"]
      <4>1. /\ try'[p] = try[p]
            /\ \/ plan[p] = "before" /\ pc'[p] = "create"
               \/ plan[p] = "last" /\ pc'[p] = "loaded"
        BY <1>2, <3>3
      <4> QED BY <1>2, <2>1, <3>1, <4>1, FurtherDown
    <3> QED BY <2>10, <3>2, <3>3 DEF RemoveDriver
  <2>11. CASE CloseDevice(p)
    <3>1. /\ pc[p] = "counted" /\ pc'[p] = "closing"
          /\ try'[p] = try[p] /\ plan'[p] = plan[p]
      BY <1>2, <2>11 DEF CloseDevice
    <3> QED BY <1>2, <2>1, <3>1, FurtherDown
  <2>12. CASE Closed(p)
    <3>1. /\ pc[p] = "closing" /\ try'[p] = try[p] /\ plan'[p] = plan[p]
          /\ \/ plan[p] = "last" /\ pc'[p] = "query"
             \/ pc'[p] = "loaded"
      BY <1>2, <2>1, <2>12 DEF Closed
    <3> QED BY <1>2, <2>1, <3>1, FurtherDown
  <2> QED
    BY <2>3, <2>4, <2>5, <2>6, <2>7, <2>8, <2>9, <2>10, <2>11, <2>12 DEF Step
<1> QED BY <1>1, <1>2 DEF Process

(* Coming, going and the calls themselves.                                 *)
LEMMA CallBegins ==
    ASSUME TypeOK, NEW p \in Process
    PROVE  /\ InitializeOls(p) => CallLeft(p)' = 12 * Tries
           /\ DeinitializeOls(p) => CallLeft(p)' <= 5
           /\ Load(p) \/ Unload(p) \/ (p \in Client /\ Kill(p)) => CallLeft(p)' = 0
<1> USE DEF TypeOK, Attempting, PlaceLeft
<1>0. p \in Client => p \notin Tool
  BY WinRingAssumption
<1>1. ASSUME InitializeOls(p) PROVE CallLeft(p)' = 12 * Tries
  <2>1. p \in Client /\ pc'[p] = "open" /\ try'[p] = 1
    BY <1>1 DEF InitializeOls
  <2>2. CallLeft(p)' = 12 * (Tries - 1) + 12
    BY <1>0, <2>1 DEF CallLeft
  <2> QED BY <2>2, WinRingAssumption
<1>2. ASSUME DeinitializeOls(p) PROVE CallLeft(p)' <= 5
  <2>1. p \in Client /\ pc'[p] \in {"counted", "loaded"}
    BY <1>2 DEF DeinitializeOls
  <2> QED BY <1>0, <2>1 DEF CallLeft
<1>3. ASSUME Load(p) \/ Unload(p) \/ (p \in Client /\ Kill(p))
      PROVE  CallLeft(p)' = 0
  <2>1. p \in Client /\ pc'[p] \in {"loaded", "absent"}
    BY <1>3 DEF Load, Unload, Kill
  <2> QED BY <1>0, <2>1 DEF CallLeft
<1> QED BY <1>1, <1>2, <1>3

(* Every call of the library that is given its turns returns: Initialize   *)
(* and Deinitialize (OlsApiInit.h, OlsDll.cpp, Driver.cpp), for any number *)
(* of clients and tools around it and any number of attempts.              *)
THEOREM RingCallsRunDown == Spec => []CallIsCounted /\ [][CallsRunDown]_vars
<1>1. RingInv => CallIsCounted
  BY CallIsNumber DEF RingInv
<1>2. RingInv /\ [Next]_vars => [CallsRunDown]_vars
  <2> SUFFICES ASSUME RingInv, Next, NEW q \in Process
               PROVE  /\ InitializeOls(q) => CallLeft(q)' = 12 * Tries
                      /\ DeinitializeOls(q) => CallLeft(q)' <= 5
                      /\ Step(q) => CallLeft(q)' < CallLeft(q)
                      /\ ~ Calls(q) => CallLeft(q)' <= CallLeft(q)
    BY DEF CallsRunDown
  <2>1. TypeOK /\ Follows /\ CallLeft(q) \in Nat
    BY <1>1 DEF RingInv, CallIsCounted
  <2>2. Step(q) => CallLeft(q)' < CallLeft(q)
    BY <2>1, StepRunsDown
  <2>3. /\ InitializeOls(q) => CallLeft(q)' = 12 * Tries
        /\ DeinitializeOls(q) => CallLeft(q)' <= 5
        /\ Load(q) \/ Unload(q) \/ (q \in Client /\ Kill(q)) => CallLeft(q)' = 0
    BY <2>1, CallBegins
  <2>4. PICK p \in Process :
          \/ Load(p) \/ Unload(p) \/ InitializeOls(p) \/ DeinitializeOls(p)
          \/ ToolOpen(p) \/ ToolClose(p)
          \/ p \in Client /\ Kill(p)
          \/ Step(p)
    BY DEF Next
  <2>5. ASSUME ~ Calls(q) PROVE CallLeft(q)' <= CallLeft(q)
    <3>1. CASE q # p
      BY <2>1, <2>4, <3>1, PlacesAreOwn, SamePlace
    <3>2. CASE q = p /\ Step(q)
      <4>1. CallLeft(q)' \in Int
        <5>1. TypeOK'
          BY RingStep DEF RingInv
        <5>2. CallIsCounted'
          BY <5>1, CallIsNumber, PTL
        <5> QED BY <5>2 DEF CallIsCounted
      <4> QED BY <2>1, <2>2, <3>2, <4>1
    <3>3. CASE q = p /\ ~ Step(q)
      BY <2>1, <2>3, <2>4, <2>5, <3>3 DEF Calls
    <3> QED BY <3>1, <3>2, <3>3
  <2> QED BY <2>2, <2>3, <2>5
<1> QED BY <1>1, <1>2, RingInitial, RingStep, PTL DEF Spec
=============================================================================
