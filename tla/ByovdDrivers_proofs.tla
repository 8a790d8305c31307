------------------------- MODULE ByovdDrivers_proofs -------------------------
(* Theorems about ByovdDrivers, for every set of processes and every       *)
(* driver strategy.                                                        *)
EXTENDS ByovdDrivers, Integers, TLAPS

LEMMA ScmInitTypeOK == Init => TypeOK
  BY ProcessesAreDisjoint
     DEF Init, TypeOK, ScmInit, ScmTypeOK, Drv, SvcState, PC, First

(* Closing handles keeps the service control state well typed.             *)
LEMMA CloseHandlesType ==
    ASSUME TypeOK, NEW p \in Proc, CloseHandles(p), UNCHANGED files
    PROVE  ScmTypeOK'
  BY DEF TypeOK, ScmTypeOK, CloseHandles, Unloaded, SvcState, Drv

(* So do the sc.exe calls.                                                 *)
LEMMA ScCallsType ==
    ASSUME TypeOK, NEW d \in Drv,
           \/ ScCreate(d) \/ ScStart(d) \/ ScStop(d) \/ ScDelete(d),
           UNCHANGED <<files, handles>>
    PROVE  ScmTypeOK'
<1> USE DEF TypeOK, ScmTypeOK, SvcState
<1>1. CASE ScCreate(d) \/ ScStart(d)
  BY <1>1 DEF ScCreate, ScStart
<1>2. CASE ScStop(d)
  BY <1>2 DEF ScStop, Unloaded
<1>3. CASE ScDelete(d)
  BY <1>3 DEF ScDelete
<1> QED BY <1>1, <1>2, <1>3

(* The loop step keeps pc and cur well typed.                              *)
LEMMA ForNextType ==
    ASSUME TypeOK, NEW p \in Proc, NEW a \in PC, NEW b \in PC, ForNext(p, a, b)
    PROVE  pc' \in [Proc -> PC] /\ cur' \in [Proc -> Drv]
  BY DEF TypeOK, ForNext, Go, SetCur, First, Last, Drv

LEMMA LabelsArePC ==
    /\ \A p \in Proc : Loaders(p) \in PC /\ AfterLoading(p) \in PC
                        /\ AfterCleanup(p) \in PC
    /\ Session \cup CheckSteps \cup {"idle", "returned"} = PC
  BY DEF Loaders, AfterLoading, AfterCleanup, PC, Session, Loading, Using,
         Cleaning, CheckSteps

(* Every step of every process keeps the state well typed.                 *)
LEMMA TypeStep == TypeOK /\ [Next]_vars => TypeOK'
<1> SUFFICES ASSUME TypeOK, [Next]_vars PROVE TypeOK'
  OBVIOUS
<1> USE ProcessesAreDisjoint, LongLivedAreGen2
<1>0. /\ resident' \in BOOLEAN /\ app' \in BOOLEAN
      /\ met' \subseteq Admin /\ late' \subseteq Proc /\ orphaned' \subseteq Drv
  BY DEF TypeOK, Next, Meanwhile, Record, AppStarts, vars, settings, history
<1> USE <1>0
<1>1. ASSUME NEW p \in Gen2, Gen2Call(p) PROVE TypeOK'
  BY <1>1 DEF Gen2Call, Acquire, AcquireBypass, Go, TypeOK,
     ScmTypeOK, PC, Session, Loading, Using, Cleaning
<1>2. ASSUME NEW p \in Gen2, Stat(p) PROVE TypeOK'
  <2>1. "stat" \in PC /\ "query" \in PC
    BY DEF PC, Session, Loading
  <2>2. pc' \in [Proc -> PC] /\ cur' \in [Proc -> Drv]
    BY <1>2, <2>1, ForNextType DEF Stat
  <2> QED
    BY <1>2, <2>2 DEF Stat, WriteFile, TypeOK, ScmTypeOK
<1>3. ASSUME NEW p \in Proc, Load(p) PROVE TypeOK'
  <2>1. CASE Query(p)
    <3>1. pc' \in [Proc -> PC] /\ cur' \in [Proc -> Drv]
      <4>1. "query" \in PC /\ "openTS" \in PC /\ "redeploy" \in PC
        BY DEF PC, Session, Loading, Using
      <4>2. CASE svc[cur[p]] = "running"
        BY <2>1, <4>1, <4>2, ForNextType DEF Query
      <4>3. CASE svc[cur[p]] # "running"
        BY <2>1, <4>1, <4>3 DEF Query, Go, TypeOK
      <4> QED BY <4>2, <4>3
    <3> QED BY <2>1, <3>1 DEF Query, TypeOK, ScmTypeOK
  <2>2. CASE Redeploy(p)
    BY <2>2 DEF Redeploy, Go, WriteFile, TypeOK, ScmTypeOK, PC, Session, Loading
  <2>3. CASE Create(p)
    <3>1. ScmTypeOK'
      BY <2>3, ScCallsType DEF Create, TypeOK, ScmTypeOK
    <3> QED BY <2>3, <3>1 DEF Create, Go, TypeOK, PC, Session, Loading
  <2>4. CASE Start(p)
    <3>1. ScmTypeOK'
      BY <2>4, ScCallsType DEF Start, TypeOK
    <3>2. pc' \in [Proc -> PC] /\ cur' \in [Proc -> Drv]
      BY <2>4, ForNextType, LabelsArePC DEF Start
    <3> QED BY <2>4, <3>1, <3>2 DEF Start, TypeOK
  <2>5. CASE StartFails(p)
    <3>1. pc' \in [Proc -> PC] /\ cur' \in [Proc -> Drv]
      <4>1. CASE att[p] = 1
        BY <2>5, <4>1 DEF StartFails, Go, TypeOK, PC, Session, Loading
      <4>2. CASE att[p] # 1
        BY <2>5, <4>2, ForNextType, LabelsArePC DEF StartFails
      <4> QED BY <4>1, <4>2
    <3> QED BY <2>5, <3>1 DEF StartFails, TypeOK, ScmTypeOK
  <2>6. CASE RetryDelete(p)
    <3>1. ScmTypeOK'
      BY <2>6, ScCallsType DEF RetryDelete, TypeOK, ScmTypeOK
    <3> QED BY <2>6, <3>1 DEF RetryDelete, Go, TypeOK, PC, Session, Loading
  <2> QED BY <1>3, <2>1, <2>2, <2>3, <2>4, <2>5, <2>6 DEF Load
<1>4. ASSUME NEW p \in Gen2, Use(p) PROVE TypeOK'
  <2>1. CASE OpenTs(p)
    BY <2>1 DEF OpenTs, OpenHandle, Go, TypeOK, ScmTypeOK, PC, Session, Using,
       Cleaning, Drv
  <2>2. CASE OpenWr(p)
    BY <2>2 DEF OpenWr, OpenHandle, Go, TypeOK, ScmTypeOK, PC, Session, Using,
       Cleaning, Drv
  <2>3. CASE Work(p) \/ Tail(p)
    BY <2>3 DEF Work, Tail, Go, TypeOK, ScmTypeOK, PC, Session, Using
  <2>4. CASE ReopenClose(p) \/ Close(p)
    <3>1. ScmTypeOK'
      BY <2>4, CloseHandlesType DEF ReopenClose, Close
    <3> QED BY <2>4, <3>1 DEF ReopenClose, Close, Go, TypeOK, PC, Session,
               Using, Cleaning
  <2>5. CASE Reopen(p)
    <3>1. pc' \in [Proc -> PC] /\ cur' \in [Proc -> Drv]
      <4>1. "reopen" \in PC /\ "tail" \in PC /\ "close" \in PC
        BY DEF PC, Session, Using
      <4> QED BY <2>5, <4>1, ForNextType DEF Reopen
    <3>2. handles' \in [Proc -> SUBSET Drv]
      BY <2>5 DEF Reopen, OpenHandle, TypeOK, ScmTypeOK
    <3> QED BY <2>5, <3>1, <3>2 DEF Reopen, TypeOK, ScmTypeOK
  <2> QED BY <1>4, <2>1, <2>2, <2>3, <2>4, <2>5 DEF Use
<1>5. ASSUME NEW p \in Proc, Cleanup(p) PROVE TypeOK'
  <2>1. CASE Gate(p)
    BY <2>1, LabelsArePC DEF Gate, Go, TypeOK, ScmTypeOK, Session, Cleaning
  <2>2. CASE Stop(p) \/ Drop(p)
    <3>1. ScmTypeOK'
      BY <2>2, ScCallsType DEF Stop, Drop, TypeOK, ScmTypeOK
    <3> QED BY <2>2, <3>1 DEF Stop, Drop, Go, TypeOK, PC, Session, Cleaning
  <2>3. CASE Remove(p)
    <3>1. pc' \in [Proc -> PC] /\ cur' \in [Proc -> Drv]
      <4>1. "stop" \in PC
        BY DEF PC, Session, Cleaning
      <4> QED BY <2>3, <4>1, ForNextType, LabelsArePC DEF Remove
    <3>2. files' \subseteq Drv
      BY <2>3 DEF Remove, RemoveFile, TypeOK, ScmTypeOK
    <3> QED BY <2>3, <3>1, <3>2 DEF Remove, TypeOK, ScmTypeOK
  <2> QED BY <1>5, <2>1, <2>2, <2>3 DEF Cleanup
<1>6. ASSUME NEW p \in Gen2, Release(p) PROVE TypeOK'
  BY <1>6 DEF Release, Go, TypeOK, ScmTypeOK, PC
<1>7. ASSUME NEW c \in Check, CheckBegin(c) \/ CheckDeploy(c) PROVE TypeOK'
  BY <1>7 DEF CheckBegin, CheckDeploy, Go, WriteFile, TypeOK, ScmTypeOK, PC,
     CheckSteps
<1>8. ASSUME NEW c \in Check, Probe(c) PROVE TypeOK'
  <2>1. pc' \in [Proc -> PC] /\ cur' \in [Proc -> Drv]
    <3>1. "probe" \in PC /\ "read" \in PC /\ "cdeploy" \in PC
      BY DEF PC, CheckSteps
    <3>2. CASE svc[cur[c]] = "running"
      BY <1>8, <3>1, <3>2, ForNextType DEF Probe
    <3>3. CASE svc[cur[c]] # "running"
      BY <1>8, <3>1, <3>3 DEF Probe, Go, SetCur, First, Drv, TypeOK
    <3> QED BY <3>2, <3>3
  <2> QED BY <1>8, <2>1 DEF Probe, TypeOK, ScmTypeOK
<1>9. ASSUME NEW c \in Check, CheckQuery(c) PROVE TypeOK'
  <2>1. "cdeploy" \in PC /\ "read" \in PC /\ "create" \in PC
    BY DEF PC, CheckSteps
  <2>2. CASE svc[cur[c]] = "running"
    <3>1. pc' \in [Proc -> PC] /\ cur' \in [Proc -> Drv]
      BY <1>9, <2>1, <2>2, ForNextType DEF CheckQuery
    <3> QED BY <1>9, <2>2, <3>1 DEF CheckQuery, TypeOK, ScmTypeOK
  <2>3. CASE svc[cur[c]] # "running"
    BY <1>9, <2>1, <2>3 DEF CheckQuery, Go, TypeOK, ScmTypeOK
  <2> QED BY <2>2, <2>3
<1>10. ASSUME NEW c \in Check, CheckOpen(c) PROVE TypeOK'
  BY <1>10 DEF CheckOpen, Go, TypeOK, ScmTypeOK, PC, CheckSteps, Drv
<1>11. ASSUME NEW c \in Check, CheckClose(c) PROVE TypeOK'
  <2>1. ScmTypeOK'
    BY <1>11, CloseHandlesType DEF CheckClose
  <2> QED BY <1>11, <2>1 DEF CheckClose, Go, TypeOK, PC, CheckSteps
<1>12. ASSUME NEW p \in Proc, Exit(p) \/ Crash(p) PROVE TypeOK'
  <2>1. End(p)
    BY <1>12 DEF Exit, Crash
  <2>2. ScmTypeOK'
    BY <2>1, CloseHandlesType DEF End
  <2> QED BY <2>1, <2>2 DEF End, Go, SetCur, First, Drv, TypeOK, PC
<1>13. ASSUME Antivirus PROVE TypeOK'
  BY <1>13 DEF Antivirus, AvRemovesFile, procVars, TypeOK, ScmTypeOK
<1>14. ASSUME AppStarts PROVE TypeOK'
  BY <1>14 DEF AppStarts, procVars, TypeOK, ScmTypeOK, SvcState
<1>15. ASSUME UNCHANGED vars PROVE TypeOK'
  BY <1>15 DEF vars, scmVars, procVars, TypeOK, ScmTypeOK
<1> QED
  BY <1>1, <1>2, <1>3, <1>4, <1>5, <1>6, <1>7, <1>8, <1>9, <1>10, <1>11,
     <1>12, <1>13, <1>14, <1>15
     DEF Next, Gen2Step, CheckStep

(* Type correctness of the whole driver life cycle: every value that the   *)
(* tools' calls leave in the service, file, handle and process state is    *)
(* one the model knows.                                                    *)
THEOREM Typing == Spec => []TypeOK
  BY ScmInitTypeOK, TypeStep, PTL DEF Spec

-----------------------------------------------------------------------------
(* A step of process p inside a session or a diagnosis.                    *)
InnerStep(p) == \/ p \in Gen2 /\ Stat(p)
                \/ Load(p)
                \/ p \in Gen2 /\ Use(p)
                \/ Cleanup(p)

(* Check's own steps do not concern the Gen2 processes.                    *)
CheckOnlyStep(c) == \/ CheckBegin(c) \/ Probe(c) \/ CheckDeploy(c)
                    \/ CheckQuery(c) \/ CheckOpen(c) \/ CheckClose(c)

OwnStep(q) == \/ q \in Gen2 /\ (Gen2Call(q) \/ Release(q))
              \/ InnerStep(q)
              \/ q \in Check /\ CheckOnlyStep(q)
              \/ Exit(q) \/ Crash(q)

(* Every step is one of these: a step of one process, a quarantine, the    *)
(* start of the application, or none.                                      *)
LEMMA StepKinds ==
    ASSUME [Next]_vars
    PROVE  \/ (\E q \in Proc : OwnStep(q)) /\ app' = app
           \/ Antivirus /\ app' = app
           \/ AppStarts
           \/ UNCHANGED vars
  BY ProcessesAreDisjoint
     DEF Next, Meanwhile, settings, Gen2Step, CheckStep, InnerStep, CheckOnlyStep,
         OwnStep

LEMMA ResidentIsFixed == [Next]_vars => resident' = resident
  BY DEF Next, Meanwhile, vars, settings

LEMMA RecordKept == [Next]_vars => Record \/ UNCHANGED vars
  BY DEF Next, Meanwhile

(* Only an active process takes a step inside; it begins with a call.      *)
LEMMA InnerIsActive ==
    ASSUME NEW q \in Proc, InnerStep(q) \/ (q \in Check /\ CheckOnlyStep(q) /\ ~ CheckBegin(q))
    PROVE  Active(q)
<1> USE DEF Active
<1>1. CASE Stat(q) \/ Load(q)
  BY <1>1 DEF Stat, Load, Query, Redeploy, Create, Start, StartFails, RetryDelete
<1>2. CASE Use(q)
  BY <1>2 DEF Use, OpenTs, OpenWr, Work, ReopenClose, Reopen, Tail, Close
<1>3. CASE Cleanup(q)
  BY <1>3 DEF Cleanup, Gate, Stop, Drop, Remove
<1>4. CASE CheckOnlyStep(q) /\ ~ CheckBegin(q)
  BY <1>4 DEF CheckOnlyStep, Probe, CheckDeploy, CheckQuery, CheckOpen, CheckClose
<1> QED BY <1>1, <1>2, <1>3, <1>4 DEF InnerStep

-----------------------------------------------------------------------------
(* A step of q that takes nothing away from another process: it may close  *)
(* q's own handles, and nothing else reaches the drivers.                  *)
HarmlessStep(q) ==
    /\ UNCHANGED files
    /\ \/ CloseHandles(q)
       \/ /\ UNCHANGED <<svc, marked>>
          /\ \A p \in Proc \ {q} : handles'[p] = handles[p]

(* Whatever q does, the handles, the place and the loop of every other     *)
(* process stay as they are.                                               *)
LEMMA Locality ==
    ASSUME TypeOK, NEW q \in Proc, OwnStep(q)
    PROVE  \A p \in Proc \ {q} : /\ handles'[p] = handles[p]
                                 /\ pc'[p] = pc[p]
                                 /\ cur'[p] = cur[p]
<1> USE DEF TypeOK, ScmTypeOK, Go, SetCur, ForNext, CloseHandles, OpenHandle
<1>1. CASE q \in Gen2 /\ (Gen2Call(q) \/ Release(q))
  BY <1>1 DEF Gen2Call, Acquire, AcquireBypass, Release
<1>2. CASE q \in Gen2 /\ Stat(q)
  BY <1>2 DEF Stat
<1>3. CASE Load(q)
  BY <1>3 DEF Load, Query, Redeploy, Create, Start, StartFails, RetryDelete
<1>4. CASE q \in Gen2 /\ Use(q)
  BY <1>4 DEF Use, OpenTs, OpenWr, Work, ReopenClose, Reopen, Tail, Close
<1>5. CASE Cleanup(q)
  BY <1>5 DEF Cleanup, Gate, Stop, Drop, Remove
<1>6. CASE q \in Check /\ CheckOnlyStep(q)
  <2>1. CASE CheckBegin(q) \/ Probe(q) \/ CheckDeploy(q) \/ CheckQuery(q)
    BY <2>1 DEF CheckBegin, Probe, CheckDeploy, CheckQuery
  <2>2. CASE CheckOpen(q) \/ CheckClose(q)
    BY <2>2 DEF CheckOpen, CheckClose
  <2> QED BY <1>6, <2>1, <2>2 DEF CheckOnlyStep
<1>7. CASE Exit(q) \/ Crash(q)
  BY <1>7 DEF Exit, Crash, End
<1> QED
  BY <1>1, <1>2, <1>3, <1>4, <1>5, <1>6, <1>7 DEF InnerStep, OwnStep

(* A process without administrator rights harms nobody.                    *)
LEMMA LimitedIsHarmless ==
    ASSUME TypeOK, NEW q \in Gen2, q \notin Admin, InnerStep(q)
    PROVE  HarmlessStep(q)
<1> USE ProcessesAreDisjoint DEF HarmlessStep
<1>1. \A p \in Proc \ {q} : handles'[p] = handles[p]
  BY Locality DEF OwnStep
<1>2. CASE Stat(q) \/ Load(q)
  BY <1>1, <1>2 DEF Stat, Load, Query, Redeploy, Create, Start, StartFails,
     RetryDelete
<1>3. CASE Use(q)
  BY <1>1, <1>3 DEF Use, OpenTs, OpenWr, Work, ReopenClose, Reopen, Tail, Close
<1>4. CASE Cleanup(q)
  BY <1>1, <1>4 DEF Cleanup, Gate, Stop, Drop, Remove
<1> QED BY <1>2, <1>3, <1>4 DEF InnerStep

(* What a process does that is not an active elevated one: nothing         *)
(* harmful.                                                                *)
LEMMA OthersAreHarmless ==
    ASSUME TypeOK, NEW q \in Proc, ~ (q \in Admin /\ Active(q)), OwnStep(q)
    PROVE  HarmlessStep(q)
<1> USE ProcessesAreDisjoint, CheckIsElevated
<1>1. CASE q \in Gen2 /\ (Gen2Call(q) \/ Release(q))
  BY <1>1 DEF Gen2Call, Acquire, AcquireBypass, Release, HarmlessStep
<1>2. CASE Exit(q) \/ Crash(q)
  BY <1>2 DEF Exit, Crash, End, HarmlessStep
<1>3. CASE InnerStep(q)
  <2>1. Active(q)
    BY <1>3, InnerIsActive
  <2>2. q \in Gen2 /\ q \notin Admin
    BY <2>1
  <2> QED BY <1>3, <2>2, LimitedIsHarmless
<1>4. CASE q \in Check /\ CheckOnlyStep(q)
  <2>1. CheckBegin(q)
    BY <1>4, InnerIsActive
  <2> QED BY <2>1 DEF CheckBegin, HarmlessStep
<1> QED BY <1>1, <1>2, <1>3, <1>4 DEF OwnStep

(* A harmless step keeps a running driver running, and an absent service   *)
(* absent; a stop that was pending on q's handle completes.                *)
LEMMA HarmlessKeeps ==
    ASSUME TypeOK, NEW q \in Proc, HarmlessStep(q), NEW d \in Drv
    PROVE  \/ svc'[d] = svc[d] /\ (d \in marked' <=> d \in marked)
           \/ /\ svc[d] = "stopping"
              /\ svc'[d] = IF d \in marked THEN "absent" ELSE "stopped"
  BY DEF TypeOK, ScmTypeOK, HarmlessStep, CloseHandles, Unloaded

(* Whoever has met nobody is alone: met records every encounter.           *)
LEMMA AloneStep == Alone /\ [Next]_vars => Alone'
<1>1. CASE Record
  BY <1>1 DEF Record, Alone, Active
<1>2. CASE UNCHANGED vars
  BY <1>2 DEF Alone, Active, vars, procVars, history
<1> QED BY <1>1, <1>2, RecordKept

(* Who has still met nobody after a step, had met nobody before it.        *)
LEMMA MetBefore ==
    ASSUME [Next]_vars, NEW p \in Admin, p \notin met', Active(p)'
    PROVE  p \notin met
<1>1. CASE Record
  BY <1>1 DEF Record
<1>2. CASE UNCHANGED vars
  BY <1>2 DEF vars, history
<1> QED BY <1>1, <1>2, RecordKept

-----------------------------------------------------------------------------
(* What an elevated session has open keeps running under it.               *)
LEMMA DriverStepOwn ==
    ASSUME TypeOK, NEW p \in Gen2 \cap Admin, p \notin met', p \in met => ~ Active(p)',
           HoldsRunning(p), InnerStep(p)
    PROVE  HoldsRunning(p)'
<1> USE ProcessesAreDisjoint
    DEF TypeOK, ScmTypeOK, HoldsRunning, Holding, Go, ForNext, Active
<1>0. p \notin Check
  OBVIOUS
<1>1. CASE Stat(p)
  BY <1>1 DEF Stat
<1>2. CASE Load(p)
  BY <1>0, <1>2 DEF Load, Query, Redeploy, Create, Start, StartFails,
     RetryDelete, Loaders, AfterLoading
<1>3. CASE OpenTs(p)
  BY <1>3 DEF OpenTs, OpenHandle
<1>4. CASE OpenWr(p)
  BY <1>4 DEF OpenWr, OpenHandle, Drv
<1>5. CASE Work(p) \/ Tail(p)
  BY <1>5 DEF Work, Tail
<1>6. CASE ReopenClose(p) \/ Close(p)
  BY <1>6 DEF ReopenClose, Close, CloseHandles
<1>7. CASE Reopen(p)
  BY <1>7 DEF Reopen, OpenHandle
<1>8. CASE Cleanup(p)
  BY <1>0, <1>8 DEF Cleanup, Gate, Stop, Drop, Remove, AfterCleanup
<1> QED
  BY <1>1, <1>2, <1>3, <1>4, <1>5, <1>6, <1>7, <1>8 DEF InnerStep, Use

(* Where a session keeps its handles does not depend on whom it has met.   *)
LEMMA HandleStepOwn ==
    ASSUME TypeOK, NEW p \in Gen2 \cap Admin, HoldsRunning(p), InnerStep(p)
    PROVE  /\ pc'[p] \notin Holding => handles'[p] \subseteq {"ThrottleStop"}
           /\ pc'[p] = "openWR" => handles'[p] = {"ThrottleStop"}
           /\ pc'[p] \in {"work", "tail"} => handles'[p] = Drv
<1> USE ProcessesAreDisjoint
    DEF TypeOK, ScmTypeOK, HoldsRunning, Holding, Go, ForNext
<1>0. p \notin Check
  OBVIOUS
<1>1. CASE Stat(p)
  BY <1>1 DEF Stat
<1>2. CASE Load(p)
  BY <1>0, <1>2 DEF Load, Query, Redeploy, Create, Start, StartFails,
     RetryDelete, Loaders, AfterLoading
<1>3. CASE OpenTs(p)
  BY <1>3 DEF OpenTs, OpenHandle
<1>4. CASE OpenWr(p)
  BY <1>4 DEF OpenWr, OpenHandle, Drv
<1>5. CASE Work(p) \/ Tail(p)
  BY <1>5 DEF Work, Tail
<1>6. CASE ReopenClose(p) \/ Close(p)
  BY <1>6 DEF ReopenClose, Close, CloseHandles
<1>7. CASE Reopen(p)
  BY <1>7 DEF Reopen, OpenHandle
<1>8. CASE Cleanup(p)
  BY <1>0, <1>8 DEF Cleanup, Gate, Stop, Drop, Remove, AfterCleanup
<1> QED
  BY <1>1, <1>2, <1>3, <1>4, <1>5, <1>6, <1>7, <1>8 DEF InnerStep, Use

LEMMA DriverStep ==
    ASSUME TypeOK, DriverInv, [Next]_vars
    PROVE  DriverInv'
<1> USE ProcessesAreDisjoint, LongLivedAreGen2
<1>0. Alone'
  BY AloneStep DEF DriverInv
<1> SUFFICES ASSUME NEW p \in Gen2 \cap Admin PROVE HoldsRunning(p)'
  BY <1>0 DEF DriverInv
<1>a. HoldsRunning(p) /\ Alone
  BY DEF DriverInv
<1>b. p \notin met' /\ Active(p)' => p \notin met
  BY MetBefore
<1>1. CASE InnerStep(p)
  <2>1. CASE p \in met' \/ ~ Active(p)'
    BY <1>1, <1>a, <2>1, HandleStepOwn
       DEF HoldsRunning, Holding, Active
  <2>2. CASE p \notin met' /\ Active(p)'
    BY <1>1, <1>a, <1>b, <2>2, DriverStepOwn
  <2> QED BY <2>1, <2>2
<1>2. CASE Gen2Call(p) \/ Release(p)
  BY <1>2, <1>a DEF Gen2Call, Acquire, AcquireBypass, MayCall, Release,
     Go, HoldsRunning, Holding, TypeOK
<1>3. CASE Exit(p) \/ Crash(p)
  BY <1>3 DEF Exit, Crash, End, CloseHandles, Go, HoldsRunning, Holding, TypeOK,
     ScmTypeOK
<1>4. ASSUME NEW q \in Proc \ {p}, OwnStep(q)
      PROVE  HoldsRunning(p)'
  <2>1. handles'[p] = handles[p] /\ pc'[p] = pc[p]
    BY <1>4, Locality
  <2>2. CASE p \notin met' /\ Active(p)
    <3>1. p \notin met
      BY <1>b, <2>1, <2>2 DEF Active
    <3>2. HarmlessStep(q)
      BY <1>4, <1>a, <2>2, <3>1, OthersAreHarmless DEF Alone
    <3>3. \A d \in Drv : svc[d] = "running" => svc'[d] = "running"
      BY <3>2, HarmlessKeeps
    <3> QED BY <1>a, <2>1, <3>1, <3>3 DEF HoldsRunning, TypeOK, ScmTypeOK
  <2>3. CASE p \in met' \/ ~ Active(p)
    BY <1>a, <2>1, <2>3 DEF HoldsRunning, Holding, Active
  <2> QED BY <2>2, <2>3
<1>5. CASE Antivirus \/ UNCHANGED vars
  <2>1. UNCHANGED <<svc, handles, pc>>
    BY <1>5 DEF Antivirus, AvRemovesFile, procVars, scmVars, vars
  <2>2. p \notin met' /\ pc[p] \in Holding \cup {"openWR"} => p \notin met
    BY <1>b, <2>1 DEF Active, Holding
  <2> QED BY <1>a, <2>1, <2>2 DEF HoldsRunning
<1>6. CASE AppStarts
  <2>1. /\ UNCHANGED <<handles, pc>>
        /\ \A d \in Drv : svc[d] = "running" => svc'[d] = "running"
    BY <1>6 DEF AppStarts, procVars, TypeOK, ScmTypeOK, Drv
  <2>2. p \notin met' /\ pc[p] \in Holding \cup {"openWR"} => p \notin met
    BY <1>b, <2>1 DEF Active, Holding
  <2> QED BY <1>a, <2>1, <2>2 DEF HoldsRunning, TypeOK, ScmTypeOK
<1> QED
  BY <1>1, <1>2, <1>3, <1>4, <1>5, <1>6, StepKinds DEF OwnStep

LEMMA DriverInit == Init => DriverInv
  BY ProcessesAreDisjoint, CheckIsElevated
     DEF Init, ScmInit, DriverInv, Alone, Active, HoldsRunning, Holding

(* Both drivers run in every state in which an elevated Gen2 session works *)
(* on the link that no other elevated session or diagnosis has overlapped: *)
(* with the mutex as shipped, for any number of limited users, of kills    *)
(* and of handles earlier sessions left open, whenever the application is  *)
(* started.                                                                *)
THEOREM DriversStay == Spec => []DriversStayLoaded
<1>1. TypeOK /\ DriverInv /\ [Next]_vars => DriverInv'
  BY DriverStep
<1>2. DriverInv => DriversStayLoaded
  BY DEF DriverInv, HoldsRunning, DriversStayLoaded, Holding
<1> QED
  BY <1>1, <1>2, DriverInit, Typing, PTL DEF Spec

-----------------------------------------------------------------------------
(* What a clean-up has done when it deletes a driver's file.               *)

(* Closing handles either keeps a holder of a driver whose stop is         *)
(* pending, or completes the stop.                                         *)
LEMMA ClosingKeepsPending ==
    ASSUME TypeOK, PendingIsHeld, NEW q \in Proc, CloseHandles(q)
    PROVE  PendingIsHeld'
<1> SUFFICES ASSUME NEW d \in Drv, svc'[d] = "stopping"
             PROVE  \E p \in Proc : d \in handles'[p]
  BY DEF PendingIsHeld, HeldBy
<1>1. /\ svc[d] = "stopping"
      /\ ~ (d \in handles[q] /\ ~ HeldBy(d, Proc \ {q}))
  BY DEF CloseHandles, Unloaded, TypeOK, ScmTypeOK
<1>2. PICK p \in Proc : d \in handles[p]
  BY <1>1 DEF PendingIsHeld, HeldBy
<1>3. PICK r \in Proc \ {q} : d \in handles[r]
  BY <1>1, <1>2 DEF HeldBy
<1> QED
  BY <1>3 DEF CloseHandles, TypeOK, ScmTypeOK

LEMMA PendingStep ==
    ASSUME \A c \in Check : pc[c] \in {"read", "dump"} => handles[c] = {},
           TypeOK, PendingIsHeld, [Next]_vars
    PROVE  PendingIsHeld'
<1> USE ProcessesAreDisjoint DEF PendingIsHeld, HeldBy
<1>1. ASSUME NEW p \in Gen2, Gen2Call(p) \/ Release(p) PROVE PendingIsHeld'
  BY <1>1 DEF Gen2Call, Acquire, AcquireBypass, Release
<1>2. ASSUME NEW p \in Proc, InnerStep(p) PROVE PendingIsHeld'
  <2>1. CASE Stat(p) \/ Query(p) \/ Redeploy(p) \/ StartFails(p)
    BY <2>1 DEF Stat, Query, Redeploy, StartFails
  <2>2. CASE Create(p) \/ Start(p) \/ RetryDelete(p)
    BY <2>2 DEF Create, Start, RetryDelete, ScCreate, ScStart, ScDelete,
       TypeOK, ScmTypeOK
  <2>3. CASE OpenTs(p) \/ OpenWr(p) \/ Work(p) \/ Tail(p) \/ Reopen(p)
    <3>1. svc' = svc /\ \A q \in Proc : handles[q] \subseteq handles'[q]
      BY <2>3 DEF OpenTs, OpenWr, Work, Tail, Reopen, OpenHandle, TypeOK,
         ScmTypeOK
    <3> QED BY <3>1
  <2>4. CASE ReopenClose(p) \/ Close(p)
    BY <2>4, ClosingKeepsPending DEF ReopenClose, Close
  <2>5. CASE Gate(p) \/ Remove(p)
    BY <2>5 DEF Gate, Remove
  <2>6. CASE Stop(p)
    BY <2>6 DEF Stop, ScStop, Unloaded, TypeOK, ScmTypeOK
  <2>7. CASE Drop(p)
    BY <2>7 DEF Drop, ScDelete, TypeOK, ScmTypeOK
  <2> QED
    BY <1>2, <2>1, <2>2, <2>3, <2>4, <2>5, <2>6, <2>7
       DEF InnerStep, Load, Use, Cleanup
<1>3. ASSUME NEW p \in Proc, Exit(p) \/ Crash(p) PROVE PendingIsHeld'
  BY <1>3, ClosingKeepsPending DEF Exit, Crash, End
<1>4. CASE Antivirus \/ UNCHANGED vars
  BY <1>4 DEF Antivirus, AvRemovesFile, procVars, scmVars, vars
<1>5. ASSUME NEW c \in Check, CheckOnlyStep(c) PROVE PendingIsHeld'
  <2>1. CASE CheckBegin(c) \/ Probe(c) \/ CheckDeploy(c) \/ CheckQuery(c)
    BY <2>1 DEF CheckBegin, Probe, CheckDeploy, CheckQuery
  <2>2. CASE CheckOpen(c)
    <3>1. svc' = svc /\ \A q \in Proc : handles[q] \subseteq handles'[q]
      BY <2>2 DEF CheckOpen, TypeOK, ScmTypeOK
    <3> QED BY <3>1
  <2>3. CASE CheckClose(c)
    BY <2>3, ClosingKeepsPending DEF CheckClose
  <2> QED BY <1>5, <2>1, <2>2, <2>3 DEF CheckOnlyStep
<1>6. CASE AppStarts
  BY <1>6 DEF AppStarts, TypeOK, ScmTypeOK
<1> QED
  BY <1>1, <1>2, <1>3, <1>4, <1>5, <1>6, StepKinds DEF OwnStep

-----------------------------------------------------------------------------
(* What runs has somebody who is going to stop it.                         *)
LEMMA OrderlyOwn ==
    ASSUME TypeOK, NEW q \in Proc, Orderly(q),
           OwnStep(q)
    PROVE  Orderly(q)'
<1> USE ProcessesAreDisjoint
    DEF Orderly, TypeOK, ScmTypeOK, Go, SetCur, ForNext, First, Last, Drv,
        Session, Loading, Using, Cleaning, CheckSteps, Looping
<1>1. CASE q \in Gen2 /\ (Gen2Call(q) \/ Release(q))
  BY <1>1 DEF Gen2Call, Acquire, AcquireBypass, MayCall, Release
<1>2. CASE q \in Gen2 /\ Stat(q)
  BY <1>2 DEF Stat
<1>3. CASE Load(q)
  <2>1. CASE Query(q) \/ Redeploy(q)
    BY <2>1 DEF Query, Redeploy
  <2>2. CASE Create(q) \/ RetryDelete(q)
    BY <2>2 DEF Create, RetryDelete
  <2>3. CASE Start(q) \/ StartFails(q)
    BY <2>3 DEF Start, StartFails, Loaders, AfterLoading
  <2> QED BY <1>3, <2>1, <2>2, <2>3 DEF Load
<1>4. CASE q \in Gen2 /\ Use(q)
  <2>1. CASE OpenTs(q) \/ OpenWr(q) \/ Work(q) \/ Tail(q)
    BY <1>4, <2>1 DEF OpenTs, OpenWr, Work, Tail, OpenHandle
  <2>2. CASE ReopenClose(q) \/ Close(q)
    BY <1>4, <2>2 DEF ReopenClose, Close, CloseHandles
  <2>3. CASE Reopen(q)
    BY <1>4, <2>3 DEF Reopen, OpenHandle
  <2> QED BY <1>4, <2>1, <2>2, <2>3 DEF Use
<1>5. CASE Cleanup(q)
  BY <1>5 DEF Cleanup, Gate, Stop, Drop, Remove, AfterCleanup
<1>6. CASE q \in Check /\ CheckOnlyStep(q)
  <2>1. CASE CheckBegin(q) \/ Probe(q) \/ CheckDeploy(q) \/ CheckQuery(q)
    BY <1>6, <2>1 DEF CheckBegin, Probe, CheckDeploy, CheckQuery
  <2>2. CASE CheckOpen(q) \/ CheckClose(q)
    BY <1>6, <2>2 DEF CheckOpen, CheckClose, CloseHandles
  <2> QED BY <1>6, <2>1, <2>2 DEF CheckOnlyStep
<1>7. CASE Exit(q) \/ Crash(q)
  BY <1>7 DEF Exit, Crash, End, CloseHandles
<1> QED
  BY <1>1, <1>2, <1>3, <1>4, <1>5, <1>6, <1>7 DEF InnerStep, OwnStep

(* A process that owes a stop goes on owing it while the driver runs.      *)
LEMMA OwesOwn ==
    ASSUME TypeOK, ~ resident, ~ app, NEW q \in Proc, Orderly(q),
           OwnStep(q), ~ Killed(q), NEW d \in Drv, Owes(q, d), svc'[d] = "running"
    PROVE  Owes(q, d)'
<1> USE ProcessesAreDisjoint
    DEF Owes, Ahead, Orderly, TypeOK, ScmTypeOK, Go, SetCur, ForNext, First, Last,
        Drv, Session, Loading, Using, Cleaning, CheckSteps, Looping
<1>1. CASE q \in Gen2 /\ (Gen2Call(q) \/ Release(q))
  BY <1>1 DEF Gen2Call, Acquire, AcquireBypass, MayCall, Release
<1>2. CASE q \in Gen2 /\ Stat(q)
  BY <1>2 DEF Stat
<1>3. CASE Load(q)
  <2>1. CASE Query(q) \/ Redeploy(q)
    BY <2>1 DEF Query, Redeploy
  <2>2. CASE Create(q) \/ RetryDelete(q)
    BY <2>2 DEF Create, RetryDelete
  <2>3. CASE Start(q) \/ StartFails(q)
    BY <2>3 DEF Start, StartFails, Loaders, AfterLoading
  <2> QED BY <1>3, <2>1, <2>2, <2>3 DEF Load
<1>4. CASE q \in Gen2 /\ Use(q)
  BY <1>4 DEF Use, OpenTs, OpenWr, Work, ReopenClose, Reopen, Tail, Close
<1>5. CASE Cleanup(q)
  <2>1. CASE Gate(q) \/ Drop(q)
    BY <2>1 DEF Gate, Drop
  <2>2. CASE Stop(q)
    BY <2>2 DEF Stop, ScStop, Unloaded
  <2>3. CASE Remove(q)
    BY <2>3 DEF Remove
  <2> QED BY <1>5, <2>1, <2>2, <2>3 DEF Cleanup
<1>6. CASE q \in Check /\ CheckOnlyStep(q)
  <2>1. CASE CheckBegin(q) \/ Probe(q) \/ CheckDeploy(q) \/ CheckQuery(q)
    BY <1>6, <2>1 DEF CheckBegin, Probe, CheckDeploy, CheckQuery
  <2>2. CASE CheckOpen(q) \/ CheckClose(q)
    BY <1>6, <2>2 DEF CheckOpen, CheckClose
  <2> QED BY <1>6, <2>1, <2>2 DEF CheckOnlyStep
<1>7. CASE Exit(q) \/ Crash(q)
  BY <1>7 DEF Exit, Crash, End, Killed, Active
<1> QED
  BY <1>1, <1>2, <1>3, <1>4, <1>5, <1>6, <1>7 DEF InnerStep, OwnStep

(* What a check has tried is its own.                                      *)
LEMMA TriedIsOwn ==
    ASSUME TypeOK, NEW q \in Proc,
           OwnStep(q)
    PROVE  \A p \in Proc \ {q} : tried'[p] = tried[p]
  BY DEF TypeOK, InnerStep, CheckOnlyStep, Gen2Call, Acquire, AcquireBypass,
     Release, Stat, Load, Query, Redeploy, Create, Start, StartFails,
     RetryDelete, Use, OpenTs, OpenWr, Work, ReopenClose, Reopen, Tail, Close,
     Cleanup, Gate, Stop, Drop, Remove, CheckBegin, Probe, CheckDeploy,
     CheckQuery, CheckOpen, CheckClose, Exit, Crash, End, OwnStep

(* Who starts a driver owes its stop; what it owes is not changed by       *)
(* others.                                                                 *)
LEMMA StarterOwes ==
    ASSUME TypeOK, NEW q \in Proc, Orderly(q),
           OwnStep(q)
    PROVE  /\ \A d \in Drv :
                 svc[d] # "running" /\ svc'[d] = "running" => Owes(q, d)'
           /\ \A p \in Proc \ {q} : \A d \in Drv : Owes(p, d) => Owes(p, d)'
<1> USE ProcessesAreDisjoint DEF TypeOK, ScmTypeOK
<1>1. ASSUME NEW d \in Drv, svc[d] # "running", svc'[d] = "running"
      PROVE  Start(q) /\ d = cur[q]
  <2>1. CASE q \in Gen2 /\ (Gen2Call(q) \/ Release(q))
    BY <1>1, <2>1 DEF Gen2Call, Acquire, AcquireBypass, Release
  <2>2. CASE (q \in Gen2 /\ Stat(q)) \/ Load(q)
    BY <1>1, <2>2 DEF Stat, Load, Query, Redeploy, Create, Start, StartFails,
       RetryDelete, ScCreate, ScStart, ScDelete
  <2>3. CASE q \in Gen2 /\ Use(q)
    BY <1>1, <2>3 DEF Use, OpenTs, OpenWr, Work, ReopenClose, Reopen, Tail, Close,
       CloseHandles, Unloaded
  <2>4. CASE Cleanup(q)
    BY <1>1, <2>4 DEF Cleanup, Gate, Stop, Drop, Remove, ScStop, ScDelete, Unloaded
  <2>5. CASE q \in Check /\ CheckOnlyStep(q)
    BY <1>1, <2>5 DEF CheckOnlyStep, CheckBegin, Probe, CheckDeploy, CheckQuery,
       CheckOpen, CheckClose, CloseHandles, Unloaded
  <2>6. CASE Exit(q) \/ Crash(q)
    BY <1>1, <2>6 DEF Exit, Crash, End, CloseHandles, Unloaded
  <2> QED BY <2>1, <2>2, <2>3, <2>4, <2>5, <2>6 DEF InnerStep, OwnStep
<1>2. ASSUME NEW d \in Drv, Start(q) PROVE Owes(q, d)'
  BY <1>2 DEF Start, Owes, Ahead, Orderly, Loaders, AfterLoading, Go, ForNext,
     Session, Loading, Using, Cleaning, CheckSteps
<1>3. ASSUME NEW p \in Proc \ {q}
      PROVE  pc'[p] = pc[p] /\ cur'[p] = cur[p] /\ tried'[p] = tried[p]
  <2>1. pc'[p] = pc[p] /\ cur'[p] = cur[p]
    BY <1>3, Locality
  <2>2. tried'[p] = tried[p]
    BY <1>3, TriedIsOwn
  <2> QED BY <2>1, <2>2
<1> QED BY <1>1, <1>2, <1>3 DEF Owes

LEMMA OwedStep ==
    ASSUME TypeOK, OwedInv, [Next]_vars
    PROVE  OwedInv'
<1> USE ProcessesAreDisjoint
<1>1. PendingIsHeld'
  BY PendingStep DEF OwedInv, Orderly
<1>2. ASSUME NEW q \in Proc, OwnStep(q), app' = app, Record
      PROVE  OwedInv'
  <2>1. \A p \in Proc : Orderly(p)'
    <3>1. Orderly(q)'
      BY <1>2, OrderlyOwn DEF OwedInv
    <3>2. \A p \in Proc \ {q} : Orderly(p)'
      <4> SUFFICES ASSUME NEW p \in Proc \ {q} PROVE Orderly(p)'
        OBVIOUS
      <4>1. pc'[p] = pc[p] /\ cur'[p] = cur[p] /\ handles'[p] = handles[p]
        BY <1>2, Locality
      <4>2. tried'[p] = tried[p]
        BY <1>2, TriedIsOwn
      <4> QED BY <4>1, <4>2 DEF OwedInv, Orderly
    <3> QED BY <3>1, <3>2
  <2>2. ASSUME ~ resident', ~ app', NEW d \in Drv, svc'[d] = "running"
        PROVE  d \in orphaned' \/ \E p \in Proc : Owes(p, d)'
    <3>1. ~ resident /\ ~ app
      BY <1>2, <2>2, ResidentIsFixed
    <3>2. CASE d \in orphaned
      BY <1>2, <2>2, <3>2 DEF Record
    <3>3. CASE svc[d] = "running" /\ d \notin orphaned
      <4>1. PICK p \in Proc : Owes(p, d)
        BY <2>2, <3>1, <3>3 DEF OwedInv
      <4>2. CASE p = q /\ Killed(q)
        BY <1>2, <2>2, <4>1, <4>2 DEF Record, Owes
      <4>3. CASE p = q /\ ~ Killed(q)
        BY <1>2, <2>2, <3>1, <4>1, <4>3, OwesOwn DEF OwedInv
      <4>4. CASE p # q
        BY <1>2, <3>1, <4>1, <4>4, StarterOwes DEF OwedInv
      <4> QED BY <4>2, <4>3, <4>4
    <3>4. CASE svc[d] # "running"
      BY <1>2, <2>2, <3>1, <3>4, StarterOwes DEF OwedInv
    <3> QED BY <3>2, <3>3, <3>4
  <2> QED BY <1>1, <2>1, <2>2 DEF OwedInv
<1>3. CASE Antivirus /\ app' = app /\ Record
  <2>1. UNCHANGED <<svc, handles, pc, cur, tried, resident, app>>
    BY <1>3, ResidentIsFixed DEF Antivirus, AvRemovesFile, procVars
  <2>2. \A d \in orphaned : svc[d] = "running" /\ d \in Drv => d \in orphaned'
    BY <1>3, <2>1 DEF Record
  <2> QED BY <1>1, <2>1, <2>2 DEF OwedInv, Orderly, Owes
<1>4. CASE AppStarts
  <2>1. UNCHANGED <<handles, pc, cur, tried>> /\ app'
    BY <1>4 DEF AppStarts, procVars
  <2> QED BY <1>1, <2>1 DEF OwedInv, Orderly
<1>5. CASE UNCHANGED vars
  BY <1>1, <1>5 DEF OwedInv, Orderly, Owes, vars, scmVars, procVars, settings, history
<1> QED BY <1>2, <1>3, <1>4, <1>5, StepKinds, RecordKept

LEMMA OwedInit == Init => OwedInv
<1> SUFFICES ASSUME Init PROVE OwedInv
  OBVIOUS
<1>1. /\ \A d \in Drv : svc[d] \in {"absent", "stopped", "running"}
      /\ ~ app => \A d \in Drv : svc[d] # "running"
  BY DEF Init, Drv
<1>2. \A p \in Proc : Orderly(p)
  BY DEF Init, ScmInit, Orderly
<1> QED BY <1>1, <1>2 DEF OwedInv, PendingIsHeld

LEMMA OwedInvariant == Spec => []OwedInv
  BY OwedInit, OwedStep, Typing, PTL DEF Spec

(* Under the transient strategy, as long as the ThrottleStop application   *)
(* has not been started, a driver that is in the kernel once all processes *)
(* have ended has been running ever since an elevated process was killed:  *)
(* any number of Gen2 and Check processes, in any order, with the mutex as *)
(* it is, and whatever their calls return.                                 *)
THEOREM QuietIsUnloaded == Spec => []QuietMeansUnloaded
<1>1. OwedInv => QuietMeansUnloaded
  <2> SUFFICES ASSUME OwedInv, \A p \in Proc : pc[p] = "idle",
                      ~ resident, ~ app, NEW d \in Drv, Loaded(d)
               PROVE  d \in orphaned
    BY DEF QuietMeansUnloaded
  <2>1. svc[d] # "stopping"
    BY DEF OwedInv, PendingIsHeld, Orderly, HeldBy
  <2>2. \A p \in Proc : ~ Owes(p, d)
    BY DEF Owes, Ahead, Session, Loading, Using, Cleaning, CheckSteps
  <2> QED BY <2>1, <2>2 DEF OwedInv, Loaded
<1> QED
  BY <1>1, OwedInvariant, PTL

-----------------------------------------------------------------------------
LEMMA SweptOwn ==
    ASSUME TypeOK, NEW p \in Admin, Swept(p), OwnStep(p)
    PROVE  Swept(p)'
<1> USE ProcessesAreDisjoint, CheckIsElevated
    DEF Swept, TypeOK, ScmTypeOK, Go, SetCur, ForNext
<1>1. CASE Stat(p) \/ Load(p)
  BY <1>1 DEF Stat, Load, Query, Redeploy, Create, Start, StartFails,
     RetryDelete, Loaders, AfterLoading
<1>2. CASE Use(p)
  BY <1>2 DEF Use, OpenTs, OpenWr, Work, ReopenClose, Reopen, Tail, Close
<1>3. CASE Gate(p) \/ Remove(p)
  BY <1>3 DEF Gate, Remove, AfterCleanup
<1>4. CASE Stop(p)
  BY <1>4 DEF Stop, ScStop, Unloaded
<1>5. CASE Drop(p)
  BY <1>5 DEF Drop, ScDelete, Loaded, SvcState
<1>6. CASE p \in Gen2 /\ (Gen2Call(p) \/ Release(p))
  BY <1>6 DEF Gen2Call, Acquire, AcquireBypass, Release
<1>7. CASE p \in Check /\ CheckOnlyStep(p)
  BY <1>7 DEF CheckOnlyStep, CheckBegin, Probe, CheckDeploy, CheckQuery,
     CheckOpen, CheckClose
<1>8. CASE Exit(p) \/ Crash(p)
  BY <1>8 DEF Exit, Crash, End
<1> QED
  BY <1>1, <1>2, <1>3, <1>4, <1>5, <1>6, <1>7, <1>8
     DEF InnerStep, Cleanup, OwnStep

(* A clean-up that is not late after a step was not late before it, if it  *)
(* is still under way; the start of the application makes it late.         *)
LEMMA LateBefore ==
    ASSUME [Next]_vars, NEW p \in Proc, pc'[p] \in Removing, p \notin late'
    PROVE  p \notin late /\ ~ AppStarts
<1>1. CASE Record
  BY <1>1 DEF Record, AppStarts
<1>2. CASE UNCHANGED vars
  BY <1>2 DEF vars, history, settings, AppStarts
<1> QED BY <1>1, <1>2, RecordKept

LEMMA CleanupStep ==
    ASSUME TypeOK, CleanupInv, [Next]_vars
    PROVE  CleanupInv'
<1> USE ProcessesAreDisjoint, CheckIsElevated
<1>1. Alone'
  BY AloneStep DEF CleanupInv
<1> SUFFICES ASSUME NEW p \in Admin \ (met' \cup late'), pc'[p] \in Removing
             PROVE  Swept(p)'
  BY <1>1 DEF CleanupInv, Swept, Removing
<1>2. Active(p)' /\ p \in Proc
  BY DEF Active, Removing
<1>3. p \notin met /\ p \notin late /\ ~ AppStarts
  BY <1>2, MetBefore, LateBefore
<1>4. Swept(p) /\ Alone
  BY <1>3 DEF CleanupInv
<1>5. CASE OwnStep(p)
  BY <1>4, <1>5, SweptOwn
<1>6. ASSUME NEW q \in Proc \ {p}, OwnStep(q)
      PROVE  Swept(p)'
  <2>1. pc'[p] = pc[p] /\ cur'[p] = cur[p] /\ cur[p] \in Drv
    BY <1>6, Locality DEF TypeOK
  <2>2. Active(p)
    BY <1>2, <2>1 DEF Active
  <2>3. HarmlessStep(q)
    BY <1>3, <1>4, <1>6, <2>2, OthersAreHarmless DEF Alone
  <2>4. \/ /\ svc'[cur[p]] = svc[cur[p]]
           /\ cur[p] \in marked' <=> cur[p] \in marked
        \/ /\ svc[cur[p]] = "stopping"
           /\ svc'[cur[p]] = IF cur[p] \in marked THEN "absent" ELSE "stopped"
    BY <2>1, <2>3, HarmlessKeeps
  <2> QED BY <1>4, <2>1, <2>4 DEF Swept
<1>7. CASE Antivirus \/ UNCHANGED vars
  BY <1>4, <1>7 DEF Antivirus, AvRemovesFile, procVars, scmVars, vars, Swept
<1> QED
  BY <1>3, <1>5, <1>6, <1>7, StepKinds

LEMMA CleanupInit == Init => CleanupInv
  BY ProcessesAreDisjoint, CheckIsElevated DEF Init, CleanupInv, Alone, Active, Swept

(* When an elevated session or diagnosis is done with a driver that nobody *)
(* pins, the file is gone and the service already was: the order of stop,  *)
(* delete and remove leaves nothing behind, unless another elevated        *)
(* process was active meanwhile or the application was started after the   *)
(* clean-up had looked for it.                                             *)
THEOREM CleanupIsComplete == Spec => CleanupLeavesNothing
<1> USE ProcessesAreDisjoint, CheckIsElevated
<1>1. TypeOK /\ CleanupInv /\ [Next]_vars => CleanupInv'
  BY CleanupStep
<1>2. ASSUME TypeOK, OwedInv, CleanupInv, [Next]_vars,
             NEW p \in Admin \ (met \cup late), NEW d \in Drv,
             pc[p] = "remove", cur[p] = d, pc'[p] \in {"stop", AfterCleanup(p)},
             ~ HeldBy(d, Proc)
      PROVE  d \notin files' /\ svc'[d] = "absent"
  <2>0. pc'[p] \in {"stop", "release", "returned"} /\ p \in Proc
    BY <1>2 DEF AfterCleanup
  <2>1. \A q \in Proc \ {p} : ~ OwnStep(q)
    BY <1>2, <2>0, Locality
  <2>2. ~ (Antivirus \/ AppStarts \/ UNCHANGED vars)
    BY <1>2, <2>0 DEF Antivirus, AppStarts, procVars, scmVars, vars
  <2>3. ~ (p \in Gen2 /\ (Gen2Call(p) \/ Release(p))) /\ ~ Exit(p) /\ ~ Crash(p)
    BY <1>2, <2>0 DEF Gen2Call, Acquire, AcquireBypass, MayCall,
       Release, Exit, Crash, End, Go, TypeOK
  <2>4. ~ CheckOnlyStep(p)
    BY <1>2 DEF CheckOnlyStep, CheckBegin, Probe, CheckDeploy, CheckQuery,
       CheckOpen, CheckClose
  <2>5. InnerStep(p)
    BY <1>2, <2>1, <2>2, <2>3, <2>4, StepKinds DEF OwnStep
  <2>6. Remove(p)
    BY <1>2, <2>5 DEF InnerStep, Stat, Load, Query, Redeploy, Create, Start,
       StartFails, RetryDelete, Use, OpenTs, OpenWr, Work, ReopenClose, Reopen,
       Tail, Close, Cleanup, Gate, Stop, Drop
  <2>7. svc[d] = "absent" \/ svc[d] = "stopping"
    BY <1>2 DEF CleanupInv, Swept
  <2> QED
    BY <1>2, <2>6, <2>7 DEF Remove, RemoveFile, Loaded, OwedInv, PendingIsHeld
<1>3. TypeOK /\ OwedInv /\ CleanupInv /\ [Next]_vars
        => [\A p \in Admin \ (met \cup late) : \A d \in Drv :
              (pc[p] = "remove" /\ cur[p] = d /\ pc'[p] \in {"stop", AfterCleanup(p)}
                 /\ ~ HeldBy(d, Proc))
              => d \notin files' /\ svc'[d] = "absent"]_vars
  BY <1>2
<1> QED
  BY <1>1, <1>3, CleanupInit, Typing, OwedInvariant, PTL
     DEF Spec, CleanupLeavesNothing

-----------------------------------------------------------------------------
(* The gate keeps every process out of the calls that stop a driver.       *)
LEMMA GateOwn ==
    ASSUME TypeOK, GateInv, NEW q \in Proc, OwnStep(q), pc'[q] \in Removing
    PROVE  pc[q] \in Removing \/ (~ resident /\ ~ app)
<1> USE ProcessesAreDisjoint DEF Removing, TypeOK, Go, SetCur, ForNext
<1>1. CASE q \in Gen2 /\ (Gen2Call(q) \/ Release(q))
  BY <1>1 DEF Gen2Call, Acquire, AcquireBypass, Release
<1>2. CASE Stat(q) \/ Load(q)
  BY <1>2 DEF Stat, Load, Query, Redeploy, Create, Start, StartFails, RetryDelete,
     Loaders, AfterLoading
<1>3. CASE Use(q)
  BY <1>3 DEF Use, OpenTs, OpenWr, Work, ReopenClose, Reopen, Tail, Close
<1>4. CASE Cleanup(q)
  BY <1>4 DEF Cleanup, Gate, Stop, Drop, Remove, AfterCleanup
<1>5. CASE CheckOnlyStep(q)
  BY <1>5 DEF CheckOnlyStep, CheckBegin, Probe, CheckDeploy, CheckQuery,
     CheckOpen, CheckClose
<1>6. CASE Exit(q) \/ Crash(q)
  BY <1>6 DEF Exit, Crash, End
<1> QED BY <1>1, <1>2, <1>3, <1>4, <1>5, <1>6 DEF InnerStep, OwnStep

LEMMA GateStep == TypeOK /\ GateInv /\ [Next]_vars => GateInv'
<1> SUFFICES ASSUME TypeOK, GateInv, [Next]_vars, NEW p \in Proc, pc'[p] \in Removing
             PROVE  ~ resident' /\ (app' => p \in late')
  BY DEF GateInv
<1>0. resident' = resident
  BY ResidentIsFixed
<1>1. ASSUME NEW q \in Proc, OwnStep(q), app' = app, Record
      PROVE  ~ resident' /\ (app' => p \in late')
  <2>1. pc[p] \in Removing \/ (~ resident /\ ~ app)
    BY <1>1, GateOwn, Locality
  <2> QED BY <1>0, <1>1, <2>1 DEF GateInv, Record
<1>2. CASE Antivirus /\ app' = app /\ Record
  BY <1>0, <1>2 DEF Antivirus, procVars, GateInv, Record
<1>3. CASE AppStarts /\ Record
  BY <1>0, <1>3 DEF AppStarts, procVars, GateInv, Record
<1>4. CASE UNCHANGED vars
  BY <1>4 DEF vars, procVars, settings, history, GateInv
<1> QED BY <1>1, <1>2, <1>3, <1>4, StepKinds, RecordKept

(* The only call that ends a running driver is sc stop: a loaded driver    *)
(* survives sc delete, and closing a handle unloads only what was stopped. *)
LEMMA OnlyStopStops ==
    ASSUME TypeOK, NEW d \in Drv, svc[d] = "running", svc'[d] # "running", [Next]_vars
    PROVE  \E q \in Proc : Stop(q) /\ cur[q] = d
<1> USE ProcessesAreDisjoint DEF TypeOK, ScmTypeOK
<1>1. ASSUME NEW q \in Proc, OwnStep(q) PROVE Stop(q) /\ cur[q] = d
  <2>1. CASE q \in Gen2 /\ (Gen2Call(q) \/ Release(q))
    BY <2>1 DEF Gen2Call, Acquire, AcquireBypass, Release
  <2>2. CASE Stat(q) \/ Load(q)
    BY <2>2 DEF Stat, Load, Query, Redeploy, Create, Start, StartFails,
       RetryDelete, ScCreate, ScStart, ScDelete, Loaded
  <2>3. CASE Use(q)
    BY <2>3 DEF Use, OpenTs, OpenWr, Work, ReopenClose, Reopen, Tail, Close,
       CloseHandles
  <2>4. CASE Gate(q) \/ Drop(q) \/ Remove(q)
    BY <2>4 DEF Gate, Drop, Remove, ScDelete, Loaded
  <2>5. CASE Stop(q)
    BY <2>5 DEF Stop, ScStop
  <2>6. CASE CheckOnlyStep(q)
    BY <2>6 DEF CheckOnlyStep, CheckBegin, Probe, CheckDeploy, CheckQuery,
       CheckOpen, CheckClose, CloseHandles
  <2>7. CASE Exit(q) \/ Crash(q)
    BY <2>7 DEF Exit, Crash, End, CloseHandles
  <2> QED
    BY <1>1, <2>1, <2>2, <2>3, <2>4, <2>5, <2>6, <2>7 DEF InnerStep, Cleanup, OwnStep
<1>2. CASE Antivirus \/ UNCHANGED vars
  BY <1>2 DEF Antivirus, AvRemovesFile, procVars, scmVars, vars
<1>3. CASE AppStarts
  BY <1>3 DEF AppStarts, Drv
<1> QED BY <1>1, <1>2, <1>3, StepKinds

LEMMA GateInvariant == Spec => []GateInv
<1>1. Init => GateInv
  BY DEF Init, GateInv, Removing
<1> QED
  BY <1>1, GateStep, Typing, PTL DEF Spec

(* The driver of a running ThrottleStop application is stopped only by a   *)
(* clean-up that had looked at the process list before the application was *)
(* started, with any number of Gen2 and Check processes and the mutex as   *)
(* it is; afterwards by none.                                              *)
THEOREM AppDriverStays == Spec => AppKeepsItsDriver
<1>1. ASSUME TypeOK, GateInv, [Next]_vars, app,
             svc["ThrottleStop"] = "running", svc'["ThrottleStop"] # "running"
      PROVE  \E p \in late : pc[p] = "stop" /\ cur[p] = "ThrottleStop"
                               /\ pc'[p] = "drop"
  <2>1. PICK q \in Proc : Stop(q) /\ cur[q] = "ThrottleStop"
    BY <1>1, OnlyStopStops DEF Drv
  <2>2. pc[q] = "stop" /\ pc'[q] = "drop"
    BY <1>1, <2>1 DEF Stop, Go, TypeOK
  <2>3. q \in late
    BY <1>1, <2>2 DEF GateInv, Removing
  <2> QED BY <2>1, <2>2, <2>3
<1>2. TypeOK /\ GateInv /\ [Next]_vars
        => [app /\ svc["ThrottleStop"] = "running" /\ svc'["ThrottleStop"] # "running"
              => \E p \in late : pc[p] = "stop" /\ cur[p] = "ThrottleStop"
                                   /\ pc'[p] = "drop"]_vars
  BY <1>1
<1> QED
  BY <1>2, GateInvariant, Typing, PTL DEF Spec, AppKeepsItsDriver

(* The resident strategy keeps its promise: no session and no diagnosis    *)
(* ever stops a running driver, however they overlap and on whatever retry *)
(* path they are.                                                          *)
THEOREM ResidentKeeps == Spec => ResidentNeverUnloads
<1>1. ASSUME TypeOK, GateInv, [Next]_vars, resident, NEW d \in Drv, svc[d] = "running"
      PROVE  svc'[d] = "running"
  <2> SUFFICES ASSUME svc'[d] # "running" PROVE FALSE
    OBVIOUS
  <2>1. PICK q \in Proc : Stop(q)
    BY <1>1, OnlyStopStops
  <2> QED BY <1>1, <2>1 DEF Stop, GateInv, Removing
<1>2. TypeOK /\ GateInv /\ [Next]_vars
        => [resident => \A d \in Drv : svc[d] = "running" => svc'[d] = "running"]_vars
  BY <1>1
<1> QED
  BY <1>2, GateInvariant, Typing, PTL DEF Spec, ResidentNeverUnloads

-----------------------------------------------------------------------------
(* How long a process runs.                                                *)

(* A bound on the calls still to come at place c, for driver d, in attempt *)
(* a: loading takes at most ten for a driver, with its second attempt.     *)
OtherDriver(d) == IF d = First THEN 10 ELSE 0
SecondTry(a) == IF a = 1 THEN 0 ELSE 4

LoadingLeft(c, a) ==
    IF c = "cdeploy" THEN 10 ELSE IF c = "cquery" THEN 9
    ELSE IF c = "query" THEN 8 ELSE IF c = "redeploy" THEN 7 - SecondTry(a)
    ELSE IF c = "create" THEN 6 - SecondTry(a)
    ELSE IF c = "start" THEN 5 - SecondTry(a) ELSE 4

UsingLeft(c, d) ==
    IF c = "openTS" \/ c = "read" THEN 29
    ELSE IF c = "openWR" \/ c = "reading" THEN 28
    ELSE IF c = "work" \/ c = "dump" THEN 27
    ELSE IF c = "reclose" \/ c = "dumping" THEN 26
    ELSE IF c = "reopen" THEN (IF d = First THEN 25 ELSE 24)
    ELSE IF c = "tail" THEN 23 ELSE 22

CleaningLeft(c, d) ==
    IF c = "gate" THEN 21 ELSE IF c = "release" THEN 1
    ELSE (IF d = First THEN 10 ELSE 0) +
         (IF c = "stop" THEN 9 ELSE IF c = "drop" THEN 8 ELSE 7)

CallsLeft(c, d, a) ==
    IF c \in {"idle", "returned"} THEN 0
    ELSE IF c = "stat" \/ c = "probe" THEN (IF d = First THEN 62 ELSE 61)
    ELSE IF c \in Loading \cup {"cdeploy", "cquery"}
         THEN 30 + OtherDriver(d) + LoadingLeft(c, a)
    ELSE IF c \in Cleaning THEN CleaningLeft(c, d)
    ELSE UsingLeft(c, d)

RunLeft(p) == CallsLeft(pc[p], cur[p], att[p])

(* Each call of a process brings its end nearer, and no other process puts *)
(* it off.                                                                 *)
RunsDown ==
    /\ \A p \in Gen2 : Gen2Step(p) => RunLeft(p)' < RunLeft(p)
    /\ \A c \in Check : CheckStep(c) => RunLeft(c)' < RunLeft(c)
    /\ \A p \in Proc : pc[p] \notin {"idle", "returned"} => RunLeft(p)' <= RunLeft(p)

RunIsBounded == \A p \in Proc : RunLeft(p) \in 0 .. 62
LEMMA CallsLeftBound ==
    ASSUME NEW c \in PC, NEW d \in Drv, NEW a \in {1, 2}
    PROVE  CallsLeft(c, d, a) \in 0 .. 62
<1> USE DEF Drv, First
<1>1. LoadingLeft(c, a) \in 0 .. 10 /\ OtherDriver(d) \in {0, 10}
  BY DEF LoadingLeft, SecondTry, OtherDriver
<1>2. UsingLeft(c, d) \in 22 .. 29
  BY DEF UsingLeft
<1>3. CleaningLeft(c, d) \in 0 .. 21
  BY DEF CleaningLeft
<1> QED BY <1>1, <1>2, <1>3 DEF CallsLeft

(* What one step of a process does to its own place in the code.           *)
Pace(p, c, d, a) == pc'[p] = c /\ cur'[p] = d /\ att'[p] = a

LEMMA RunLeftNext ==
    ASSUME NEW p \in Proc
    PROVE  RunLeft(p)' = CallsLeft(pc'[p], cur'[p], att'[p])
  BY DEF RunLeft, CallsLeft, LoadingLeft, UsingLeft, CleaningLeft, OtherDriver,
         SecondTry

LEMMA LoadStep ==
    ASSUME TypeOK, NEW p \in Proc, Load(p) PROVE RunLeft(p)' < RunLeft(p)
<1> DEFINE d == cur[p]
           a == att[p]
<1>0. d \in {First, Last} /\ First # Last /\ a \in {1, 2}
  BY DEF TypeOK, Drv, First, Last
<1>1. RunLeft(p)' = CallsLeft(pc'[p], cur'[p], att'[p])
  BY RunLeftNext
<1>2. RunLeft(p) = CallsLeft(pc[p], d, a)
  BY DEF RunLeft
<1>3. pc \in [Proc -> PC] /\ cur \in [Proc -> Drv] /\ att \in [Proc -> {1, 2}]
  BY DEF TypeOK
<1> USE <1>0, <1>1, <1>2
    DEF Pace, CallsLeft, LoadingLeft, UsingLeft, CleaningLeft, OtherDriver, SecondTry,
        Loading, Cleaning
<1>4. CASE Query(p)
  <2>1. /\ pc[p] = "query"
        /\ \/ d = First /\ Pace(p, "query", Last, 1)
           \/ d # First /\ Pace(p, "openTS", First, 1)
           \/ Pace(p, "redeploy", d, 1)
    BY <1>3, <1>4 DEF Query, ForNext, Go, SetCur
  <2> QED BY <2>1
<1>5. CASE Redeploy(p)
  <2>1. pc[p] = "redeploy" /\ Pace(p, "create", d, a)
    BY <1>3, <1>5 DEF Redeploy, Go
  <2> QED BY <2>1
<1>6. CASE Create(p)
  <2>1. pc[p] = "create" /\ Pace(p, "start", d, a)
    BY <1>3, <1>6 DEF Create, Go
  <2> QED BY <2>1
<1>7. CASE Start(p) \/ StartFails(p)
  <2>1. /\ pc[p] = "start"
        /\ \/ a = 1 /\ Pace(p, "delete", d, a)
           \/ d = First /\ Pace(p, IF p \in Check THEN "cdeploy" ELSE "query", Last, a)
           \/ d # First /\ Pace(p, IF p \in Check THEN "read" ELSE "openTS", First, a)
    BY <1>3, <1>7 DEF Start, StartFails, ForNext, Go, SetCur, Loaders, AfterLoading
  <2> QED BY <2>1
<1>8. CASE RetryDelete(p)
  <2>1. pc[p] = "delete" /\ Pace(p, IF p \in Check THEN "create" ELSE "redeploy", d, 2)
    BY <1>3, <1>8 DEF RetryDelete, Go
  <2> QED BY <2>1
<1> QED BY <1>4, <1>5, <1>6, <1>7, <1>8 DEF Load

LEMMA UseStep ==
    ASSUME TypeOK, NEW p \in Proc, Use(p) \/ Stat(p) PROVE RunLeft(p)' < RunLeft(p)
<1> DEFINE d == cur[p]
           a == att[p]
<1>0. d \in {First, Last} /\ First # Last /\ a \in {1, 2}
  BY DEF TypeOK, Drv, First, Last
<1>1. RunLeft(p)' = CallsLeft(pc'[p], cur'[p], att'[p])
  BY RunLeftNext
<1>2. RunLeft(p) = CallsLeft(pc[p], d, a)
  BY DEF RunLeft
<1>3. pc \in [Proc -> PC] /\ cur \in [Proc -> Drv] /\ att \in [Proc -> {1, 2}]
  BY DEF TypeOK
<1> USE <1>0, <1>1, <1>2
    DEF Pace, CallsLeft, LoadingLeft, UsingLeft, CleaningLeft, OtherDriver, SecondTry,
        Loading, Cleaning
<1>4. CASE Stat(p)
  <2>1. /\ pc[p] = "stat"
        /\ \/ d = First /\ Pace(p, "stat", Last, a)
           \/ d # First /\ Pace(p, "query", First, a)
    BY <1>3, <1>4 DEF Stat, ForNext, Go, SetCur
  <2> QED BY <2>1
<1>5. CASE OpenTs(p)
  <2>1. pc[p] = "openTS" /\ pc'[p] \in {"openWR", "gate"} /\ Pace(p, pc'[p], d, a)
    BY <1>3, <1>5 DEF OpenTs, Go
  <2> QED BY <2>1
<1>6. CASE OpenWr(p)
  <2>1. pc[p] = "openWR" /\ pc'[p] \in {"work", "gate"} /\ Pace(p, pc'[p], d, a)
    BY <1>3, <1>6 DEF OpenWr, Go
  <2> QED BY <2>1
<1>7. CASE Work(p)
  <2>1. pc[p] = "work" /\ pc'[p] \in {"reclose", "close"} /\ Pace(p, pc'[p], d, a)
    BY <1>3, <1>7 DEF Work, Go
  <2> QED BY <2>1
<1>8. CASE ReopenClose(p)
  <2>1. pc[p] = "reclose" /\ Pace(p, "reopen", d, a)
    BY <1>3, <1>8 DEF ReopenClose, Go
  <2> QED BY <2>1
<1>9. CASE Reopen(p)
  <2>1. /\ pc[p] = "reopen"
        /\ \/ d = First /\ Pace(p, "reopen", Last, a)
           \/ pc'[p] \in {"tail", "close"} /\ Pace(p, pc'[p], First, a)
    BY <1>3, <1>9 DEF Reopen, ForNext, Go, SetCur
  <2> QED BY <2>1
<1>10. CASE Tail(p) \/ Close(p)
  <2>1. \/ pc[p] = "tail" /\ Pace(p, "close", d, a)
        \/ pc[p] = "close" /\ Pace(p, "gate", d, a)
    BY <1>3, <1>10 DEF Tail, Close, Go
  <2> QED BY <2>1
<1> QED BY <1>4, <1>5, <1>6, <1>7, <1>8, <1>9, <1>10 DEF Use

LEMMA CleanStep ==
    ASSUME TypeOK, NEW p \in Proc, Cleanup(p) \/ Release(p)
    PROVE  RunLeft(p)' < RunLeft(p)
<1> DEFINE d == cur[p]
           a == att[p]
<1>0. d \in {First, Last} /\ First # Last /\ a \in {1, 2}
  BY DEF TypeOK, Drv, First, Last
<1>1. RunLeft(p)' = CallsLeft(pc'[p], cur'[p], att'[p])
  BY RunLeftNext
<1>2. RunLeft(p) = CallsLeft(pc[p], d, a)
  BY DEF RunLeft
<1>3. pc \in [Proc -> PC] /\ cur \in [Proc -> Drv] /\ att \in [Proc -> {1, 2}]
  BY DEF TypeOK
<1> USE <1>0, <1>1, <1>2
    DEF Pace, CallsLeft, CleaningLeft, Loading, Cleaning
<1>4. CASE Gate(p)
  <2>1. /\ pc[p] = "gate" /\ pc'[p] \in {"returned", "release", "stop"}
        /\ Pace(p, pc'[p], d, a)
    BY <1>3, <1>4 DEF Gate, Go, AfterCleanup
  <2> QED BY <2>1
<1>5. CASE Stop(p) \/ Drop(p)
  <2>1. \/ pc[p] = "stop" /\ Pace(p, "drop", d, a)
        \/ pc[p] = "drop" /\ Pace(p, "remove", d, a)
    BY <1>3, <1>5 DEF Stop, Drop, Go
  <2> QED BY <2>1
<1>6. CASE Remove(p)
  <2>1. /\ pc[p] = "remove"
        /\ \/ d = First /\ Pace(p, "stop", Last, a)
           \/ pc'[p] \in {"returned", "release"} /\ Pace(p, pc'[p], First, a)
    BY <1>3, <1>6 DEF Remove, ForNext, Go, SetCur, AfterCleanup
  <2> QED BY <2>1
<1>7. CASE Release(p)
  <2>1. pc[p] = "release" /\ Pace(p, "returned", d, a)
    BY <1>3, <1>7 DEF Release, Go
  <2> QED BY <2>1
<1> QED BY <1>4, <1>5, <1>6, <1>7 DEF Cleanup

LEMMA DiagnoseStep ==
    ASSUME TypeOK, NEW p \in Proc,
           \/ Probe(p) \/ CheckDeploy(p) \/ CheckQuery(p) \/ CheckOpen(p) \/ CheckClose(p)
    PROVE  RunLeft(p)' < RunLeft(p)
<1> DEFINE d == cur[p]
           a == att[p]
<1>0. d \in {First, Last} /\ First # Last /\ a \in {1, 2}
  BY DEF TypeOK, Drv, First, Last
<1>1. RunLeft(p)' = CallsLeft(pc'[p], cur'[p], att'[p])
  BY RunLeftNext
<1>2. RunLeft(p) = CallsLeft(pc[p], d, a)
  BY DEF RunLeft
<1>3. pc \in [Proc -> PC] /\ cur \in [Proc -> Drv] /\ att \in [Proc -> {1, 2}]
  BY DEF TypeOK
<1> USE <1>0, <1>1, <1>2
    DEF Pace, CallsLeft, LoadingLeft, UsingLeft, CleaningLeft, OtherDriver, SecondTry,
        Loading, Cleaning
<1>4. CASE Probe(p)
  <2>1. /\ pc[p] = "probe"
        /\ \/ d = First /\ Pace(p, "probe", Last, 1)
           \/ pc'[p] \in {"cdeploy", "read"} /\ Pace(p, pc'[p], First, 1)
    BY <1>3, <1>4 DEF Probe, ForNext, Go, SetCur
  <2> QED BY <2>1
<1>5. CASE CheckDeploy(p)
  <2>1. pc[p] = "cdeploy" /\ Pace(p, "cquery", d, a)
    BY <1>3, <1>5 DEF CheckDeploy, Go
  <2> QED BY <2>1
<1>6. CASE CheckQuery(p)
  <2>1. /\ pc[p] = "cquery"
        /\ \/ d = First /\ Pace(p, "cdeploy", Last, a)
           \/ d # First /\ Pace(p, "read", First, a)
           \/ Pace(p, "create", d, 1)
    BY <1>3, <1>6 DEF CheckQuery, ForNext, Go, SetCur
  <2> QED BY <2>1
<1>7. CASE CheckOpen(p)
  <2>1. \/ pc[p] = "read" /\ Pace(p, "reading", d, a)
        \/ pc[p] = "dump" /\ Pace(p, "dumping", d, a)
    BY <1>3, <1>7 DEF CheckOpen, Go
  <2> QED BY <2>1
<1>8. CASE CheckClose(p)
  <2>1. \/ pc[p] = "reading" /\ Pace(p, "dump", d, a)
        \/ /\ pc[p] = "dumping" /\ pc'[p] \in {"returned", "gate"}
           /\ Pace(p, pc'[p], d, a)
    BY <1>3, <1>8 DEF CheckClose, Go
  <2> QED BY <2>1
<1> QED BY <1>4, <1>5, <1>6, <1>7, <1>8

LEMMA AttemptIsOwn ==
    ASSUME TypeOK, NEW q \in Proc,
           OwnStep(q)
    PROVE  \A p \in Proc \ {q} : att'[p] = att[p]
<1> USE DEF TypeOK
<1>1. CASE q \in Gen2 /\ (Gen2Call(q) \/ Release(q))
  BY <1>1 DEF Gen2Call, Acquire, AcquireBypass, Release
<1>2. CASE Stat(q) \/ Load(q)
  BY <1>2 DEF Stat, Load, Query, Redeploy, Create, Start, StartFails, RetryDelete
<1>3. CASE Use(q) \/ Cleanup(q)
  BY <1>3 DEF Use, OpenTs, OpenWr, Work, ReopenClose, Reopen, Tail, Close,
              Cleanup, Gate, Stop, Drop, Remove
<1>4. CASE q \in Check /\ CheckOnlyStep(q)
  BY <1>4 DEF CheckOnlyStep, CheckBegin, Probe, CheckDeploy, CheckQuery, CheckOpen,
              CheckClose
<1>5. CASE Exit(q) \/ Crash(q)
  BY <1>5 DEF Exit, Crash, End
<1> QED BY <1>1, <1>2, <1>3, <1>4, <1>5 DEF InnerStep, OwnStep

(* Other processes do not touch the place of a process.                    *)
LEMMA RunKeeps ==
    ASSUME TypeOK, [Next]_vars, NEW p \in Proc, pc[p] \notin {"idle", "returned"}
    PROVE  RunLeft(p)' <= RunLeft(p)
<1>0. RunLeft(p) \in 0 .. 62 /\ RunLeft(p)' \in 0 .. 62
  <2>1. TypeOK'
    BY TypeStep
  <2>2. /\ pc[p] \in PC /\ cur[p] \in Drv /\ att[p] \in {1, 2}
        /\ pc'[p] \in PC /\ cur'[p] \in Drv /\ att'[p] \in {1, 2}
    BY <2>1 DEF TypeOK
  <2>3. CallsLeft(pc'[p], cur'[p], att'[p]) \in 0 .. 62
    BY <2>2, CallsLeftBound
  <2> QED BY <2>2, <2>3, CallsLeftBound, RunLeftNext DEF RunLeft
<1>1. ASSUME Stat(p) \/ Load(p) \/ Use(p) \/ Cleanup(p) \/ Release(p)
             \/ Probe(p) \/ CheckDeploy(p) \/ CheckQuery(p) \/ CheckOpen(p) \/ CheckClose(p)
      PROVE  RunLeft(p)' <= RunLeft(p)
  <2>1. RunLeft(p)' < RunLeft(p)
    BY <1>1, LoadStep, UseStep, CleanStep, DiagnoseStep
  <2> QED BY <1>0, <2>1
<1>2. ASSUME pc'[p] = pc[p], cur'[p] = cur[p], att'[p] = att[p]
      PROVE  RunLeft(p)' <= RunLeft(p)
  BY <1>0, <1>2, RunLeftNext DEF RunLeft
<1>3. ASSUME NEW q \in Proc,
             OwnStep(q)
      PROVE  RunLeft(p)' <= RunLeft(p)
  <2>1. CASE q # p
    BY <1>2, <1>3, <2>1, Locality, AttemptIsOwn
  <2>2. CASE q = p /\ (Exit(p) \/ Crash(p))
    <3>1. pc'[p] = "idle"
      BY <2>2 DEF Exit, Crash, End, Go, TypeOK
    <3>2. RunLeft(p)' = 0
      BY <3>1, RunLeftNext DEF CallsLeft
    <3> QED BY <1>0, <3>2
  <2>3. CASE q = p /\ (Gen2Call(p) \/ CheckBegin(p))
    BY <2>3 DEF Gen2Call, Acquire, AcquireBypass, MayCall, CheckBegin
  <2> QED BY <1>1, <1>3, <2>1, <2>2, <2>3 DEF InnerStep, CheckOnlyStep, OwnStep
<1>4. CASE Antivirus \/ AppStarts \/ UNCHANGED vars
  BY <1>2, <1>4 DEF Antivirus, AppStarts, vars, procVars
<1> QED BY <1>3, <1>4, StepKinds, ProcessesAreDisjoint

(* A session, and a diagnosis, end after at most 62 calls, whatever fails  *)
(* and whatever other processes do to the drivers meanwhile: no driver is  *)
(* tried a third time, and no handle is reopened twice.                    *)
THEOREM ProcessesRunDown == Spec => []RunIsBounded /\ [][RunsDown]_vars
<1>1. TypeOK => RunIsBounded
  BY CallsLeftBound DEF TypeOK, RunIsBounded, RunLeft
<1>2. TypeOK /\ [Next]_vars => [RunsDown]_vars
  <2> SUFFICES ASSUME TypeOK, [Next]_vars PROVE RunsDown
    OBVIOUS
  <2>1. ASSUME NEW p \in Gen2, Gen2Step(p) PROVE RunLeft(p)' < RunLeft(p)
    BY <2>1, ProcessesAreDisjoint, LoadStep, UseStep, CleanStep DEF Gen2Step
  <2>2. ASSUME NEW c \in Check, CheckStep(c) PROVE RunLeft(c)' < RunLeft(c)
    BY <2>2, ProcessesAreDisjoint, LoadStep, CleanStep, DiagnoseStep DEF CheckStep
  <2>3. \A p \in Proc : pc[p] \notin {"idle", "returned"} => RunLeft(p)' <= RunLeft(p)
    BY RunKeeps
  <2> QED BY <2>1, <2>2, <2>3 DEF RunsDown
<1> QED BY <1>1, <1>2, ScmInitTypeOK, TypeStep, PTL DEF Spec
=============================================================================
