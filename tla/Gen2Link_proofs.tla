---------------------------- MODULE Gen2Link_proofs ----------------------------
(***************************************************************************)
(* Proofs about the link work of the Gen2 sessions, for any number of      *)
(* manual sessions, retries, rounds, starts and mishaps.                   *)
(***************************************************************************)
EXTENDS Gen2Link, TLAPS

LEMMA InitTypeOK == Init => TypeOK
<1> SUFFICES ASSUME Init PROVE TypeOK
  OBVIOUS
<1>1. /\ 0 \in 0 .. RetryCount /\ 0 \in 0 .. Rounds - 1
      /\ 0 \in 0 .. Starts /\ 0 \in 0 .. Mishaps
  BY LimitsAreNatural
<1>2. /\ pc \in [Procs -> Away \cup Inside]
      /\ stage \in [Procs -> {"retrain", "hard", "only"}]
      /\ ctl \in [Procs -> BOOLEAN] /\ half \in [Procs -> {1, 2}]
      /\ fast \in [Procs -> BOOLEAN]
  BY DEF Init, Away
<1>3. round \in [Procs -> 0 .. Rounds - 1] /\ depth \in [Procs -> 0 .. RetryCount]
  BY <1>1 DEF Init
<1>4. /\ task \in 0 .. RetryCount
      /\ starts \in 0 .. Starts /\ mishaps \in 0 .. Mishaps
  BY <1>1 DEF Init
<1> QED BY <1>2, <1>3, <1>4 DEF Init, TypeOK

(* What a session's step does to the control flow.                         *)
LEMMA SessionType == ASSUME TypeOK, NEW p \in Procs, Session(p) PROVE TypeOK'
<1> USE LimitsAreNatural
    DEF TypeOK, Go, Set, link, local, config, history, budget, Inside, Working,
        Away
<1>2. CASE Find(p)
  BY <1>2 DEF Find
<1>3. CASE Target(p)
  BY <1>3 DEF Target
<1>4. CASE Pulse(p)
  BY <1>4 DEF Pulse
<1>5. CASE Modify(p)
  BY <1>5 DEF Modify, AtRoot
<1>7. CASE Measure(p)
  <2>1. Head(p) \in Inside /\ Tail(p) \in Inside
    BY DEF Head, Tail
  <2>2. pc' \in [Procs -> Away \cup Inside]
    BY <1>7, <2>1 DEF Measure
  <2>3. round' \in [Procs -> 0 .. Rounds - 1]
    BY <1>7 DEF Measure
  <2>4. fast' \in [Procs -> BOOLEAN]
    <3>1. PICK v \in Speeds : UNCHANGED fast \/ fast' = [fast EXCEPT ![p] = (v = 2)]
      BY <1>7 DEF Measure
    <3> QED BY Zenon, <3>1
  <2> QED BY <1>7, <2>2, <2>3, <2>4 DEF Measure
<1>8. CASE Judge(p)
  BY <1>8 DEF Judge, Schedule
<1>9. CASE Fallback(p)
  BY <1>9 DEF Fallback
<1>10. CASE Disable(p)
  BY <1>10 DEF Disable
<1>11. CASE Enable(p)
  BY <1>11 DEF Enable
<1>12. CASE First(p)
  BY <1>12 DEF First
<1>13. CASE Recover(p)
  <2>1. lost' \in BOOLEAN /\ tls' \in {1, 2} /\ stuck' \in BOOLEAN
        /\ orphan' \in BOOLEAN /\ echoed' \in BOOLEAN
    BY <1>13 DEF Recover, Restart, history
  <2> QED BY <1>13, <2>1 DEF Recover, VerdictHard, Schedule
<1>14. CASE Reopen(p)
  BY <1>14 DEF Reopen, VerdictHard, Schedule
<1>15. CASE Only(p)
  BY <1>15 DEF Only
<1>16. CASE Finish(p)
  BY <1>16 DEF Finish, VerdictHard, Schedule
<1>17. CASE Release(p)
  BY <1>17 DEF Release, Forget, After
<1> QED
  BY <1>2, <1>3, <1>4, <1>5, <1>7, <1>8, <1>9, <1>10, <1>11, <1>12, <1>13,
     <1>14, <1>15, <1>16, <1>17 DEF Session

LEMMA TypeStep == TypeOK /\ [Next]_vars => TypeOK'
<1> SUFFICES ASSUME TypeOK, [Next]_vars PROVE TypeOK'
  OBVIOUS
<1> USE LimitsAreNatural
    DEF TypeOK, Go, Set, link, local, config, history, budget, Inside, Working,
        Away
<1>1. ASSUME NEW p \in Procs, Session(p) PROVE TypeOK'
  BY <1>1, SessionType
<1>2. ASSUME NEW p \in Procs, Begin(p) PROVE TypeOK'
  BY <1>2 DEF Begin
<1>3. ASSUME NEW p \in Procs, Kill(p) PROVE TypeOK'
  BY <1>3 DEF Kill, Forget
<1>4. CASE Fire
  <2>1. "retry" \in Procs
    BY DEF Procs
  <2>2. depth' \in [Procs -> 0 .. RetryCount]
    BY <1>4, <2>1 DEF Fire
  <2>3. pc' \in [Procs -> Away \cup Inside]
    BY <1>4, <2>1 DEF Fire
  <2>4. task' = 0 /\ 0 \in 0 .. RetryCount
    BY <1>4 DEF Fire
  <2> QED BY <1>4, <2>2, <2>3, <2>4 DEF Fire
<1>5. CASE GuardRepairs
  BY ZenonT(40), <1>5 DEF GuardRepairs, Procs
<1>7. CASE DriverReload
  BY <1>7 DEF DriverReload
<1>8. CASE UNCHANGED vars
  BY <1>8 DEF vars
<1> QED
  BY <1>1, <1>2, <1>3, <1>4, <1>5, <1>7, <1>8 DEF Next

(* Every variable keeps its shape; in particular no retry is ever armed    *)
(* beyond the budget, whatever the sessions, kills and reloads.            *)
THEOREM LinkTyping == Spec => []TypeOK
  BY InitTypeOK, TypeStep, PTL DEF Spec

-----------------------------------------------------------------------------
(* The link and the GPU.                                                   *)
LinkIInv == TypeOK /\ StageInv /\ SnapshotInv /\ LinkInv /\ LostInv

LEMMA InitIInv == Init => LinkIInv
<1> SUFFICES ASSUME Init PROVE LinkIInv
  OBVIOUS
<1>1. \A p \in Procs : pc[p] = "off" /\ ~ ctl[p]
  BY DEF Init
<1>2. StageInv /\ SnapshotInv
  BY <1>1 DEF StageInv, SnapshotInv
<1>3. LinkInv /\ LostInv
  BY DEF Init, LinkInv, LostInv
<1> QED BY <1>2, <1>3, InitTypeOK DEF LinkIInv

LEMMA StageStep ==
    ASSUME TypeOK, StageInv, [Next]_vars PROVE StageInv'
<1> USE DEF TypeOK, StageInv, Go, Set, local, config
<1>1. ASSUME NEW p \in Procs, Session(p) PROVE StageInv'
  <2>1. CASE Find(p) \/ Release(p)
    BY <2>1 DEF Find, Release, After, Forget
  <2>2. CASE Target(p) \/ Pulse(p) \/ Modify(p)
    BY <2>2 DEF Target, Pulse, Modify
  <2>3. CASE Measure(p)
    <3>1. /\ pc[p] = "measure"
          /\ pc' = [pc EXCEPT ![p] = Head(p)] \/ pc' = [pc EXCEPT ![p] = Tail(p)]
          /\ UNCHANGED <<stage, root>>
      BY <2>3 DEF Measure
    <3>2. /\ Head(p) \in {"pulse", "disable", "tls", "only"}
          /\ Head(p) = "disable" => root /\ stage[p] = "hard"
          /\ Head(p) = "only" => stage[p] = "only"
      BY DEF Head
    <3>3. /\ Tail(p) \in {"judge", "recover", "finish"}
          /\ Tail(p) = "judge" => stage[p] = "retrain"
          /\ Tail(p) = "recover" => stage[p] = "hard"
          /\ Tail(p) = "finish" => stage[p] = "only"
      BY DEF Tail
    <3> QED BY <3>1, <3>2, <3>3
  <2>4. CASE Judge(p) \/ Fallback(p) \/ Disable(p)
    BY <2>4 DEF Judge, Fallback, Disable
  <2>5. CASE Enable(p) \/ First(p) \/ Recover(p)
    BY <2>5 DEF Enable, First, Recover
  <2>6. CASE Reopen(p) \/ Only(p) \/ Finish(p)
    BY ZenonT(40), <2>6 DEF Reopen, Only, Finish
  <2> QED BY <1>1, <2>1, <2>2, <2>3, <2>4, <2>5, <2>6 DEF Session
<1>2. ASSUME NEW p \in Procs, Begin(p) \/ Kill(p) PROVE StageInv'
  BY <1>2 DEF Begin, Kill, Forget
<1>3. CASE Fire
  BY <1>3 DEF Fire
<1>4. CASE GuardRepairs
  BY <1>4 DEF GuardRepairs
<1>5. CASE DriverReload \/ UNCHANGED vars
  BY <1>5 DEF DriverReload, vars
<1> QED BY <1>1, <1>2, <1>3, <1>4, <1>5 DEF Next

(* A step that touches neither link, GPU nor history, and leaves the       *)
(* sessions where they are as far as these are concerned.                  *)
Aside ==
    /\ UNCHANGED <<dis, lost, orphan, echoed, stuck, root>>
    /\ \A q \in Procs : ctl'[q] => ctl[q]
    /\ \A q \in Procs : pc[q] = "enable" => pc'[q] = "enable"
    /\ \A q \in Procs : OwesGpu(q) => OwesGpu(q)'

LEMMA AsideKeeps ==
    ASSUME SnapshotInv, LinkInv, LostInv, Aside
    PROVE  SnapshotInv' /\ LinkInv' /\ LostInv'
<1>1. SnapshotInv'
  BY DEF SnapshotInv, Aside
<1>2. LinkInv'
  BY DEF LinkInv, Aside
<1>3. LostInv'
  BY DEF LostInv, Aside
<1> QED BY <1>1, <1>2, <1>3

LEMMA SessionAside ==
    ASSUME TypeOK, StageInv, NEW p \in Procs,
           \/ Find(p) \/ Target(p) \/ Measure(p) \/ Judge(p) \/ Fallback(p)
           \/ First(p) \/ Reopen(p) \/ Only(p) \/ Finish(p) \/ Release(p)
    PROVE  Aside
<1> USE DEF TypeOK, StageInv, Go, Set, link, local, config, budget, history,
            Aside, OwesGpu, Owing
<1>1. CASE Find(p) \/ Target(p) \/ First(p)
  BY <1>1 DEF Find, Target, First
<1>2. CASE Measure(p)
  <2>1. /\ stage[p] = "hard" => Head(p) \in Owing /\ Tail(p) \in Owing
        /\ pc[p] = "measure" /\ UNCHANGED <<stage, ctl, root>>
        /\ pc' = [pc EXCEPT ![p] = Head(p)] \/ pc' = [pc EXCEPT ![p] = Tail(p)]
    BY <1>2 DEF Measure, Head, Tail
  <2> QED BY <1>2, <2>1 DEF Measure
<1>3. CASE Judge(p) \/ Fallback(p)
  BY <1>3 DEF Judge, Fallback
<1>4. CASE Reopen(p) \/ Only(p) \/ Finish(p)
  BY <1>4 DEF Reopen, Only, Finish
<1>5. CASE Release(p)
  BY <1>5 DEF Release, Forget
<1> QED BY <1>1, <1>2, <1>3, <1>4, <1>5

(* The steps that do touch them.                                           *)
LEMMA LinkWork ==
    ASSUME TypeOK, StageInv, SnapshotInv, LinkInv, LostInv, NEW p \in Procs,
           Pulse(p) \/ Modify(p) \/ Disable(p) \/ Enable(p) \/ Recover(p)
    PROVE  SnapshotInv' /\ LinkInv' /\ LostInv'
<1> USE DEF Go, Set, local, config, budget, history
<1>1. CASE Pulse(p)
  <2>1. /\ UNCHANGED <<dis, lost, orphan, stuck, root, stage>>
        /\ pc[p] = "pulse" /\ pc' = [pc EXCEPT ![p] = "modify"]
        /\ echoed => echoed'
    BY <1>1 DEF Pulse, link
  <2>2. SnapshotInv'
    BY <1>1 DEF Pulse, SnapshotInv, TypeOK
  <2>3. LinkInv'
    BY <2>1 DEF LinkInv, TypeOK
  <2>4. \A q \in Procs : OwesGpu(q) => OwesGpu(q)'
    BY <2>1 DEF OwesGpu, Owing, TypeOK
  <2> QED BY <2>1, <2>2, <2>3, <2>4 DEF LostInv
<1>2. CASE Modify(p)
  <2>1. /\ dis' = IF AtRoot(p) THEN ctl[p] ELSE dis
        /\ lost' = (lost \/ ctl[p])
        /\ ctl' = [ctl EXCEPT ![p] = FALSE]
        /\ UNCHANGED <<orphan, echoed, stuck, root, stage>>
        /\ pc[p] = "modify"
        /\ \E to \in {"pulse", "measure"} : pc' = [pc EXCEPT ![p] = to]
    BY <1>2 DEF Modify
  <2>2. SnapshotInv' /\ (ctl[p] => echoed)
    BY <2>1 DEF SnapshotInv, TypeOK
  <2>3. LinkInv'
    BY <2>1, <2>2 DEF LinkInv, TypeOK
  <2>4. \A q \in Procs : OwesGpu(q) => OwesGpu(q)'
    BY <2>1 DEF OwesGpu, Owing, TypeOK
  <2> QED BY <2>1, <2>2, <2>3, <2>4 DEF LostInv
<1>3. CASE Disable(p)
  <2>1. /\ dis' = TRUE /\ lost' = TRUE /\ pc'[p] = "enable"
        /\ UNCHANGED <<orphan, echoed, stuck, root, stage, ctl>>
        /\ root /\ stage[p] = "hard"
    BY <1>3 DEF Disable, StageInv, TypeOK
  <2>2. OwesGpu(p)'
    BY <2>1 DEF OwesGpu, Owing
  <2> QED BY <2>1, <2>2 DEF SnapshotInv, LinkInv, LostInv
<1>4. CASE Enable(p)
  <2>1. /\ dis' = FALSE
        /\ UNCHANGED <<lost, orphan, echoed, stuck, root, stage, ctl>>
        /\ pc[p] = "enable"
        /\ \E to \in {"first", "tls"} : pc' = [pc EXCEPT ![p] = to]
    BY <1>4 DEF Enable
  <2>2. \A q \in Procs : OwesGpu(q) => OwesGpu(q)'
    BY <2>1 DEF OwesGpu, Owing, TypeOK
  <2> QED BY <2>1, <2>2 DEF SnapshotInv, LinkInv, LostInv
<1>5. CASE Recover(p)
  <2>0. /\ pc[p] = "recover" /\ UNCHANGED <<dis, stage, ctl, root>>
        /\ \E to \in {"reopen", "release"} : pc' = [pc EXCEPT ![p] = to]
    BY <1>5 DEF Recover
  <2>1. \A q \in Procs : pc[q] = "enable" => pc'[q] = "enable" /\ q # p
    BY <2>0 DEF TypeOK
  <2>2. \A q \in Procs \ {p} : OwesGpu(q) => OwesGpu(q)'
    BY <2>0 DEF OwesGpu, TypeOK
  <2>3. CASE /\ lost' = dis /\ stuck' = FALSE
             /\ orphan' = (orphan /\ dis)
             /\ echoed' = (echoed /\ (dis \/ \E q \in Procs : ctl[q]))
    <3>1. SnapshotInv'
      BY <2>0, <2>3 DEF SnapshotInv
    <3>2. LinkInv'
      BY <2>0, <2>1, <2>3 DEF LinkInv
    <3>3. ASSUME NEW q \in Procs, pc[q] = "enable" PROVE OwesGpu(q)'
      <4>1. OwesGpu(q) /\ q # p
        BY <2>1, <3>3, <1>5 DEF OwesGpu, Owing, StageInv
      <4> QED BY <2>2, <4>1
    <3>4. LostInv'
      BY <2>3, <3>3 DEF LostInv, LinkInv
    <3> QED BY <3>1, <3>2, <3>4
  <2>4. CASE /\ lost' \in {lost, TRUE} /\ stuck' = lost'
             /\ UNCHANGED <<orphan, echoed>>
    <3>1. SnapshotInv'
      BY <2>0, <2>4 DEF SnapshotInv
    <3>2. LinkInv'
      BY <2>0, <2>1, <2>4 DEF LinkInv
    <3>3. LostInv'
      BY <2>4 DEF LostInv
    <3> QED BY <3>1, <3>2, <3>3
  <2>5. CASE ~ root /\ UNCHANGED <<lost, orphan, echoed, stuck>>
    <3>1. SnapshotInv'
      BY <2>0, <2>5 DEF SnapshotInv
    <3>2. LinkInv'
      BY <2>0, <2>1, <2>5 DEF LinkInv
    <3>3. LostInv'
      BY <2>5 DEF LostInv, OwesGpu
    <3> QED BY <3>1, <3>2, <3>3
  <2> QED BY <1>5, <2>3, <2>4, <2>5 DEF Recover, Restart
<1> QED BY <1>1, <1>2, <1>3, <1>4, <1>5

LEMMA KillKeeps ==
    ASSUME TypeOK, StageInv, SnapshotInv, LinkInv, LostInv, NEW p \in Procs,
           Kill(p)
    PROVE  SnapshotInv' /\ LinkInv' /\ LostInv'
<1>1. /\ pc' = [pc EXCEPT ![p] = "off"]
      /\ ctl' = [ctl EXCEPT ![p] = FALSE]
      /\ stage' = [stage EXCEPT ![p] = "retrain"]
      /\ orphan' = (orphan \/ (lost /\ OwesGpu(p)))
      /\ UNCHANGED <<dis, lost, echoed, stuck, root>>
  BY DEF Kill, Forget, Set, link, config
<1>2. SnapshotInv'
  BY <1>1 DEF SnapshotInv, TypeOK
<1>3. LinkInv'
  <2>1. CASE pc[p] = "enable"
    <3>1. OwesGpu(p)
      BY <2>1 DEF OwesGpu, Owing, StageInv
    <3> QED BY <1>1, <3>1 DEF LinkInv
  <2>2. CASE pc[p] # "enable"
    <3>1. \A q \in Procs : pc[q] = "enable" => pc'[q] = "enable"
      BY <1>1, <2>2 DEF TypeOK
    <3> QED BY <1>1, <3>1 DEF LinkInv
  <2> QED BY <2>1, <2>2
<1>4. LostInv'
  <2>1. \A q \in Procs \ {p} : OwesGpu(q) => OwesGpu(q)'
    BY <1>1 DEF OwesGpu, TypeOK
  <2> QED BY <1>1, <2>1 DEF LostInv
<1> QED BY <1>2, <1>3, <1>4

LEMMA IInvStep == LinkIInv /\ [Next]_vars => LinkIInv'
<1> SUFFICES ASSUME LinkIInv, [Next]_vars PROVE LinkIInv'
  OBVIOUS
<1>0. TypeOK /\ StageInv /\ SnapshotInv /\ LinkInv /\ LostInv
  BY DEF LinkIInv
<1>1. TypeOK' /\ StageInv'
  BY <1>0, TypeStep, StageStep
<1>2. SnapshotInv' /\ LinkInv' /\ LostInv'
  <2>1. ASSUME NEW p \in Procs, Session(p)
        PROVE  SnapshotInv' /\ LinkInv' /\ LostInv'
    <3>1. CASE Pulse(p) \/ Modify(p) \/ Disable(p) \/ Enable(p) \/ Recover(p)
      BY <1>0, <3>1, LinkWork
    <3>2. CASE \/ Find(p) \/ Target(p) \/ Measure(p) \/ Judge(p) \/ Fallback(p)
               \/ First(p) \/ Reopen(p) \/ Only(p) \/ Finish(p) \/ Release(p)
      <4>1. Aside
        BY <1>0, <3>2, SessionAside
      <4> QED BY <1>0, <4>1, AsideKeeps
    <3> QED BY <2>1, <3>1, <3>2 DEF Session
  <2>2. ASSUME NEW p \in Procs, Kill(p)
        PROVE  SnapshotInv' /\ LinkInv' /\ LostInv'
    BY <1>0, <2>2, KillKeeps
  <2>3. ASSUME NEW p \in Procs, Begin(p) PROVE Aside
    BY <1>0, <2>3 DEF Begin, Aside, Go, Set, link, local, config, history,
                      OwesGpu, Owing, TypeOK
  <2>4. CASE Fire
    <3>1. Aside
      BY <1>0, <2>4 DEF Fire, Aside, Go, Set, link, config, budget, history,
                        OwesGpu, Owing, TypeOK
    <3> QED BY <1>0, <3>1, AsideKeeps
  <2>5. CASE GuardRepairs \/ DriverReload \/ UNCHANGED vars
    <3>1. Aside
      BY <1>0, <2>5 DEF GuardRepairs, DriverReload, vars, Aside, Go, Set, link,
                        local, config, budget, history, OwesGpu, Owing, TypeOK
    <3> QED BY <1>0, <3>1, AsideKeeps
  <2> QED BY <1>0, <2>1, <2>2, <2>3, <2>4, <2>5, AsideKeeps DEF Next
<1> QED BY <1>1, <1>2 DEF LinkIInv

LEMMA IInvGood == LinkIInv => LinkIsBack /\ GpuIsBack
<1> SUFFICES ASSUME LinkIInv, Quiet PROVE LinkIsBack /\ GpuIsBack
  BY DEF LinkIsBack, GpuIsBack
<1>1. \A p \in Procs : pc[p] # "enable" /\ ~ OwesGpu(p)
  BY DEF Quiet, Away, OwesGpu, Owing
<1> QED BY <1>1 DEF LinkIInv, LinkInv, LostInv, LinkIsBack, GpuIsBack

(* Once no session is at work the link is disabled only if, since the GPU  *)
(* last came back, a session was killed on its way to the restart of the   *)
(* GPU or a pulse read the root port while the link was disabled; for any  *)
(* number of sessions that overlap in any way.                             *)
THEOREM LinkReturns == Spec => []LinkIsBack
  BY InitIInv, IInvStep, IInvGood, PTL DEF Spec

(* ... and the GPU is lost only in these cases or if the last PnP restart  *)
(* failed: on the failing paths as well, a session that took the link down *)
(* restarts the GPU.                                                       *)
THEOREM GpuReturns == Spec => []GpuIsBack
  BY InitIInv, IInvStep, IInvGood, PTL DEF Spec

-----------------------------------------------------------------------------
(* How long a session lasts.                                               *)

(* A bound on the steps still to come: what the later stages may take, the *)
(* rounds that are left of this one, and the place in the round.  The      *)
(* first link disable comes before its round, a later one inside.          *)
PerStage == 16 * (Rounds + 1)

StagesLeft(s) ==
    IF s = "retrain" THEN 2 * PerStage ELSE IF s = "hard" THEN PerStage ELSE 0

AfterRounds == {"judge", "recover", "reopen", "finish"}

RoundsLeft(c, r) == IF c \in AfterRounds THEN 0 ELSE 16 * (Rounds - r)

PlaceLeft(c, r, h) ==
    IF c = "disable" THEN (IF r = 0 THEN 15 ELSE 12)
    ELSE IF c = "enable" THEN (IF r = 0 THEN 14 ELSE 11)
    ELSE IF c = "first" THEN 13
    ELSE IF c = "tls" THEN 10
    ELSE IF c = "only" THEN 9
    ELSE IF c = "pulse" THEN 10 - 2 * h
    ELSE IF c = "modify" THEN 9 - 2 * h
    ELSE IF c = "measure" \/ c = "recover" THEN 3
    ELSE 2

MostSteps == 3 * PerStage

StepsLeft(c, s, r, h) ==
    IF c \in Away THEN 0
    ELSE IF c = "release" THEN 1
    ELSE IF c = "find" THEN MostSteps
    ELSE StagesLeft(s) + RoundsLeft(c, r) + PlaceLeft(c, r, h)

Left(p) == StepsLeft(pc[p], stage[p], round[p], half[p])

(* A session's own steps bring its end nearer, and no step of another      *)
(* process, of the scheduler or of the link puts it off.                   *)
RunsDown ==
    \A p \in Procs :
        /\ Session(p) => Left(p)' < Left(p)
        /\ pc[p] \notin Away => Left(p)' <= Left(p)

LeftIsBounded == \A p \in Procs : Left(p) \in 0 .. MostSteps

LEMMA StepsLeftBound ==
    ASSUME NEW c \in Away \cup Inside,
           NEW s \in {"retrain", "hard", "only"},
           NEW r \in 0 .. Rounds - 1, NEW h \in {1, 2}
    PROVE  /\ StepsLeft(c, s, r, h) \in 0 .. MostSteps
           /\ c \notin Away => StepsLeft(c, s, r, h) > 0
           /\ c \in Working => StepsLeft(c, s, r, h) < MostSteps
                            /\ StepsLeft(c, s, r, h) > 1
<1>1. Rounds \in Nat \ {0} /\ r \in Nat /\ r < Rounds
  BY LimitsAreNatural
<1>2. RoundsLeft(c, r) \in 0 .. 16 * Rounds
  BY <1>1 DEF RoundsLeft
<1>3. PlaceLeft(c, r, h) \in 2 .. 15
  BY DEF PlaceLeft
<1>4. StagesLeft(s) \in 0 .. 2 * PerStage
  BY <1>1 DEF StagesLeft, PerStage
<1> QED
  BY <1>1, <1>2, <1>3, <1>4
  DEF StepsLeft, MostSteps, PerStage, Away, Inside, Working

LEMMA LeftBound == TypeOK => LeftIsBounded
BY StepsLeftBound DEF TypeOK, LeftIsBounded, Left

(* What one step does to the four variables of the session.                *)
Pace(p, c, s, r, h) ==
    /\ pc'[p] = c /\ stage'[p] = s /\ round'[p] = r /\ half'[p] = h

LEMMA OwnStep ==
    ASSUME TypeOK, StageInv, NEW p \in Procs, Session(p)
    PROVE  Left(p)' < Left(p)
<1> DEFINE s == stage[p]
           r == round[p]
           h == half[p]
<1>0. /\ Rounds \in Nat \ {0} /\ SecondDisable \in Nat \ {0}
      /\ r \in Nat /\ r < Rounds /\ h \in {1, 2}
      /\ s \in {"retrain", "hard", "only"}
      /\ pc[p] \in Away \cup Inside
  BY LimitsAreNatural DEF TypeOK
<1>a. Left(p)' = StepsLeft(pc'[p], stage'[p], round'[p], half'[p])
  BY DEF Left, StepsLeft, StagesLeft, RoundsLeft, PlaceLeft, MostSteps, PerStage
<1>b. Left(p) = StepsLeft(pc[p], s, r, h)
  BY DEF Left
<1> USE DEF Go, Set, local, TypeOK
<1>2. CASE Release(p)
  <2>1. pc[p] = "release" /\ pc'[p] \in Away
    BY <1>2 DEF Release, After, Away
  <2> QED BY <1>a, <1>b, <2>1 DEF StepsLeft, Away
<1>3. CASE Find(p)
  <2>1. pc[p] = "find" /\ pc'[p] \in {"release", "tls"} /\ Pace(p, pc'[p], s, r, h)
    BY <1>3 DEF Find, Pace
  <2>2. StepsLeft("tls", s, r, h) < MostSteps
    BY <1>0, StepsLeftBound DEF Working, Inside
  <2> QED
    BY <1>0, <1>a, <1>b, <2>1, <2>2 DEF Pace, StepsLeft, MostSteps, PerStage, Away
<1>5. CASE Target(p)
  <2>1. pc[p] = "tls" /\ pc'[p] \in {"only", "pulse"} /\ Pace(p, pc'[p], s, r, h)
    BY <1>5 DEF Target, Pace
  <2> QED
    BY <1>0, <1>a, <1>b, <2>1
    DEF Pace, StepsLeft, RoundsLeft, PlaceLeft, StagesLeft, PerStage, Away,
        AfterRounds
<1>6. CASE Pulse(p)
  <2>1. pc[p] = "pulse" /\ Pace(p, "modify", s, r, h)
    BY <1>6, <1>0 DEF Pulse, Pace
  <2> QED
    BY <1>0, <1>a, <1>b, <2>1
    DEF Pace, StepsLeft, RoundsLeft, PlaceLeft, StagesLeft, PerStage, Away,
        AfterRounds
<1>7. CASE Modify(p)
  <2>1. /\ pc[p] = "modify"
        /\ \/ h = 1 /\ Pace(p, "pulse", s, r, 2)
           \/ h = 2 /\ Pace(p, "measure", s, r, 1)
    BY <1>7, <1>0 DEF Modify, Pace
  <2> QED
    BY <1>0, <1>a, <1>b, <2>1
    DEF Pace, StepsLeft, RoundsLeft, PlaceLeft, StagesLeft, PerStage, Away,
        AfterRounds
<1>9. CASE Measure(p)
  <2>0. /\ Head(p) \in IF s = "retrain" THEN {"pulse"}
                       ELSE IF s = "hard" THEN {"disable", "tls"} ELSE {"only"}
        /\ Tail(p) = IF s = "retrain" THEN "judge"
                     ELSE IF s = "hard" THEN "recover" ELSE "finish"
    BY <1>0 DEF Head, Tail
  <2>1. /\ pc[p] = "measure"
        /\ \/ r < Rounds - 1 /\ Pace(p, Head(p), s, r + 1, h)
           \/ Pace(p, Tail(p), s, 0, h)
    BY <1>9, <1>0 DEF Measure, Pace
  <2>2. CASE r < Rounds - 1 /\ Pace(p, Head(p), s, r + 1, h)
    BY <1>0, <1>a, <1>b, <2>0, <2>1, <2>2
    DEF Pace, StepsLeft, RoundsLeft, PlaceLeft, StagesLeft, PerStage, Away,
        AfterRounds
  <2>3. CASE Pace(p, Tail(p), s, 0, h)
    BY <1>0, <1>a, <1>b, <2>0, <2>1, <2>3
    DEF Pace, StepsLeft, RoundsLeft, PlaceLeft, StagesLeft, PerStage, Away,
        AfterRounds
  <2> QED BY <2>1, <2>2, <2>3
<1>10. CASE Judge(p)
  <2>1. pc[p] = "judge" /\ Pace(p, "release", s, r, h)
    BY <1>10, <1>0 DEF Judge, Pace
  <2> QED
    BY <1>0, <1>a, <1>b, <2>1
    DEF Pace, StepsLeft, RoundsLeft, PlaceLeft, StagesLeft, PerStage, Away,
        AfterRounds
<1>11. CASE Fallback(p)
  <2>1. /\ pc[p] = "judge" /\ s = "retrain"
        /\ pc'[p] \in {"disable", "first"}
        /\ Pace(p, pc'[p], "hard", r, h)
    BY <1>11, <1>0 DEF Fallback, Pace, StageInv
  <2> QED
    BY <1>0, <1>a, <1>b, <2>1
    DEF Pace, StepsLeft, RoundsLeft, PlaceLeft, StagesLeft, PerStage, Away,
        AfterRounds
<1>12. CASE Disable(p)
  <2>1. pc[p] = "disable" /\ Pace(p, "enable", s, r, h)
    BY <1>12, <1>0 DEF Disable, Pace
  <2> QED
    BY <1>0, <1>a, <1>b, <2>1
    DEF Pace, StepsLeft, RoundsLeft, PlaceLeft, StagesLeft, PerStage, Away,
        AfterRounds
<1>13. CASE Enable(p)
  <2>1. /\ pc[p] = "enable"
        /\ pc'[p] = IF r = 0 THEN "first" ELSE "tls"
        /\ Pace(p, pc'[p], s, r, h)
    BY <1>13, <1>0 DEF Enable, Pace
  <2> QED
    BY <1>0, <1>a, <1>b, <2>1
    DEF Pace, StepsLeft, RoundsLeft, PlaceLeft, StagesLeft, PerStage, Away,
        AfterRounds
<1>14. CASE First(p)
  <2>1. /\ pc[p] = "first" /\ pc'[p] \in {"recover", "tls"}
        /\ Pace(p, pc'[p], s, r, h)
    BY <1>14, <1>0 DEF First, Pace
  <2> QED
    BY <1>0, <1>a, <1>b, <2>1
    DEF Pace, StepsLeft, RoundsLeft, PlaceLeft, StagesLeft, PerStage, Away,
        AfterRounds
<1>15. CASE Recover(p)
  <2>1. /\ pc[p] = "recover" /\ pc'[p] \in {"reopen", "release"}
        /\ Pace(p, pc'[p], s, r, h)
    BY <1>15, <1>0 DEF Recover, Pace
  <2> QED
    BY <1>0, <1>a, <1>b, <2>1
    DEF Pace, StepsLeft, RoundsLeft, PlaceLeft, StagesLeft, PerStage, Away,
        AfterRounds
<1>16. CASE Reopen(p)
  <2>1. /\ pc[p] = "reopen" /\ s = "hard"
        /\ Pace(p, "tls", "only", r, h) \/ Pace(p, "release", s, r, h)
    BY <1>16, <1>0 DEF Reopen, Pace, StageInv
  <2> QED
    BY <1>0, <1>a, <1>b, <2>1
    DEF Pace, StepsLeft, RoundsLeft, PlaceLeft, StagesLeft, PerStage, Away,
        AfterRounds
<1>17. CASE Only(p)
  <2>1. /\ pc[p] = "only" /\ pc'[p] \in {"finish", "pulse"}
        /\ Pace(p, pc'[p], s, r, h)
    BY <1>17, <1>0 DEF Only, Pace
  <2> QED
    BY <1>0, <1>a, <1>b, <2>1
    DEF Pace, StepsLeft, RoundsLeft, PlaceLeft, StagesLeft, PerStage, Away,
        AfterRounds
<1>18. CASE Finish(p)
  <2>1. pc[p] = "finish" /\ Pace(p, "release", s, r, h)
    BY <1>18, <1>0 DEF Finish, Pace
  <2> QED
    BY <1>0, <1>a, <1>b, <2>1
    DEF Pace, StepsLeft, RoundsLeft, PlaceLeft, StagesLeft, PerStage, Away,
        AfterRounds
<1> QED
  BY <1>2, <1>3, <1>5, <1>6, <1>7, <1>9, <1>10, <1>11, <1>12, <1>13, <1>14,
     <1>15, <1>16, <1>17, <1>18 DEF Session

LEMMA OtherStep ==
    ASSUME TypeOK, StageInv, [Next]_vars, NEW p \in Procs, pc[p] \notin Away
    PROVE  Left(p)' <= Left(p)
<1>0. Left(p) \in Int /\ Left(p) >= 0
  <2>1. LeftIsBounded
    BY LeftBound
  <2> QED BY <2>1, LimitsAreNatural DEF LeftIsBounded, MostSteps, PerStage
<1>a. Left(p)' = StepsLeft(pc'[p], stage'[p], round'[p], half'[p])
  BY DEF Left, StepsLeft, StagesLeft, RoundsLeft, PlaceLeft, MostSteps, PerStage
<1>1. ASSUME UNCHANGED <<pc[p], stage[p], round[p], half[p]>>
      PROVE  Left(p)' <= Left(p)
  BY <1>0, <1>1, <1>a DEF Left
<1> USE DEF Go, Set, local, TypeOK, Away
<1>2. CASE Session(p)
  <2>1. Left(p)' < Left(p)
    BY <1>2, OwnStep
  <2>2. Left(p)' \in Int
    <3>1. TypeOK'
      BY TypeStep
    <3>2. /\ pc'[p] \in Away \cup Inside
          /\ stage'[p] \in {"retrain", "hard", "only"}
          /\ round'[p] \in 0 .. Rounds - 1 /\ half'[p] \in {1, 2}
      BY <3>1
    <3>3. Left(p)' \in 0 .. MostSteps
      <4> HIDE DEF TypeOK, Away
      <4> QED BY <3>2, StepsLeftBound, <1>a
    <3> QED BY <3>3, LimitsAreNatural DEF MostSteps, PerStage
  <2> QED BY <1>0, <2>1, <2>2
<1>3. ASSUME NEW q \in Procs \ {p}, Session(q) \/ Begin(q) \/ Kill(q)
      PROVE  Left(p)' <= Left(p)
  <2>1. UNCHANGED <<pc[p], stage[p], round[p], half[p]>>
    <3>1. CASE Begin(q) \/ Kill(q)
      BY <3>1 DEF Begin, Kill, Forget
    <3>2. CASE Session(q)
      BY <3>2
      DEF Session, Find, Target, Pulse, Modify, Measure, Judge, Fallback, Disable,
          Enable, First, Recover, Reopen, Only, Finish, Release, Forget
    <3> QED BY <1>3, <3>1, <3>2
  <2> QED BY <1>1, <2>1
<1>4. CASE Begin(p)
  BY <1>4 DEF Begin
<1>5. CASE Kill(p)
  <2>1. pc'[p] = "off"
    BY <1>5 DEF Kill
  <2>2. Left(p)' = 0
    BY <1>a, <2>1 DEF StepsLeft
  <2> QED BY <1>0, <2>2
<1>6. CASE Fire \/ GuardRepairs
  BY <1>1, <1>6 DEF Fire, GuardRepairs
<1>7. CASE DriverReload \/ UNCHANGED vars
  BY <1>1, <1>7 DEF DriverReload, vars
<1> QED BY <1>2, <1>3, <1>4, <1>5, <1>6, <1>7 DEF Next

(* A session ends after at most MostSteps of its own steps, whatever the   *)
(* others do and whatever becomes of the link: no loop of gen2Main goes on *)
(* for ever, for any number of rounds.                                     *)
THEOREM SessionsRunDown == Spec => []LeftIsBounded /\ [][RunsDown]_vars
<1>1. Init => TypeOK /\ StageInv
  BY InitIInv DEF LinkIInv
<1>2. TypeOK /\ StageInv /\ [Next]_vars => TypeOK' /\ StageInv'
  BY TypeStep, StageStep
<1>3. TypeOK /\ StageInv /\ [Next]_vars => [RunsDown]_vars
  BY OwnStep, OtherStep DEF RunsDown
<1> QED BY <1>1, <1>2, <1>3, LeftBound, PTL DEF Spec
=============================================================================
