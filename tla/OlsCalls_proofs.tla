--------------------------- MODULE OlsCalls_proofs ---------------------------
(***************************************************************************)
(* What OlsCalls promises about processors and effects, for any number of  *)
(* threads, processors, calls and PCI functions.                           *)
(***************************************************************************)
EXTENDS OlsCalls, FiniteSetTheorems, TLAPS

Places == {"idle", "pin", "run", "search", "pieces", "restore", "returned"}

(* Places of a call that lie between the change of a mask and its undoing. *)
Inside == {"run", "search", "pieces", "restore"}

CallTypes ==
    /\ pc \in [Thread -> Places]
    /\ call \in [Thread -> Requests]
    /\ saved \in [Thread -> SUBSET Cpu]
    /\ processMask \in SUBSET Cpu
    /\ threadMask \in [Thread -> SUBSET Cpu]
    /\ done \in [Thread -> SUBSET Int]
    /\ ran \in [Thread -> Cpu \cup {Nobody}]
    /\ ok \in [Thread -> BOOLEAN]
    /\ moved \in SUBSET Thread
    /\ usedPx \in BOOLEAN
    /\ overlapped \in BOOLEAN

-----------------------------------------------------------------------------
(* What a request can be.                                                  *)

LEMMA KindsOfCall ==
    ASSUME NEW r \in Requests
    PROVE  /\ r.how.kind \in {"plain", "Tx", "Px"}
           /\ r.how.mask \in SUBSET Cpu
           /\ r.f \in Plain
<1>1. Pinnable \subseteq Plain
  BY DEF Plain
<1>2. CASE r \in {[f |-> g, how |-> Plainly] : g \in Plain}
  <2>1. PICK g \in Plain : r = [f |-> g, how |-> Plainly]
    BY <1>2
  <2>2. r.f = g /\ r.how = [kind |-> "plain", mask |-> {}]
    BY <2>1 DEF Plainly
  <2> QED BY <2>2
<1>3. CASE r \in {[f |-> g, how |-> [kind |-> k, mask |-> m]] :
                     g \in Pinnable, k \in {"Tx", "Px"}, m \in (SUBSET Cpu) \ {Cpu}}
  <2>1. PICK g \in Pinnable, k \in {"Tx", "Px"}, m \in (SUBSET Cpu) \ {Cpu} :
           r = [f |-> g, how |-> [kind |-> k, mask |-> m]]
    BY <1>3
  <2> QED BY <1>1, <2>1
<1> QED BY <1>2, <1>3 DEF Requests

LEMMA NothingAsked == NoCall \in Requests /\ NoCall.how.kind = "plain"
<1>1. Hlt \in Plain
  BY DEF Plain, Pinnable
<1>2. NoCall \in {[f |-> g, how |-> Plainly] : g \in Plain}
  BY <1>1 DEF NoCall
<1>3. NoCall.how.kind = "plain"
  BY DEF NoCall, Plainly
<1> QED BY <1>2, <1>3 DEF Requests

LEMMA PciSizes ==
    ASSUME NEW f \in Plain, IsPci(f)
    PROVE  f.at \in 0..2 /\ Span(f) \in {1, 2, 4}
<1>1. f \in PciRequests
  BY DEF Plain, IsPci, Pinnable, Searches, Search, Function, Rdmsr, Wrmsr,
     Rdpmc, Cpuid, Rdtsc, Hlt, GetDriverVersion, ReadIoPort, WriteIoPort
<1>2. CASE f \in {ReadPciConfig(at, size) : at \in 0..2, size \in {1, 2, 4}}
  <2>1. PICK at \in 0..2, size \in {1, 2, 4} : f = ReadPciConfig(at, size)
    BY <1>2
  <2>2. f.at = at /\ f.out = size /\ f.code = "READ_PCI_CONFIG"
    BY <2>1 DEF ReadPciConfig, Function
  <2> QED BY <2>1, <2>2 DEF Span
<1>3. CASE f \in {WritePciConfig(at, size) : at \in 0..2, size \in {1, 2, 4}}
  <2>1. PICK at \in 0..2, size \in {1, 2, 4} : f = WritePciConfig(at, size)
    BY <1>3
  <2>2. f.at = at /\ f.in = 8 + size /\ f.code = "WRITE_PCI_CONFIG"
    BY <2>1 DEF WritePciConfig, Function
  <2> QED BY <2>1, <2>2 DEF Span
<1> QED BY <1>1, <1>2, <1>3 DEF PciRequests

-----------------------------------------------------------------------------
(* Typing.                                                                 *)

LEMMA CallTypesInit == Init => CallTypes
<1> SUFFICES ASSUME Init PROVE CallTypes
  OBVIOUS
<1>1. threadMask \in [Thread -> SUBSET Cpu]
  BY OlsCallsAssumption DEF Init
<1> QED BY <1>1, NothingAsked DEF Init, CallTypes, Places

LEMMA CallTypesStep == CallTypes /\ [Next]_vars => CallTypes'
<1> SUFFICES ASSUME CallTypes, [Next]_vars PROVE CallTypes'
  OBVIOUS
<1> USE DEF Places
<1>1. CASE UNCHANGED vars
  BY <1>1 DEF CallTypes, vars, masks, hist
<1>2. ASSUME NEW t \in Thread, Call(t) PROVE CallTypes'
  <2>1. PICK r \in Requests :
           /\ call' = [call EXCEPT ![t] = r]
           /\ saved' = [saved EXCEPT ![t] =
                           IF r.how.kind = "Px" THEN processMask ELSE {}]
           /\ overlapped' \in BOOLEAN
    BY <1>2 DEF Call, Asked
  <2> QED BY <1>2, <2>1 DEF CallTypes, Call, masks
<1>3. ASSUME NEW t \in Thread, Pin(t) PROVE CallTypes'
  <2>1. Mask(t) \in SUBSET Cpu
    BY KindsOfCall DEF CallTypes, Mask
  <2> QED BY ZenonT(40), <1>3, <2>1 DEF CallTypes, Pin, masks
<1>4. ASSUME NEW t \in Thread, Run(t) PROVE CallTypes'
  <2>1. /\ pc' \in [Thread -> Places] /\ ok' \in [Thread -> BOOLEAN]
    BY <1>4 DEF CallTypes, Run, Refuse, Reach
  <2>2. ran' \in [Thread -> Cpu \cup {Nobody}]
    <3>1. Where(t) \subseteq Cpu \cup {Nobody}
      BY DEF Where, CallTypes
    <3> QED BY <1>4, <3>1 DEF CallTypes, Run, Refuse, Reach
  <2>3. done' \in [Thread -> SUBSET Int]
    <3>1. IsPci(call[t].f) =>
             call[t].f.at .. call[t].f.at + Span(call[t].f) - 1 \subseteq Int
      BY PciSizes, KindsOfCall DEF CallTypes
    <3>2. \/ done' = done
          \/ \E d \in SUBSET Int : done' = [done EXCEPT ![t] = d]
      BY <1>4, <3>1 DEF Run, Refuse, Reach
    <3> QED BY <3>2 DEF CallTypes
  <2> QED BY <1>4, <2>1, <2>2, <2>3 DEF CallTypes, Run, masks, hist
<1>5. ASSUME NEW t \in Thread, Pieces(t) PROVE CallTypes'
  <2>1. /\ pc' \in [Thread -> Places] /\ ok' \in [Thread -> BOOLEAN]
    BY <1>5 DEF CallTypes, Pieces
  <2>2. done' \in [Thread -> SUBSET Int]
    <3>1. \A a, b : a .. b \subseteq Int
      OBVIOUS
    <3>2. \/ done' = done
          \/ \E a, b : done' = [done EXCEPT ![t] = @ \cup (a .. b)]
      BY <1>5 DEF Pieces
    <3> QED BY <3>1, <3>2 DEF CallTypes
  <2> QED BY <1>5, <2>1, <2>2 DEF CallTypes, Pieces, masks, hist
<1>6. ASSUME NEW t \in Thread, FindBus(t) PROVE CallTypes'
  BY <1>6 DEF CallTypes, FindBus, EndSearch, masks, hist
<1>7. ASSUME NEW t \in Thread, SetPciMaxBusIndex(t) PROVE CallTypes'
  BY <1>7 DEF CallTypes, SetPciMaxBusIndex, masks
<1>8. ASSUME NEW t \in Thread, Restore(t) PROVE CallTypes'
  BY <1>8 DEF CallTypes, Restore, ThreadMaskSet, masks
<1>9. ASSUME NEW t \in Thread, Return(t) PROVE CallTypes'
  BY <1>9, NothingAsked DEF CallTypes, Return, masks
<1> QED
  BY <1>1, <1>2, <1>3, <1>4, <1>5, <1>6, <1>7, <1>8, <1>9 DEF Next, Step
-----------------------------------------------------------------------------
(* Processors: a thread that is about to run has the mask it asked for,    *)
(* unless it has been moved.                                               *)

PinnedInv ==
    /\ \A t \in Thread :
          IsNT /\ Kind(t) # "plain" /\ pc[t] = "run" /\ t \notin moved
              => threadMask[t] = Mask(t)
    /\ \A t \in Thread : ran[t] # Nobody => pc[t] \in {"restore", "returned"}
    /\ RunsWhereAsked

LEMMA PinnedInit == Init => PinnedInv
BY DEF Init, PinnedInv, RunsWhereAsked

LEMMA PinnedStep == CallTypes /\ PinnedInv /\ [Next]_vars => PinnedInv'
<1> SUFFICES ASSUME CallTypes, PinnedInv, [Next]_vars PROVE PinnedInv'
  OBVIOUS
<1> USE DEF Kind, Mask, InFlight
<1>1. CASE UNCHANGED vars
  BY <1>1 DEF vars, machine, masks, hist, PinnedInv, RunsWhereAsked, IsNT
<1>2. ASSUME NEW t \in Thread, Call(t) PROVE PinnedInv'
  BY <1>2 DEF CallTypes, PinnedInv, RunsWhereAsked, IsNT, Call, machine, masks
<1>3. ASSUME NEW t \in Thread, Pin(t) PROVE PinnedInv'
  <2>1. UNCHANGED <<platform, call, ran>>
    BY <1>3 DEF Pin, machine
  <2>2. RunsWhereAsked'
    BY <1>3, <2>1 DEF Pin, CallTypes, PinnedInv, RunsWhereAsked, IsNT
  <2>3. \A u \in Thread : ran[u] # Nobody => u # t
    BY <1>3 DEF Pin, PinnedInv
  <2>4. \A u \in Thread : ran'[u] # Nobody => pc'[u] \in {"restore", "returned"}
    BY <1>3, <2>1, <2>3 DEF Pin, CallTypes, PinnedInv
  <2>5. ASSUME NEW u \in Thread, IsNT', Kind(u)' # "plain", pc'[u] = "run",
               u \notin moved'
        PROVE  threadMask'[u] = Mask(u)'
    <3>1. CASE u = t
      BY <1>3, <2>1, <2>5, <3>1 DEF Pin, CallTypes, IsNT, masks
    <3>2. CASE u # t
      BY <1>3, <2>1, <2>5, <3>2 DEF Pin, CallTypes, PinnedInv, IsNT, masks
    <3> QED BY <3>1, <3>2
  <2> QED BY <2>2, <2>4, <2>5 DEF PinnedInv
<1>4. ASSUME NEW t \in Thread, Run(t) PROVE PinnedInv'
  <2>1. UNCHANGED <<platform, call, threadMask, moved>>
    BY <1>4 DEF Run, machine, masks, hist
  <2>2. PICK c, w :
           /\ ran' = [ran EXCEPT ![t] = c] /\ pc' = [pc EXCEPT ![t] = w]
           /\ w \in {"search", "pieces"} => c = Nobody
           /\ w \in {"restore", "search", "pieces"}
           /\ c # Nobody => c \in Where(t)
    <3>1. ran[t] = Nobody /\ ran = [ran EXCEPT ![t] = ran[t]]
      BY <1>4 DEF Run, PinnedInv, CallTypes
    <3> QED BY <1>4, <3>1 DEF Run, Refuse, Reach
  <2>3. Kind(t) # "plain" /\ IsNT /\ t \notin moved => Where(t) = Mask(t)
    BY <1>4 DEF Run, Where, PinnedInv
  <2> QED BY <2>1, <2>2, <2>3 DEF CallTypes, PinnedInv, RunsWhereAsked, IsNT
<1>5. ASSUME NEW t \in Thread, Pieces(t) PROVE PinnedInv'
  BY <1>5
     DEF CallTypes, PinnedInv, RunsWhereAsked, IsNT, Pieces, machine, masks,
     hist
<1>6. ASSUME NEW t \in Thread, FindBus(t) PROVE PinnedInv'
  BY <1>6 DEF CallTypes, PinnedInv, RunsWhereAsked, IsNT, FindBus, EndSearch,
     machine, masks, hist
<1>7. ASSUME NEW t \in Thread, SetPciMaxBusIndex(t) PROVE PinnedInv'
  BY <1>7
     DEF PinnedInv, RunsWhereAsked, IsNT, SetPciMaxBusIndex, machine, masks
<1>8. ASSUME NEW t \in Thread, Restore(t) PROVE PinnedInv'
  <2>1. UNCHANGED <<platform, call, ran>> /\ pc' = [pc EXCEPT ![t] = "returned"]
    BY <1>8 DEF Restore, machine
  <2>2. \A u \in Thread : u \in moved => u \in moved'
    BY <1>8 DEF Restore
  <2>3. \A u \in Thread \ {t} :
           threadMask'[u] = threadMask[u] \/ ~ InFlight(u) \/ u \in moved'
    BY <1>8 DEF Restore, ThreadMaskSet, CallTypes, masks
  <2>4. pc[t] = "restore"
    BY <1>8 DEF Restore
  <2> QED BY <2>1, <2>2, <2>3, <2>4
             DEF CallTypes, PinnedInv, RunsWhereAsked, IsNT
<1>9. ASSUME NEW t \in Thread, Return(t) PROVE PinnedInv'
  BY <1>9, NothingAsked DEF CallTypes, PinnedInv, RunsWhereAsked, IsNT, Return,
     machine, masks
<1> QED
  BY <1>1, <1>2, <1>3, <1>4, <1>5, <1>6, <1>7, <1>8, <1>9 DEF Next, Step

-----------------------------------------------------------------------------
(* Masks: what has been changed can be put back.  While a ...Px call is in *)
(* progress it is the only one that changes masks, unless they overlapped, *)
(* and what it saved is the whole machine; a thread whose mask a ...Tx     *)
(* call has changed has its own one saved.                                 *)

Pxing(t) == InFlight(t) /\ Kind(t) = "Px"

Changed(t) == IsNT /\ pc[t] \in Inside

BackInv ==
    /\ ~ IsNT => processMask = Cpu /\ threadMask = Home
    /\ \A t \in Thread : Changed(t) /\ Kind(t) = "Px" => usedPx = TRUE
    /\ usedPx = FALSE =>
          /\ processMask = Cpu
          /\ \A t \in Thread :
                IF Changed(t) /\ Kind(t) = "Tx" THEN saved[t] = Home[t]
                                                ELSE threadMask[t] = Home[t]
    /\ overlapped = FALSE =>
          /\ \A t, u \in Thread :
                t # u /\ Pxing(t) /\ InFlight(u) => Kind(u) = "plain"
          /\ \A t \in Thread :
                Pxing(t) => /\ saved[t] = Cpu
                            /\ pc[t] = "pin" => processMask = Cpu
          /\ (\A t \in Thread : ~ Pxing(t)) => processMask = Cpu

LEMMA HomeMasks ==
    Home \in [Thread -> SUBSET Cpu] /\ \A t \in Thread : Home[t] # {}
BY OlsCallsAssumption

LEMMA BackInit == Init => BackInv
BY DEF Init, BackInv, Changed, Pxing, InFlight, Inside

LEMMA BackCall ==
    ASSUME CallTypes, BackInv, NEW t \in Thread, Call(t) PROVE BackInv'
<1> USE DEF Kind, Mask, InFlight, Pxing, Changed, Inside, IsNT
<1>1. PICK r \in Requests :
         /\ call' = [call EXCEPT ![t] = r]
         /\ saved' = [saved EXCEPT ![t] =
                         IF r.how.kind = "Px" THEN processMask ELSE {}]
         /\ overlapped' =
               \/ overlapped
               \/ \E u \in Pinned(t) :
                     /\ r.how.kind # "plain"
                     /\ "Px" \in {Kind(u), r.how.kind}
  BY DEF Call, Asked
<1>2. /\ pc[t] = "idle" /\ pc' = [pc EXCEPT ![t] = "pin"]
      /\ UNCHANGED <<platform, processMask, threadMask, usedPx>>
  BY DEF Call, machine, masks
<1>3. /\ ~ IsNT' => processMask' = Cpu /\ threadMask' = Home
      /\ \A u \in Thread : Changed(u)' /\ Kind(u)' = "Px" => usedPx' = TRUE
      /\ usedPx' = FALSE =>
            /\ processMask' = Cpu
            /\ \A u \in Thread :
                  IF Changed(u)' /\ Kind(u)' = "Tx"
                  THEN saved'[u] = Home[u] ELSE threadMask'[u] = Home[u]
  BY <1>1, <1>2 DEF CallTypes, BackInv
<1>4. ASSUME overlapped' = FALSE
      PROVE  /\ overlapped = FALSE
             /\ \A u \in Pinned(t) :
                   r.how.kind = "plain" \/ "Px" \notin {Kind(u), r.how.kind}
  BY <1>1, <1>4 DEF CallTypes
<1>5. ASSUME overlapped' = FALSE, NEW v \in Thread, NEW u \in Thread, v # u,
             Pxing(v)', InFlight(u)'
      PROVE  Kind(u)' = "plain"
  <2>1. CASE u = t
    <3>1. v \in Pinned(t)
      BY <1>1, <1>2, <1>5, <2>1 DEF CallTypes, Pinned
    <3>2. Kind(v) = "Px"
      BY <1>1, <1>5, <2>1 DEF CallTypes
    <3> QED BY <1>1, <1>4, <1>5, <2>1, <3>1, <3>2 DEF CallTypes
  <2>2. CASE v = t
    <3>1. r.how.kind = "Px"
      BY <1>1, <1>5, <2>2 DEF CallTypes
    <3>2. u \notin Pinned(t)
      BY <1>4, <1>5, <3>1
    <3> QED BY <1>1, <1>2, <1>5, <2>2, <3>2 DEF CallTypes, Pinned
  <2>3. CASE u # t /\ v # t
    BY <1>1, <1>2, <1>4, <1>5, <2>3 DEF CallTypes, BackInv
  <2> QED BY <2>1, <2>2, <2>3
<1>6. ASSUME overlapped' = FALSE, NEW v \in Thread, Pxing(v)'
      PROVE  saved'[v] = Cpu /\ (pc'[v] = "pin" => processMask' = Cpu)
  <2>1. CASE v = t
    <3>1. r.how.kind = "Px"
      BY <1>1, <1>6, <2>1 DEF CallTypes
    <3>2. \A u \in Thread : ~ Pxing(u)
      BY <1>2, <1>4, <1>6, <3>1 DEF Pinned
    <3>3. processMask = Cpu
      BY <1>4, <1>6, <3>2 DEF BackInv
    <3> QED BY <1>1, <1>2, <2>1, <3>1, <3>3 DEF CallTypes
  <2>2. CASE v # t
    BY <1>1, <1>2, <1>4, <1>6, <2>2 DEF CallTypes, BackInv
  <2> QED BY <2>1, <2>2
<1>7. ASSUME overlapped' = FALSE, \A v \in Thread : ~ Pxing(v)'
      PROVE  processMask' = Cpu
  <2>1. \A v \in Thread : ~ Pxing(v)
    BY <1>1, <1>2, <1>7 DEF CallTypes
  <2> QED BY <1>2, <1>4, <1>7, <2>1 DEF BackInv
<1> QED BY <1>3, <1>5, <1>6, <1>7 DEF BackInv

LEMMA BackPin ==
    ASSUME CallTypes, BackInv, NEW t \in Thread, Pin(t) PROVE BackInv'
<1> USE DEF Kind, Mask, InFlight, Pxing, Changed, Inside, IsNT
<1>1. UNCHANGED <<platform, call, overlapped>> /\ pc[t] = "pin"
  BY DEF Pin, machine
<1>2. CASE /\ pc' = [pc EXCEPT ![t] = "run"]
           /\ ~ IsNT \/ Kind(t) = "plain"
           /\ UNCHANGED <<processMask, threadMask, saved, usedPx>>
  BY <1>1, <1>2 DEF CallTypes, BackInv
<1>3. CASE /\ pc' = [pc EXCEPT ![t] = "returned"]
           /\ UNCHANGED <<processMask, threadMask, saved, usedPx>>
  BY <1>1, <1>3 DEF CallTypes, BackInv
<1>4. CASE /\ pc' = [pc EXCEPT ![t] = "run"]
           /\ IsNT /\ Kind(t) = "Tx"
           /\ threadMask' = [threadMask EXCEPT ![t] = Mask(t)]
           /\ saved' = [saved EXCEPT ![t] = threadMask[t]]
           /\ UNCHANGED <<processMask, usedPx>>
  <2>1. usedPx' = FALSE =>
            /\ processMask' = Cpu
            /\ \A u \in Thread :
                  IF Changed(u)' /\ Kind(u)' = "Tx"
                  THEN saved'[u] = Home[u] ELSE threadMask'[u] = Home[u]
    BY <1>1, <1>4 DEF CallTypes, BackInv
  <2> QED BY <1>1, <1>4, <2>1 DEF CallTypes, BackInv
<1>5. CASE /\ pc' = [pc EXCEPT ![t] = "run"]
           /\ IsNT /\ Kind(t) = "Px"
           /\ usedPx' = TRUE
           /\ UNCHANGED saved
  BY <1>1, <1>5 DEF CallTypes, BackInv
<1> QED BY <1>2, <1>3, <1>4, <1>5 DEF Pin, masks

LEMMA BackRestore ==
    ASSUME CallTypes, BackInv, NEW t \in Thread, Restore(t) PROVE BackInv'
<1> USE DEF Kind, Mask, InFlight, Pxing, Changed, Inside, IsNT
<1>1. /\ UNCHANGED <<platform, call, saved, usedPx, overlapped>>
      /\ pc[t] = "restore" /\ pc' = [pc EXCEPT ![t] = "returned"]
  BY DEF Restore, machine
<1>2. CASE ~ IsNT \/ Kind(t) = "plain"
  <2>1. UNCHANGED <<processMask, threadMask>>
    BY <1>2 DEF Restore, masks
  <2> QED BY <1>1, <1>2, <2>1 DEF CallTypes, BackInv
<1>3. CASE IsNT /\ Kind(t) = "Tx"
  <2>1. /\ processMask' = processMask
        /\ threadMask' = ThreadMaskSet(t, saved[t], threadMask)
    BY <1>3 DEF Restore
  <2>2. usedPx = FALSE => threadMask' = [threadMask EXCEPT ![t] = Home[t]]
    BY <1>1, <1>3, <2>1, HomeMasks DEF BackInv, ThreadMaskSet
  <2>3. usedPx' = FALSE =>
            /\ processMask' = Cpu
            /\ \A u \in Thread :
                  IF Changed(u)' /\ Kind(u)' = "Tx"
                  THEN saved'[u] = Home[u] ELSE threadMask'[u] = Home[u]
    BY <1>1, <2>1, <2>2 DEF CallTypes, BackInv
  <2> QED BY <1>1, <1>3, <2>1, <2>3 DEF CallTypes, BackInv
<1>4. CASE IsNT /\ Kind(t) = "Px"
  <2>1. processMask' = saved[t]
    BY <1>4 DEF Restore
  <2>2. usedPx' = TRUE
    BY <1>1, <1>4 DEF BackInv
  <2>3. overlapped' = FALSE => processMask' = Cpu
    BY <1>1, <1>4, <2>1 DEF BackInv
  <2> QED BY <1>1, <1>4, <2>2, <2>3 DEF CallTypes, BackInv
<1>5. Kind(t) \in {"plain", "Tx", "Px"}
  BY KindsOfCall DEF CallTypes
<1> QED BY <1>2, <1>3, <1>4, <1>5

LEMMA BackStep == CallTypes /\ BackInv /\ [Next]_vars => BackInv'
<1> SUFFICES ASSUME CallTypes, BackInv, [Next]_vars PROVE BackInv'
  OBVIOUS
<1> USE DEF Kind, Mask, InFlight, Pxing, Changed, Inside, IsNT
<1>1. CASE UNCHANGED vars
  BY <1>1 DEF vars, machine, masks, hist, BackInv
<1>2. ASSUME NEW t \in Thread, Run(t) \/ Pieces(t) \/ FindBus(t) PROVE BackInv'
  <2>1. UNCHANGED <<platform, processMask, threadMask, call, saved, usedPx,
                    overlapped>>
    BY <1>2 DEF Run, Pieces, FindBus, machine, masks, hist
  <2>2. /\ pc[t] \in {"run", "pieces", "search"}
        /\ \/ pc' = pc
           \/ \E w \in {"restore", "pieces", "search"} :
                 pc' = [pc EXCEPT ![t] = w]
    BY <1>2 DEF Run, Refuse, Reach, Pieces, FindBus, EndSearch
  <2> QED BY <2>1, <2>2 DEF CallTypes, BackInv
<1>3. ASSUME NEW t \in Thread, SetPciMaxBusIndex(t) PROVE BackInv'
  BY <1>3 DEF BackInv, SetPciMaxBusIndex, machine, masks
<1>4. ASSUME NEW t \in Thread, Return(t) PROVE BackInv'
  BY <1>4, NothingAsked DEF CallTypes, BackInv, Return, machine, masks
<1> QED
  BY <1>1, <1>2, <1>3, <1>4, BackCall, BackPin, BackRestore DEF Next, Step

LEMMA AllAtRest == CallTypes /\ BackInv => MasksComeBack
<1> SUFFICES ASSUME CallTypes, BackInv, \A t \in Thread : ~ InFlight(t),
                    ~ overlapped
             PROVE  processMask = Cpu /\ (~ usedPx => threadMask = Home)
  BY DEF MasksComeBack
<1>1. overlapped = FALSE
  BY DEF CallTypes
<1>2. processMask = Cpu
  BY <1>1 DEF BackInv, Pxing
<1>3. ASSUME usedPx = FALSE PROVE threadMask = Home
  <2>1. \A t \in Thread : ~ Changed(t)
    BY DEF Changed, InFlight, Inside
  <2>2. \A t \in Thread : threadMask[t] = Home[t]
    BY <1>3, <2>1 DEF BackInv
  <2> QED BY <2>2, HomeMasks DEF CallTypes
<1>4. usedPx \in BOOLEAN
  BY DEF CallTypes
<1> QED BY <1>2, <1>3, <1>4

-----------------------------------------------------------------------------
(* Effects: a call has touched nothing until it runs; the aligned bytes of *)
(* a PCI request are one piece, so that there is no half of them.          *)

Bytes(f) == f.at .. f.at + Span(f) - 1

EffectInv ==
    \A t \in Thread :
        /\ pc[t] \in {"idle", "pin", "run", "search"} =>
              done[t] = {} /\ ok[t] = FALSE
        /\ pc[t] = "search" => IsSearch(call[t].f)
        /\ pc[t] = "pieces" =>
              /\ ok[t] = FALSE
              /\ IsPci(call[t].f) /\ Aligned(call[t].f.at, Span(call[t].f))
              /\ done[t] \in {{}, Bytes(call[t].f)}
        /\ pc[t] \in {"restore", "returned"} /\ ~ IsSearch(call[t].f) =>
              done[t] = IF ~ ok[t] THEN {}
                        ELSE IF IsPci(call[t].f) THEN Bytes(call[t].f)
                        ELSE {0}

LEMMA OnePiece ==
    ASSUME NEW at \in 0..2, NEW size \in {1, 2, 4}, Aligned(at, size)
    PROVE  Piece(at, size) = size
BY DEF Aligned, Piece

LEMMA EffectInit == Init => EffectInv
BY DEF Init, EffectInv

LEMMA EffectPieces ==
    ASSUME CallTypes, EffectInv, NEW t \in Thread, Pieces(t) PROVE EffectInv'
<1> DEFINE f == call[t].f
<1>1. /\ pc[t] = "pieces" /\ call' = call /\ ok[t] = FALSE /\ IsPci(f)
      /\ Aligned(f.at, Span(f)) /\ done[t] \in {{}, Bytes(f)}
  BY DEF Pieces, EffectInv
<1>2. f.at \in 0..2 /\ Span(f) \in {1, 2, 4}
  BY <1>1, KindsOfCall, PciSizes DEF CallTypes
<1>3. ~ IsSearch(f)
  BY <1>1 DEF IsPci, IsSearch
<1>4. CASE done[t] = {}
  <2>1. Cardinality(done[t]) = 0
    BY <1>4, FS_EmptySet
  <2>2. \/ /\ pc' = pc /\ ok' = ok
           /\ done' = [done EXCEPT ![t] = Bytes(f)]
        \/ /\ pc' = [pc EXCEPT ![t] = "restore"]
           /\ UNCHANGED <<done, ok>>
    <3>1. Piece(f.at, Span(f)) = Span(f)
      BY <1>1, <1>2, OnePiece
    <3>2. f.at + 0 = f.at /\ Span(f) - 0 = Span(f) /\ Span(f) > 0
      BY <1>2
    <3>3. \A P : {} \cup P = P
      OBVIOUS
    <3> QED BY <1>4, <2>1, <3>1, <3>2, <3>3 DEF Pieces, Bytes
  <2>3. \A u \in Thread \ {t} :
           pc'[u] = pc[u] /\ ok'[u] = ok[u] /\ done'[u] = done[u]
    BY <2>2 DEF CallTypes
  <2>4. \/ pc'[t] = "pieces" /\ ~ ok'[t] /\ done'[t] = Bytes(f)
        \/ pc'[t] = "restore" /\ ~ ok'[t] /\ done'[t] = {}
    BY <1>1, <1>4, <2>2 DEF CallTypes
  <2>5. ok'[t] = FALSE
    BY <1>1, <2>2 DEF CallTypes
  <2> QED BY <1>1, <1>3, <2>3, <2>4, <2>5 DEF EffectInv
<1>5. CASE done[t] = Bytes(f)
  <2>1. Cardinality(done[t]) = Span(f)
    <3>1. /\ f.at \in Int /\ f.at + Span(f) - 1 \in Int
          /\ f.at <= f.at + Span(f) - 1
          /\ (f.at + Span(f) - 1) - f.at + 1 = Span(f)
      BY <1>2
    <3> HIDE DEF f
    <3>2. Cardinality(f.at .. f.at + Span(f) - 1)
             = (f.at + Span(f) - 1) - f.at + 1
      BY <3>1, FS_Interval
    <3> QED BY <1>5, <3>1, <3>2 DEF Bytes
  <2>2. /\ pc' = [pc EXCEPT ![t] = "restore"] /\ done' = done
        /\ ok' = [ok EXCEPT ![t] = TRUE]
    <3>1. ~ (Span(f) - Span(f) > 0)
      BY <1>2
    <3> QED BY <2>1, <3>1 DEF Pieces
  <2> QED BY <1>1, <1>3, <1>5, <2>2 DEF CallTypes, EffectInv
<1> QED BY <1>1, <1>4, <1>5

LEMMA EffectRun ==
    ASSUME CallTypes, EffectInv, NEW t \in Thread, Run(t) PROVE EffectInv'
<1> DEFINE f == call[t].f
<1>1. /\ pc[t] = "run" /\ call' = call /\ done[t] = {} /\ ok[t] = FALSE
  BY DEF Run, EffectInv
<1>2. CASE Refuse(t)
  BY <1>1, <1>2 DEF Refuse, CallTypes, EffectInv
<1>3. CASE Reach(t)
  <2>1. done' = [done EXCEPT ![t] = IF IsPci(f) THEN Bytes(f) ELSE {0}]
    BY <1>3 DEF Reach, Bytes
  <2>2. ok' = [ok EXCEPT ![t] = TRUE] /\ pc' = [pc EXCEPT ![t] = "restore"]
    BY <1>3 DEF Reach
  <2> QED BY <1>1, <2>1, <2>2 DEF CallTypes, EffectInv
<1>4. CASE /\ IsSearch(f) /\ pc' = [pc EXCEPT ![t] = "search"]
           /\ UNCHANGED <<done, ok>>
  BY <1>1, <1>4 DEF CallTypes, EffectInv
<1>5. CASE /\ Gated(f) /\ IsPci(f) /\ pc' = [pc EXCEPT ![t] = "pieces"]
           /\ UNCHANGED <<done, ok>>
  BY <1>1, <1>5 DEF CallTypes, EffectInv, Gated
<1> QED BY <1>2, <1>3, <1>4, <1>5 DEF Run

LEMMA EffectStep == CallTypes /\ EffectInv /\ [Next]_vars => EffectInv'
<1> SUFFICES ASSUME CallTypes, EffectInv, [Next]_vars PROVE EffectInv'
  OBVIOUS
<1>1. CASE UNCHANGED vars
  BY <1>1 DEF vars, EffectInv
<1>2. ASSUME NEW t \in Thread, Call(t) PROVE EffectInv'
  BY <1>2 DEF Call, CallTypes, EffectInv
<1>3. ASSUME NEW t \in Thread, Pin(t) PROVE EffectInv'
  BY <1>3 DEF Pin, CallTypes, EffectInv
<1>4. ASSUME NEW t \in Thread, FindBus(t) PROVE EffectInv'
  BY <1>4 DEF FindBus, EndSearch, CallTypes, EffectInv
<1>5. ASSUME NEW t \in Thread, SetPciMaxBusIndex(t) PROVE EffectInv'
  BY <1>5 DEF SetPciMaxBusIndex, EffectInv
<1>6. ASSUME NEW t \in Thread, Restore(t) PROVE EffectInv'
  BY <1>6 DEF Restore, CallTypes, EffectInv
<1>7. ASSUME NEW t \in Thread, Return(t) PROVE EffectInv'
  BY <1>7 DEF Return, CallTypes, EffectInv
<1> QED
  BY <1>1, <1>2, <1>3, <1>4, <1>5, <1>6, <1>7, EffectRun, EffectPieces
     DEF Next, Step

-----------------------------------------------------------------------------
(* The order of the bus: every function has its own rank in a set of them, *)
(* and every rank below the size of the set is taken.                      *)

RankIn(S, s) == Cardinality({r \in S : Before(r, s)})

LEMMA SlotParts ==
    ASSUME NEW s \in Slot
    PROVE  /\ s[1] \in Nat /\ s[2] \in Nat /\ s[3] \in Nat
           /\ s = <<s[1], s[2], s[3]>> /\ s[1] < BusWidth
BY OlsCallsAssumption

LEMMA SlotsAreFinite ==
    ASSUME NEW S \in SUBSET Slot
    PROVE  IsFiniteSet(S) /\ Cardinality(S) \in Nat
BY OlsCallsAssumption, FS_Subset, FS_CardinalityType

LEMMA BusOrder ==
    ASSUME NEW r \in Slot, NEW s \in Slot
    PROVE  /\ ~ Before(s, s)
           /\ r # s => Before(r, s) \/ Before(s, r)
           /\ \A q \in Slot : Before(q, r) /\ Before(r, s) => Before(q, s)
<1>1. ~ Before(s, s)
  BY SlotParts DEF Before
<1>2. r # s => r[1] # s[1] \/ r[2] # s[2] \/ r[3] # s[3]
  BY SlotParts
<1>3. r # s => Before(r, s) \/ Before(s, r)
  BY <1>2, SlotParts DEF Before
<1>4. ASSUME NEW q \in Slot, Before(q, r), Before(r, s) PROVE Before(q, s)
  <2>1. /\ q[1] \in Nat /\ q[2] \in Nat /\ q[3] \in Nat
        /\ r[1] \in Nat /\ r[2] \in Nat /\ r[3] \in Nat
        /\ s[1] \in Nat /\ s[2] \in Nat /\ s[3] \in Nat
    BY SlotParts
  <2> QED BY <1>4, <2>1 DEF Before
<1> QED BY <1>1, <1>3, <1>4

LEMMA RankBelow ==
    ASSUME NEW S \in SUBSET Slot, NEW s \in S
    PROVE  RankIn(S, s) \in 0 .. Cardinality(S) - 1
<1> DEFINE T == {r \in S : Before(r, s)}
<1>1. T \in SUBSET S /\ s \notin T /\ s \in Slot
  BY BusOrder
<1>2. Cardinality(T) <= Cardinality(S) /\ Cardinality(T) # Cardinality(S)
  BY <1>1, SlotsAreFinite, FS_Subset
<1>3. Cardinality(T) \in Nat /\ Cardinality(S) \in Nat
  BY <1>1, SlotsAreFinite
<1> HIDE DEF T
<1>4. Cardinality(T) \in 0 .. Cardinality(S) - 1
  BY <1>2, <1>3
<1> QED BY <1>4 DEF T, RankIn

LEMMA RanksDiffer ==
    ASSUME NEW S \in SUBSET Slot, NEW r \in S, NEW s \in S, r # s
    PROVE  RankIn(S, r) # RankIn(S, s)
<1>1. ASSUME NEW x \in S, NEW y \in S, Before(x, y)
      PROVE  RankIn(S, x) # RankIn(S, y)
  <2> DEFINE X == {q \in S : Before(q, x)}
             Y == {q \in S : Before(q, y)}
  <2>1. X \in SUBSET Y
    BY <1>1, BusOrder
  <2>2. x \in Y /\ x \notin X
    BY <1>1, BusOrder
  <2>3. IsFiniteSet(Y)
    BY SlotsAreFinite
  <2>4. Cardinality(X) # Cardinality(Y)
    BY <2>1, <2>2, <2>3, FS_Subset
  <2> QED BY <2>4 DEF RankIn
<1> QED BY <1>1, BusOrder

LEMMA RankIsTaken ==
    ASSUME NEW S \in SUBSET Slot, NEW k \in 0 .. Cardinality(S) - 1
    PROVE  \E s \in S : RankIn(S, s) = k
<1> SUFFICES ASSUME \A s \in S : RankIn(S, s) # k PROVE FALSE
  OBVIOUS
<1> DEFINE n == Cardinality(S)
           T == (0 .. n - 1) \ {k}
           f == [s \in S |-> RankIn(S, s)]
<1>1. IsFiniteSet(S) /\ n \in Nat
  BY SlotsAreFinite
<1>2. IsFiniteSet(0 .. n - 1) /\ Cardinality(0 .. n - 1) = n
  <2> HIDE DEF n
  <2>1. 0 \in Int /\ n - 1 \in Int /\ ~ (0 > n - 1) /\ (n - 1) - 0 + 1 = n
    BY <1>1 DEF n
  <2> QED BY <2>1, FS_Interval
<1>3. IsFiniteSet(T) /\ Cardinality(T) = n - 1
  BY <1>2, FS_RemoveElement
<1>4. f \in [S -> T]
  BY RankBelow
<1>5. Cardinality(T) < Cardinality(S)
  BY <1>1, <1>3
<1> HIDE DEF f, T
<1>6. \E x, y \in S : x # y /\ f[x] = f[y]
  BY <1>1, <1>3, <1>4, <1>5, FS_PigeonHole
<1> QED BY <1>6, RanksDiffer DEF f

LEMMA AtHasRank ==
    ASSUME NEW S \in SUBSET Slot, NEW k \in 0 .. Cardinality(S) - 1
    PROVE  At(S, k) \in S /\ RankIn(S, At(S, k)) = k
BY RankIsTaken DEF At, RankIn

LEMMA OnlyOneHasRank ==
    ASSUME NEW S \in SUBSET Slot, NEW s \in S
    PROVE  At(S, RankIn(S, s)) = s
<1>1. RankIn(S, s) \in 0 .. Cardinality(S) - 1
  BY RankBelow
<1>2. /\ At(S, RankIn(S, s)) \in S
      /\ RankIn(S, At(S, RankIn(S, s))) = RankIn(S, s)
  BY <1>1, AtHasRank
<1> QED BY <1>2, RanksDiffer

LEMMA Disjoint ==
    ASSUME NEW S \in SUBSET Slot, NEW T \in SUBSET Slot, S \cap T = {}
    PROVE  Cardinality(S \cup T) = Cardinality(S) + Cardinality(T)
<1>1. /\ IsFiniteSet(S) /\ IsFiniteSet(T)
      /\ Cardinality(S) \in Nat /\ Cardinality(T) \in Nat
  BY SlotsAreFinite
<1>2. Cardinality(S \cup T)
         = Cardinality(S) + Cardinality(T) - Cardinality(S \cap T)
  BY <1>1, FS_Union
<1>3. Cardinality(S \cap T) = 0
  BY FS_EmptySet
<1> QED BY <1>1, <1>2, <1>3

(* What is on a bus, and on the buses before it.                           *)
OnBus(S, b)  == {s \in S : s[1] = b}
Earlier(S, b) == {s \in S : s[1] < b}

LEMMA NextBusCounts ==
    ASSUME NEW S \in SUBSET Slot, NEW b \in Nat
    PROVE  Cardinality(Earlier(S, b + 1))
              = Cardinality(Earlier(S, b)) + Cardinality(OnBus(S, b))
<1>1. Earlier(S, b + 1) = Earlier(S, b) \cup OnBus(S, b)
  BY SlotParts DEF Earlier, OnBus
<1>2. /\ Earlier(S, b) \in SUBSET Slot /\ OnBus(S, b) \in SUBSET Slot
      /\ Earlier(S, b) \cap OnBus(S, b) = {}
  BY SlotParts DEF Earlier, OnBus
<1> QED BY <1>1, <1>2, Disjoint

LEMMA AtOnBus ==
    ASSUME NEW S \in SUBSET Slot, NEW b \in Nat,
           NEW k \in 0 .. Cardinality(OnBus(S, b)) - 1
    PROVE  /\ At(S, Cardinality(Earlier(S, b)) + k) = At(OnBus(S, b), k)
           /\ Cardinality(Earlier(S, b)) + k \in 0 .. Cardinality(S) - 1
<1> DEFINE h == OnBus(S, b)
           s == At(h, k)
           T == {r \in h : Before(r, s)}
<1>1. h \in SUBSET Slot /\ Earlier(S, b) \in SUBSET Slot
  BY DEF OnBus, Earlier
<1>2. s \in h /\ RankIn(h, s) = k
  BY <1>1, AtHasRank
<1>3. s \in S /\ s[1] = b
  BY <1>2 DEF OnBus
<1>4. {r \in S : Before(r, s)} = Earlier(S, b) \cup T
  <2> HIDE DEF s
  <2>1. ASSUME NEW r \in S
        PROVE  Before(r, s) <=> r[1] < b \/ (r[1] = b /\ Before(r, s))
    BY <1>3, SlotParts DEF Before
  <2> QED BY <2>1 DEF Earlier, OnBus
<1>5. T \in SUBSET Slot /\ Earlier(S, b) \cap T = {}
  BY SlotParts DEF Earlier, OnBus
<1>6. RankIn(S, s) = Cardinality(Earlier(S, b)) + k
  BY <1>1, <1>2, <1>4, <1>5, Disjoint DEF RankIn
<1> QED BY <1>3, <1>6, OnlyOneHasRank, RankBelow

-----------------------------------------------------------------------------
(* Searches: a search that has kept its last bus has counted the functions *)
(* it wants on the buses behind it.                                        *)

Wanted(t) == Tellable \cap IF call[t].f.code = "FIND_BY_ID" THEN quiet ELSE matches

Clean(t) ==
    \/ call[t].f.code = "FIND_BY_CLASS"
    \/ call[t].f.code = "FIND_BY_ID" /\ maxBus < BusWidth - 1

Answer(t) ==
    LET k == call[t].f.at
    IN IF k < Cardinality(Wanted(t)) THEN At(Wanted(t), k) ELSE Unfound

SearchAt(t) ==
    /\ pc[t] = "pieces" => IsPci(call[t].f)
    /\ pc[t] \in {"idle", "pin", "run"} => bus[t] = 0 /\ count[t] = 0
    /\ t \in steady /\ pc[t] = "search" /\ Clean(t) =>
          /\ bus[t] \in 0 .. maxBus + 1
          /\ count[t] = Cardinality(Earlier(Wanted(t), bus[t]))
          /\ count[t] <= call[t].f.at
    /\ /\ t \in steady /\ pc[t] \in {"restore", "returned"}
       /\ "handle" \in able /\ Clean(t)
       => found[t] = Answer(t)

SearchTypes ==
    /\ quiet \in SUBSET Slot /\ matches \in SUBSET Slot
    /\ maxBus \in 0 .. BusWidth - 1
    /\ steady \in SUBSET Thread
    /\ bus \in [Thread -> Nat] /\ count \in [Thread -> Nat]
    /\ DOMAIN found = Thread

SearchInv == SearchTypes /\ \A t \in Thread : SearchAt(t)

LEMMA SearchRequest ==
    ASSUME NEW r \in Requests, r.f.code \in {"FIND_BY_ID", "FIND_BY_CLASS"}
    PROVE  r.how.kind = "plain" /\ r.f.gate = {"handle"} /\ r.f.at \in 0..1
<1>1. r.f \notin Pinnable
  BY DEF Pinnable, Function, Rdmsr, Wrmsr, Rdpmc, Cpuid, Rdtsc, Hlt
<1>2. PICK g \in Plain : r = [f |-> g, how |-> Plainly]
  BY <1>1 DEF Requests
<1>3. r.how.kind = "plain" /\ r.f = g
  BY <1>2 DEF Plainly
<1>4. r.f \in Searches
  BY <1>1, <1>3
     DEF Plain, PciRequests, ReadPciConfig, WritePciConfig, Function,
     GetDriverVersion, ReadIoPort, WriteIoPort
<1>5. PICK code \in {"FIND_BY_ID", "FIND_BY_CLASS"}, index \in 0..1 :
         r.f = Search(code, index)
  BY <1>4 DEF Searches
<1>6. r.f.gate = {"handle"} /\ r.f.at = index
  BY <1>5 DEF Search, Function
<1> QED BY <1>3, <1>6

(* What the drivers let a search read.                                     *)
LEMMA SearchReads == CanRead(8) /\ CanRead(12) /\ (CanRead(1) <=> ~ IsNT)
<1> DEFINE f(n) == ReadPciConfig(0, n)
<1>1. \A n : f(n).code = "READ_PCI_CONFIG" /\ f(n).in = 8 /\ f(n).out = n
  BY DEF ReadPciConfig, Function
<1>2. \A n : NtReadPciConfig(f(n)) <=> n >= 8
  BY <1>1 DEF NtReadPciConfig, BufferSizeCheck
<1> HIDE DEF f
<1>3. \A n : OlsDispatch(f(n)) <=> n >= 8
  BY <1>1, <1>2 DEF OlsDispatch, NtReadMsr, NtWriteMsr, NtReadIoPort,
     NtWriteIoPort, NtWritePciConfig
<1>4. \A n : W32_DeviceIOControl(f(n))
  BY <1>1 DEF W32_DeviceIOControl, VxdPci
<1> QED BY <1>3, <1>4 DEF CanRead, Served, f

LEMMA HitsAreWanted ==
    ASSUME SearchInv, NEW t \in Thread, Clean(t), NEW b \in 0 .. maxBus
    PROVE  Hits(call[t].f, b) = OnBus(Wanted(t), b)
<1>1. \A n \in {8, 12} :
         LookedAt(b, n) = {s \in Slot : /\ s[1] = b
                                        /\ \/ s[3] = 0
                                           \/ /\ ~ IsNT
                                              /\ <<s[1], s[2]>> \in multi}
  BY SearchReads DEF LookedAt
<1>2. \A n \in {8, 12} : LookedAt(b, n) = OnBus(Tellable, b)
  BY <1>1, SlotParts, OlsCallsAssumption
     DEF OnBus, Tellable, SearchInv, SearchTypes, SearchAt
<1>3. \A P : OnBus(Tellable, b) \cap P = OnBus(Tellable \cap P, b)
  BY DEF OnBus
<1> QED BY <1>2, <1>3 DEF Hits, Wanted, Clean

LEMMA SearchInit == Init => SearchInv
<1> SUFFICES ASSUME Init PROVE SearchInv
  OBVIOUS
<1>1. matches \in SUBSET Slot /\ quiet \in SUBSET Slot
  BY DEF Init
<1>2. maxBus \in 0 .. BusWidth - 1
  BY OlsCallsAssumption DEF Init
<1> QED BY <1>1, <1>2 DEF Init, SearchInv, SearchTypes, SearchAt

LEMMA SearchBus ==
    ASSUME CallTypes, SearchInv, NEW t \in Thread, FindBus(t) PROVE SearchInv'
<1> DEFINE f == call[t].f
           h == Hits(f, bus[t])
<1>1. /\ UNCHANGED <<quiet, matches, platform, multi, able, maxBus, call, steady>>
      /\ pc[t] = "search"
  BY DEF FindBus, machine, hist
<1>2. \A u \in Thread : Wanted(u)' = Wanted(u) /\ Clean(u)' = Clean(u)
                           /\ Answer(u)' = Answer(u)
  BY <1>1 DEF Wanted, Clean, Answer, Tellable, IsNT
<1>3. h \in SUBSET Slot /\ Cardinality(h) \in Nat
  <2>1. h \in SUBSET Slot
    BY DEF Hits, LookedAt
  <2> QED BY <2>1, SlotsAreFinite
<1>4. NextBus(f, bus[t]) \in Nat
  BY OlsCallsAssumption DEF NextBus, SearchInv, SearchTypes, SearchAt
<1>5. Clean(t) => Wanted(t) \in SUBSET Slot /\ f.at \in Nat
  <2>1. Wanted(t) \in SUBSET Slot
    BY DEF Wanted, Tellable
  <2>2. Clean(t) => f.at \in 0..1
    BY SearchRequest DEF Clean, CallTypes
  <2> QED BY <2>1, <2>2
<1>6. CASE /\ EndSearch(t, Unfound) /\ bus[t] > maxBus
           /\ UNCHANGED <<bus, count>>
  <2>1. ASSUME t \in steady, Clean(t) PROVE Answer(t) = Unfound
    <3>1. bus[t] = maxBus + 1
      BY <1>1, <1>6, <2>1 DEF SearchInv, SearchTypes, SearchAt
    <3>2. Earlier(Wanted(t), bus[t]) = Wanted(t)
      BY <1>5, <2>1, <3>1, SlotParts
         DEF Earlier, Wanted, Tellable, SearchInv, SearchTypes, SearchAt
    <3>3. ~ (f.at < Cardinality(Wanted(t)))
      BY <1>1, <1>5, <2>1, <3>2 DEF SearchInv, SearchTypes, SearchAt
    <3> QED BY <3>3 DEF Answer
  <2> QED BY <1>1, <1>2, <1>6, <2>1
     DEF SearchInv, SearchTypes, SearchAt, EndSearch, CallTypes
<1>7. CASE /\ EndSearch(t, At(h, f.at - count[t])) /\ ~ (bus[t] > maxBus)
           /\ f.at < count[t] + Cardinality(h)
           /\ UNCHANGED <<bus, count>>
  <2>1. ASSUME t \in steady, Clean(t)
        PROVE  Answer(t) = At(h, f.at - count[t])
    <3> DEFINE k == f.at - count[t]
    <3>1. /\ bus[t] \in 0 .. maxBus /\ bus[t] \in Nat
          /\ count[t] = Cardinality(Earlier(Wanted(t), bus[t]))
          /\ count[t] <= f.at /\ count[t] \in Nat
      BY <1>1, <1>7, <2>1 DEF SearchInv, SearchTypes, SearchAt
    <3>2. h = OnBus(Wanted(t), bus[t])
      BY <2>1, <3>1, HitsAreWanted
    <3>3. k \in 0 .. Cardinality(OnBus(Wanted(t), bus[t])) - 1
             /\ count[t] + k = f.at
      BY <1>3, <1>5, <1>7, <2>1, <3>1, <3>2
    <3> HIDE DEF k
    <3>4. /\ At(Wanted(t), count[t] + k) = At(h, k)
          /\ count[t] + k \in 0 .. Cardinality(Wanted(t)) - 1
      BY <1>5, <2>1, <3>1, <3>2, <3>3, AtOnBus
    <3>5. Cardinality(Wanted(t)) \in Nat
      BY <1>5, <2>1, SlotsAreFinite
    <3>6. f.at < Cardinality(Wanted(t)) /\ At(Wanted(t), f.at) = At(h, k)
      BY <3>3, <3>4, <3>5
    <3> QED BY <3>6 DEF Answer, k
  <2> QED BY <1>1, <1>2, <1>7, <2>1
     DEF SearchInv, SearchTypes, SearchAt, EndSearch, CallTypes
<1>8. CASE /\ ~ (bus[t] > maxBus) /\ ~ (f.at < count[t] + Cardinality(h))
           /\ bus' = [bus EXCEPT ![t] = NextBus(f, bus[t])]
           /\ count' = [count EXCEPT ![t] = count[t] + Cardinality(h)]
           /\ UNCHANGED <<pc, found>>
  <2>1. bus' \in [Thread -> Nat] /\ count' \in [Thread -> Nat]
    BY <1>3, <1>4, <1>8 DEF SearchInv, SearchTypes, SearchAt
  <2>2. ASSUME t \in steady, Clean(t)
        PROVE  /\ bus'[t] \in 0 .. maxBus + 1
               /\ count'[t] = Cardinality(Earlier(Wanted(t), bus'[t]))
               /\ count'[t] <= f.at
    <3>1. /\ bus[t] \in 0 .. maxBus /\ bus[t] \in Nat /\ maxBus \in Nat
          /\ count[t] = Cardinality(Earlier(Wanted(t), bus[t]))
          /\ count[t] \in Nat
      BY <1>1, <1>8, <2>2, OlsCallsAssumption
         DEF SearchInv, SearchTypes, SearchAt
    <3>2. h = OnBus(Wanted(t), bus[t])
      BY <2>2, <3>1, HitsAreWanted
    <3>3. NextBus(f, bus[t]) = bus[t] + 1
      <4>1. CASE f.code # "FIND_BY_ID"
        BY <4>1 DEF NextBus
      <4>2. CASE f.code = "FIND_BY_ID"
        <5>1. maxBus < BusWidth - 1
          BY <2>2, <4>2 DEF Clean
        <5>2. BusWidth \in Nat \ {0} /\ bus[t] + 1 \in 0 .. BusWidth - 1
          BY <3>1, <5>1, OlsCallsAssumption
        <5>3. (bus[t] + 1) % BusWidth = bus[t] + 1
          BY <5>2
        <5> QED BY <4>2, <5>3 DEF NextBus
      <4> QED BY <4>1, <4>2
    <3>4. bus'[t] = bus[t] + 1 /\ count'[t] = count[t] + Cardinality(h)
      BY <1>8, <3>3 DEF SearchInv, SearchTypes, SearchAt
    <3>5. count'[t] = Cardinality(Earlier(Wanted(t), bus[t] + 1))
      BY <1>5, <2>2, <3>1, <3>2, <3>4, NextBusCounts
    <3>6. count'[t] <= f.at
      BY <1>3, <1>5, <1>8, <2>2, <3>1, <3>4
    <3> QED BY <3>1, <3>4, <3>5, <3>6
  <2> QED BY <1>1, <1>2, <1>8, <2>1, <2>2 DEF SearchInv, SearchTypes, SearchAt
<1> QED BY <1>6, <1>7, <1>8 DEF FindBus

(* A thread that does nothing keeps what is said of it.                    *)
LEMMA OthersSearch ==
    ASSUME SearchInv, UNCHANGED <<machine, maxBus>>, NEW u \in Thread,
           pc'[u] = pc[u], call'[u] = call[u], bus'[u] = bus[u],
           count'[u] = count[u], found'[u] = found[u],
           u \in steady' => u \in steady
    PROVE  SearchAt(u)'
<1>1. UNCHANGED <<quiet, matches, platform, multi, able, maxBus>>
  BY DEF machine
<1>2. Wanted(u)' = Wanted(u) /\ Clean(u)' = Clean(u) /\ Answer(u)' = Answer(u)
  BY <1>1 DEF Wanted, Clean, Answer, Tellable, IsNT
<1> QED BY <1>1, <1>2 DEF SearchInv, SearchAt

LEMMA SearchStep == CallTypes /\ SearchInv /\ [Next]_vars => SearchInv'
<1> SUFFICES ASSUME CallTypes, SearchInv, [Next]_vars PROVE SearchInv'
  OBVIOUS
<1>1. CASE UNCHANGED vars
  BY <1>1, OthersSearch DEF vars, machine, hist, SearchInv, SearchTypes
<1>2. ASSUME NEW t \in Thread, Call(t) PROVE SearchInv'
  <2>1. SearchAt(t)'
    BY <1>2 DEF Call, CallTypes, SearchInv, SearchAt
  <2>2. \A u \in Thread \ {t} : SearchAt(u)'
    BY <1>2, OthersSearch DEF Call, CallTypes
  <2>3. SearchTypes'
    BY <1>2 DEF Call, SearchInv, SearchTypes, machine
  <2> QED BY <2>1, <2>2, <2>3 DEF SearchInv
<1>3. ASSUME NEW t \in Thread, Pin(t) PROVE SearchInv'
  <2>1. /\ UNCHANGED <<machine, maxBus, call, bus, count, found, steady>>
        /\ pc[t] = "pin"
        /\ \/ pc' = [pc EXCEPT ![t] = "run"]
           \/ pc' = [pc EXCEPT ![t] = "returned"] /\ Kind(t) # "plain"
    BY <1>3 DEF Pin
  <2>2. Kind(t) # "plain" => ~ Clean(t)'
    BY <2>1, SearchRequest DEF CallTypes, Kind, Clean
  <2>3. SearchAt(t)'
    BY <2>1, <2>2 DEF CallTypes, SearchInv, SearchAt
  <2>4. \A u \in Thread \ {t} : SearchAt(u)'
    BY <2>1, OthersSearch DEF CallTypes
  <2>5. SearchTypes'
    BY <2>1 DEF SearchInv, SearchTypes, machine
  <2> QED BY <2>3, <2>4, <2>5 DEF SearchInv
<1>4. ASSUME NEW t \in Thread, Run(t) PROVE SearchInv'
  <2>1. UNCHANGED <<machine, maxBus, call, bus, count, found, steady>>
    BY <1>4 DEF Run, hist
  <2>2. /\ pc[t] = "run"
        /\ \E w \in {"restore", "search", "pieces"} :
              pc' = [pc EXCEPT ![t] = w]
    BY <1>4 DEF Run, Refuse, Reach
  <2>3. Clean(t) /\ "handle" \in able => pc' = [pc EXCEPT ![t] = "search"]
    <3>1. Clean(t) => call[t].f.gate = {"handle"} /\ IsSearch(call[t].f)
                         /\ ~ IsPci(call[t].f) /\ ~ IsIoctl(call[t].f)
                         /\ call[t].f.code # "none"
      BY SearchRequest DEF CallTypes, IsSearch, IsPci, IsIoctl, Clean
    <3> QED BY <1>4, <3>1 DEF Run, Gated
  <2>4. Clean(t) => /\ Cardinality(Earlier(Wanted(t), 0)) = 0
                    /\ 0 <= call[t].f.at
    <3>1. Earlier(Wanted(t), 0) = {}
      BY SlotParts DEF Earlier, Wanted, Tellable
    <3>2. Clean(t) => call[t].f.at \in 0..1
      BY SearchRequest DEF CallTypes, Clean
    <3> QED BY <3>1, <3>2, FS_EmptySet
  <2>5. 0 \in 0 .. maxBus + 1
    BY OlsCallsAssumption DEF SearchInv, SearchTypes
  <2>6. pc' = [pc EXCEPT ![t] = "pieces"] => IsPci(call[t].f)
    BY <1>4 DEF Run, Refuse, Reach, CallTypes
  <2>7. Wanted(t)' = Wanted(t) /\ Clean(t)' = Clean(t) /\ able' = able
    BY <2>1 DEF Wanted, Clean, Tellable, IsNT, machine
  <2>8. SearchAt(t)'
    <3>1. bus'[t] = 0 /\ count'[t] = 0
      BY <2>1, <2>2 DEF SearchInv, SearchAt
    <3>2. t \in steady' /\ pc'[t] = "search" /\ Clean(t)' =>
             /\ bus'[t] \in 0 .. maxBus' + 1
             /\ count'[t] = Cardinality(Earlier(Wanted(t)', bus'[t]))
             /\ count'[t] <= call'[t].f.at
      BY <2>1, <2>4, <2>5, <2>7, <3>1
    <3>3. ~ (pc'[t] \in {"restore", "returned"} /\ "handle" \in able'
                /\ Clean(t)')
      BY <2>2, <2>3, <2>7 DEF CallTypes
    <3>4. pc'[t] = "pieces" => IsPci(call'[t].f)
      BY <2>1, <2>2, <2>6 DEF CallTypes
    <3> QED BY <3>1, <3>2, <3>3, <3>4 DEF SearchAt
  <2>9. \A u \in Thread \ {t} : SearchAt(u)'
    BY <2>1, <2>2, OthersSearch DEF CallTypes
  <2>10. SearchTypes'
    BY <2>1 DEF SearchInv, SearchTypes, machine
  <2> QED BY <2>8, <2>9, <2>10 DEF SearchInv
<1>5. ASSUME NEW t \in Thread, Pieces(t) PROVE SearchInv'
  <2>1. /\ UNCHANGED <<machine, maxBus, call, bus, count, found, steady>>
        /\ pc[t] = "pieces"
        /\ pc' = pc \/ pc' = [pc EXCEPT ![t] = "restore"]
    BY <1>5 DEF Pieces, hist
  <2>2. IsPci(call[t].f) /\ ~ Clean(t)'
    BY <2>1 DEF SearchInv, SearchAt, IsPci, Clean
  <2>3. SearchAt(t)'
    BY <2>1, <2>2 DEF CallTypes, SearchAt
  <2>4. \A u \in Thread \ {t} : SearchAt(u)'
    BY <2>1, OthersSearch DEF CallTypes
  <2>5. SearchTypes'
    BY <2>1 DEF SearchInv, SearchTypes, machine
  <2> QED BY <2>3, <2>4, <2>5 DEF SearchInv
<1>6. ASSUME NEW t \in Thread, SetPciMaxBusIndex(t) PROVE SearchInv'
  BY <1>6 DEF SetPciMaxBusIndex, SearchInv, SearchTypes, SearchAt, machine
<1>7. ASSUME NEW t \in Thread, Restore(t) PROVE SearchInv'
  <2>1. /\ UNCHANGED <<machine, maxBus, call, bus, count, found, steady>>
        /\ pc[t] = "restore" /\ pc' = [pc EXCEPT ![t] = "returned"]
    BY <1>7 DEF Restore
  <2>2. Answer(t)' = Answer(t) /\ Clean(t)' = Clean(t) /\ able' = able
    BY <2>1 DEF Answer, Wanted, Clean, Tellable, IsNT, machine
  <2>3. SearchAt(t)'
    BY <2>1, <2>2 DEF CallTypes, SearchInv, SearchAt
  <2>4. \A u \in Thread \ {t} : SearchAt(u)'
    BY <2>1, OthersSearch DEF CallTypes
  <2>5. SearchTypes'
    BY <2>1 DEF SearchInv, SearchTypes, machine
  <2> QED BY <2>3, <2>4, <2>5 DEF SearchInv
<1>8. ASSUME NEW t \in Thread, Return(t) PROVE SearchInv'
  <2>1. SearchAt(t)'
    BY <1>8 DEF Return, CallTypes, SearchInv, SearchTypes, SearchAt
  <2>2. \A u \in Thread \ {t} : SearchAt(u)'
    BY <1>8, OthersSearch DEF Return, CallTypes
  <2>3. SearchTypes'
    BY <1>8 DEF Return, SearchInv, SearchTypes, machine
  <2> QED BY <2>1, <2>2, <2>3 DEF SearchInv
<1> QED
  BY <1>1, <1>2, <1>3, <1>4, <1>5, <1>6, <1>7, <1>8, SearchBus DEF Next, Step

LEMMA FoundIsAnswer == SearchInv => FindIsIndexth
BY DEF SearchInv, SearchTypes, SearchAt, FindIsIndexth, Answer, Wanted, Clean

-----------------------------------------------------------------------------
(* Every reachable state has the declared shape: masks are sets of         *)
(* processors, the bytes a call has touched are numbers, whatever the      *)
(* threads call and in whichever order.                                    *)
THEOREM CallTyping == Spec => []CallTypes
<1>1. Init => CallTypes
  BY CallTypesInit
<1>2. CallTypes /\ [Next]_vars => CallTypes'
  BY CallTypesStep
<1> QED BY <1>1, <1>2, PTL DEF Spec

(* A call that asks for processors runs on one of them, for any number of  *)
(* threads and processors, unless a ...Px call of another thread came in   *)
(* between.                                                                *)
THEOREM CallRunsWhereAsked == Spec => []RunsWhereAsked
<1>1. Init => PinnedInv
  BY PinnedInit
<1>2. CallTypes /\ PinnedInv /\ [Next]_vars => PinnedInv'
  BY PinnedStep
<1>3. PinnedInv => RunsWhereAsked
  BY DEF PinnedInv
<1> QED BY <1>1, <1>2, <1>3, CallTyping, PTL DEF Spec

(* When no call is in progress the process may use every processor again,  *)
(* and each thread those it had, for any number of threads, unless calls   *)
(* that change masks overlapped as MasksComeBack says.                     *)
THEOREM CallMasksComeBack == Spec => []MasksComeBack
<1>1. Init => BackInv
  BY BackInit
<1>2. CallTypes /\ BackInv /\ [Next]_vars => BackInv'
  BY BackStep
<1>3. CallTypes /\ BackInv => MasksComeBack
  BY AllAtRest
<1> QED BY <1>1, <1>2, <1>3, CallTyping, PTL DEF Spec

(* A call that returns TRUE has touched all the bytes it was asked for and *)
(* one that returns FALSE none of them, with each of the three drivers.    *)
THEOREM CallIsWhole == Spec => []EffectIffTrue
<1>1. Init => EffectInv
  BY EffectInit
<1>2. CallTypes /\ EffectInv /\ [Next]_vars => EffectInv'
  BY EffectStep
<1>3. EffectInv => EffectIffTrue
  BY DEF EffectInv, EffectIffTrue, Bytes
<1> QED BY <1>1, <1>2, <1>3, CallTyping, PTL DEF Spec

(* A search with the index i returns the i-th function in the order of the *)
(* bus, for any machine, any number of buses and any threads beside it, as *)
(* FindIsIndexth says.                                                     *)
THEOREM CallFinds == Spec => []FindIsIndexth
<1>1. Init => SearchInv
  BY SearchInit
<1>2. CallTypes /\ SearchInv /\ [Next]_vars => SearchInv'
  BY SearchStep
<1>3. SearchInv => FindIsIndexth
  BY FoundIsAnswer
<1> QED BY <1>1, <1>2, <1>3, CallTyping, PTL DEF Spec

-----------------------------------------------------------------------------
(* How long a call lasts.                                                  *)

(* A bound on the steps still to come.                                     *)
CallLeft(t) ==
    IF pc[t] = "idle" THEN 0
    ELSE IF pc[t] = "returned" THEN 1
    ELSE IF pc[t] = "restore" THEN 2
    ELSE IF pc[t] = "pieces" THEN (IF done[t] = {} THEN 4 ELSE 3)
    ELSE IF pc[t] = "search"
         THEN (IF bus[t] <= BusWidth THEN 3 + BusWidth - bus[t] ELSE 3)
    ELSE IF pc[t] = "run" THEN 5 + BusWidth
    ELSE 6 + BusWidth

(* The search by number goes on with the first bus after the last there is.*)
Wraps(t) ==
    /\ FindBus(t) /\ UNCHANGED pc
    /\ call[t].f.code = "FIND_BY_ID"
    /\ bus[t] = BusWidth - 1 /\ maxBus = BusWidth - 1

CallRunsDown ==
    \A t \in Thread :
        /\ Step(t) /\ ~ Wraps(t) => CallLeft(t)' < CallLeft(t)
        /\ pc[t] # "idle" /\ ~ Step(t) => CallLeft(t)' = CallLeft(t)

CallIsBounded == \A t \in Thread : CallLeft(t) \in 0 .. BusWidth + 6

LEMMA CallBound == CallTypes /\ SearchTypes => CallIsBounded
<1> SUFFICES ASSUME CallTypes, SearchTypes, NEW t \in Thread
             PROVE  CallLeft(t) \in 0 .. BusWidth + 6
  BY DEF CallIsBounded
<1>1. bus[t] \in Nat /\ BusWidth \in Nat \ {0}
  BY OlsCallsAssumption DEF SearchTypes
<1> QED BY <1>1 DEF CallLeft

LEMMA BytesCounted ==
    ASSUME NEW f, f.at \in 0..2, Span(f) \in {1, 2, 4}
    PROVE  Cardinality(Bytes(f)) = Span(f)
<1>1. ASSUME NEW a \in 0..2, NEW n \in {1, 2, 4}
      PROVE  Cardinality(a .. a + n - 1) = n
  <2>1. a \in Int /\ a + n - 1 \in Int /\ a <= a + n - 1 /\ (a + n - 1) - a + 1 = n
    OBVIOUS
  <2> QED BY <2>1, FS_Interval
<1> QED BY <1>1 DEF Bytes

LEMMA PiecesShorten ==
    ASSUME CallTypes, EffectInv, SearchTypes, NEW t \in Thread, Pieces(t)
    PROVE  CallLeft(t)' < CallLeft(t)
<1> DEFINE f == call[t].f
<1>1. /\ pc[t] = "pieces" /\ IsPci(f) /\ done[t] \in {{}, Bytes(f)}
      /\ Aligned(f.at, Span(f))
  BY DEF Pieces, EffectInv
<1>2. f.at \in 0..2 /\ Span(f) \in {1, 2, 4}
  BY <1>1, KindsOfCall, PciSizes DEF CallTypes
<1>3. CASE pc' = [pc EXCEPT ![t] = "restore"]
  BY <1>1, <1>3 DEF CallTypes, CallLeft
<1>4. CASE /\ UNCHANGED pc /\ Span(f) - Cardinality(done[t]) > 0
           /\ done' = [done EXCEPT ![t] = @ \cup
                (f.at + Cardinality(done[t]) ..
                   f.at + Cardinality(done[t])
                     + Piece(f.at + Cardinality(done[t]),
                             Span(f) - Cardinality(done[t])) - 1)]
  <2>1. done[t] = {}
    <3>1. Cardinality(Bytes(f)) = Span(f)
      BY <1>2, BytesCounted
    <3>2. ~ (Span(f) - Span(f) > 0)
      BY <1>2
    <3> QED BY <1>1, <1>4, <3>1, <3>2
  <2>2. Cardinality(done[t]) = 0
    BY <2>1, FS_EmptySet
  <2>3. Piece(f.at, Span(f)) = Span(f) /\ f.at + 0 = f.at /\ Span(f) - 0 = Span(f)
    BY <1>1, <1>2, OnePiece
  <2>4. done'[t] = {} \cup (f.at .. f.at + Span(f) - 1)
    BY <1>4, <2>1, <2>2, <2>3 DEF CallTypes
  <2>5. done'[t] # {}
    <3>1. f.at \in f.at .. f.at + Span(f) - 1
      BY <1>2
    <3> QED BY <2>4, <3>1
  <2> QED BY <1>1, <1>4, <2>1, <2>5 DEF CallLeft
<1> QED BY <1>3, <1>4 DEF Pieces

LEMMA SearchShortens ==
    ASSUME CallTypes, SearchTypes, NEW t \in Thread, FindBus(t), ~ Wraps(t)
    PROVE  CallLeft(t)' < CallLeft(t)
<1>1. /\ pc[t] = "search" /\ bus[t] \in Nat /\ BusWidth \in Nat \ {0}
      /\ maxBus \in 0 .. BusWidth - 1
  BY OlsCallsAssumption DEF FindBus, SearchTypes
<1>2. CASE pc' = [pc EXCEPT ![t] = "restore"]
  BY <1>1, <1>2 DEF CallTypes, CallLeft
<1>3. CASE /\ UNCHANGED pc /\ ~ (bus[t] > maxBus)
           /\ bus' = [bus EXCEPT ![t] = NextBus(call[t].f, @)]
  <2>1. bus[t] \in 0 .. maxBus
    BY <1>1, <1>3
  <2>2. bus'[t] = bus[t] + 1
    <3>1. CASE call[t].f.code = "FIND_BY_ID"
      <4>1. bus[t] # BusWidth - 1
        <5>1. bus[t] = BusWidth - 1 => maxBus = BusWidth - 1
          BY <1>1, <2>1
        <5> QED BY <1>3, <3>1, <5>1 DEF Wraps
      <4>2. bus[t] + 1 \in 0 .. BusWidth - 1
        BY <1>1, <2>1, <4>1
      <4>3. (bus[t] + 1) % BusWidth = bus[t] + 1
        BY <1>1, <4>2
      <4> QED BY <1>3, <3>1, <4>3 DEF NextBus, SearchTypes
    <3>2. CASE call[t].f.code # "FIND_BY_ID"
      BY <1>3, <3>2 DEF NextBus, SearchTypes
    <3> QED BY <3>1, <3>2
  <2>3. CallLeft(t) = 3 + BusWidth - bus[t]
    BY <1>1, <2>1 DEF CallLeft
  <2>4. CallLeft(t)' = 3 + BusWidth - (bus[t] + 1)
    BY <1>1, <1>3, <2>1, <2>2 DEF CallLeft
  <2> QED BY <1>1, <2>3, <2>4
<1> QED BY <1>2, <1>3 DEF FindBus, EndSearch

LEMMA CallShortens ==
    ASSUME CallTypes, EffectInv, SearchTypes, SearchInv, NEW t \in Thread,
           Step(t), ~ Wraps(t)
    PROVE  CallLeft(t)' < CallLeft(t)
<1>1. BusWidth \in Nat \ {0}
  BY OlsCallsAssumption
<1>2. CASE Pin(t)
  <2>1. pc[t] = "pin" /\ pc'[t] \in {"run", "returned"}
    BY <1>2 DEF Pin, CallTypes
  <2> QED BY <1>1, <2>1 DEF CallLeft
<1>3. CASE Run(t)
  <2>1. /\ pc[t] = "run" /\ pc'[t] \in {"restore", "search", "pieces"}
        /\ bus' = bus
    BY <1>3 DEF Run, Refuse, Reach, CallTypes
  <2>2. bus[t] = 0
    BY <2>1 DEF SearchInv, SearchAt
  <2> QED BY <1>1, <2>1, <2>2 DEF CallLeft
<1>4. CASE Restore(t)
  <2>1. pc[t] = "restore" /\ pc'[t] = "returned"
    BY <1>4 DEF Restore, CallTypes
  <2> QED BY <2>1 DEF CallLeft
<1>5. CASE Return(t)
  <2>1. pc[t] = "returned" /\ pc'[t] = "idle"
    BY <1>5 DEF Return, CallTypes
  <2> QED BY <2>1 DEF CallLeft
<1> QED BY <1>2, <1>3, <1>4, <1>5, PiecesShorten, SearchShortens DEF Step

LEMMA CallWaits ==
    ASSUME CallTypes, SearchTypes, [Next]_vars, NEW t \in Thread,
           pc[t] # "idle", ~ Step(t)
    PROVE  CallLeft(t)' = CallLeft(t)
<1>1. SUFFICES pc'[t] = pc[t] /\ bus'[t] = bus[t] /\ done'[t] = done[t]
  BY DEF CallLeft
<1>2. CASE UNCHANGED vars
  BY <1>2 DEF vars
<1>3. ASSUME NEW u \in Thread, Call(u) PROVE u # t /\ UNCHANGED <<bus, done>>
                                          /\ pc'[t] = pc[t]
  BY <1>3 DEF Call, CallTypes
<1>4. ASSUME NEW u \in Thread, SetPciMaxBusIndex(u)
      PROVE  UNCHANGED <<pc, bus, done>>
  BY <1>4 DEF SetPciMaxBusIndex
<1>5. ASSUME NEW u \in Thread \ {t}, Step(u)
      PROVE  pc'[t] = pc[t] /\ bus'[t] = bus[t] /\ done'[t] = done[t]
  <2>1. CASE Pin(u) \/ Restore(u) \/ Return(u)
    BY <2>1 DEF Pin, Restore, Return, CallTypes, SearchTypes
  <2>2. CASE Run(u)
    BY <2>2 DEF Run, Refuse, Reach, CallTypes
  <2>3. CASE Pieces(u) \/ FindBus(u)
    BY <2>3 DEF Pieces, FindBus, EndSearch, CallTypes, SearchTypes
  <2> QED BY <1>5, <2>1, <2>2, <2>3 DEF Step
<1> QED BY <1>2, <1>3, <1>4, <1>5 DEF Next

(* A call is over after at most BusWidth + 6 of its own steps, whatever    *)
(* the other threads do, also if one of them moves the last bus meanwhile; *)
(* only the byte-wide counter of FindPciDeviceById starts again.           *)
THEOREM CallsRunDown == Spec => []CallIsBounded /\ [][CallRunsDown]_vars
<1>1. Init => CallTypes /\ EffectInv /\ SearchInv
  BY CallTypesInit, EffectInit, SearchInit
<1>2. CallTypes /\ EffectInv /\ SearchInv /\ [Next]_vars
         => CallTypes' /\ EffectInv' /\ SearchInv'
  BY CallTypesStep, EffectStep, SearchStep
<1>3. CallTypes /\ EffectInv /\ SearchInv /\ [Next]_vars => [CallRunsDown]_vars
  BY CallShortens, CallWaits DEF CallRunsDown, SearchInv
<1>4. CallTypes /\ SearchInv => CallIsBounded
  BY CallBound DEF SearchInv
<1> QED BY <1>1, <1>2, <1>3, <1>4, PTL DEF Spec
=============================================================================
