----------------------------- MODULE Rebar_proofs -----------------------------
(***************************************************************************)
(* Proofs about the BAR1 resize, for every size, address space, memory map *)
(* and choice of the firmware.                                             *)
(***************************************************************************)
EXTENDS Rebar, TLAPS

(* Division with remainder, and what it says of multiples.                 *)
LEMMA DivMod ==
    ASSUME NEW a \in Int, NEW m \in Nat \ {0}
    PROVE  /\ a = (a \div m) * m + (a % m)
           /\ a % m \in 0 .. m - 1
           /\ a \div m \in Int
           /\ a \in Nat => a \div m \in Nat
  OBVIOUS

LEMMA MultipleIff ==
    ASSUME NEW a \in Int, NEW m \in Nat \ {0}
    PROVE  a % m = 0 <=> \E k \in Int : a = k * m
<1>1. ASSUME NEW k \in Int, a = k * m PROVE a % m = 0
  <2>1. (k * m) % m = 0
    OBVIOUS
  <2> QED BY <1>1, <2>1
<1>2. ASSUME a % m = 0 PROVE \E k \in Int : a = k * m
  <2>1. a = (a \div m) * m /\ a \div m \in Int
    BY <1>2, DivMod
  <2> QED BY <2>1
<1> QED BY <1>1, <1>2

(* Down and Up stay within one modulus of the value and give multiples.    *)
LEMMA DownIs ==
    ASSUME NEW v \in Int, NEW m \in Nat \ {0}
    PROVE  /\ Down(v, m) \in Int
           /\ Down(v, m) % m = 0
           /\ v - m < Down(v, m) /\ Down(v, m) <= v
           /\ v \in Nat => Down(v, m) \in Nat
           /\ v % m = 0 => Down(v, m) = v
<1>1. Down(v, m) = v - (v % m) /\ v % m \in 0 .. m - 1
  BY DEF Down
<1>2. v = (v \div m) * m + (v % m) /\ v \div m \in Int
  BY DivMod
<1>3. Down(v, m) % m = 0
  <2> DEFINE k == v \div m
  <2>1. k \in Int /\ Down(v, m) = k * m /\ Down(v, m) \in Int
    BY <1>1, <1>2
  <2> HIDE DEF k
  <2> QED BY <2>1, MultipleIff
<1>4. ASSUME v \in Nat PROVE Down(v, m) \in Nat
  <2>1. v \div m \in Nat
    BY <1>4, DivMod
  <2>2. (v \div m) * m \in Nat
    BY <2>1
  <2> QED BY <1>1, <1>2, <2>2
<1>5. v % m = 0 => Down(v, m) = v
  BY <1>1
<1>6. v - m < Down(v, m) /\ Down(v, m) <= v /\ Down(v, m) \in Int
  BY <1>1
<1> QED BY <1>3, <1>4, <1>5, <1>6

LEMMA UpIs ==
    ASSUME NEW v \in Int, NEW m \in Nat \ {0}
    PROVE  /\ Up(v, m) \in Int
           /\ Up(v, m) % m = 0
           /\ v <= Up(v, m) /\ Up(v, m) < v + m
<1>1. Up(v, m) = v + ((-v) % m) /\ (-v) % m \in 0 .. m - 1
  BY DEF Up
<1>2. -v = ((-v) \div m) * m + ((-v) % m) /\ (-v) \div m \in Int
  BY DivMod
<1> DEFINE k == -((-v) \div m)
<1>3. k \in Int /\ Up(v, m) = k * m
  BY <1>1, <1>2
<1>4. Up(v, m) % m = 0
  BY <1>1, <1>3, MultipleIff
<1> QED BY <1>1, <1>4

(* The multiples of m at v and above start at Up(v, m).                    *)
LEMMA UpIsLeast ==
    ASSUME NEW v \in Int, NEW w \in Int, NEW m \in Nat \ {0},
           w % m = 0, v <= w
    PROVE  Up(v, m) <= w
<1>1. PICK i \in Int : w = i * m
  BY MultipleIff
<1>2. PICK j \in Int : Up(v, m) = j * m
  BY UpIs, MultipleIff
<1>3. Up(v, m) < v + m
  BY UpIs
<1>4. j * m < (i + 1) * m
  BY <1>1, <1>2, <1>3
<1>5. j < i + 1
  BY <1>4
<1>6. j <= i
  BY <1>5
<1>7. j * m <= i * m
  BY <1>6
<1> QED BY <1>1, <1>2, <1>7

(* The first multiple of s behind a block of w that starts at a multiple   *)
(* of w is at most one aligned block of s away.                            *)
LEMMA UpAfterBlock ==
    ASSUME NEW w \in Nat \ {0}, NEW s \in Nat \ {0}, NEW c \in Nat,
           c % w = 0, w % s = 0 \/ s % w = 0
    PROVE  Up(c + w, s) <= c + Up(w, s)
<1>1. Up(w, s) \in Int /\ w <= Up(w, s) /\ Up(w, s) % s = 0
  BY UpIs
<1>2. PICK i \in Int : c = i * w
  BY MultipleIff
<1>3. CASE w % s = 0
  <2>1. PICK j \in Int : w = j * s
    BY <1>3, MultipleIff
  <2> DEFINE k == (i + 1) * j
  <2>2. k \in Int /\ c + w = k * s /\ c + w \in Int
    BY <1>2, <2>1
  <2> HIDE DEF k
  <2>3. (c + w) % s = 0
    BY <2>2, MultipleIff
  <2>4. Up(c + w, s) <= c + w
    BY <2>2, <2>3, UpIsLeast
  <2>5. Up(c + w, s) \in Int
    BY UpIs
  <2> QED BY <1>1, <2>4, <2>5
<1>4. CASE s % w = 0
  <2>1. PICK j \in Int : s = j * w
    BY <1>4, MultipleIff
  <2>2. /\ Up(c + w, s) \in Int
        /\ Up(c + w, s) < c + w + s
        /\ Up(c + w, s) % s = 0
    BY UpIs
  <2>3. PICK n \in Int : Up(c + w, s) = n * s
    BY <2>2, MultipleIff
  <2>4. Up(c + w, s) = (n * j) * w
    BY <2>1, <2>3
  <2>5. (n * j) * w < (i + 1 + j) * w
    BY <1>2, <2>1, <2>2, <2>4
  <2>6. n * j < i + 1 + j
    BY <2>5
  <2>7. n * j <= i + j
    BY <2>6
  <2>8. (n * j) * w <= (i + j) * w
    BY <2>7
  <2>9. Up(c + w, s) <= c + s
    BY <1>2, <2>1, <2>4, <2>8
  <2>10. s <= Up(w, s)
    <3>1. PICK m \in Int : Up(w, s) = m * s
      BY <1>1, MultipleIff
    <3>2. m * s >= 1
      BY <1>1, <3>1
    <3>3. m >= 1
      BY <3>2
    <3>4. m * s >= 1 * s
      BY <3>3
    <3> QED BY <3>1, <3>4
  <2> QED BY <1>1, <2>2, <2>9, <2>10
<1> QED BY <1>3, <1>4

(* Where BAR3 is put after BAR1 it is aligned, clear of BAR1 and within    *)
(* the range that was found free, whichever of the two is the larger.      *)
LEMMA PlanFits ==
    ASSUME size3 \in Bar3Sizes, NEW c \in Nat, c % Want = 0
    PROVE  /\ Required \in Nat
           /\ Up(c + Want, size3) \in Nat
           /\ Up(c + Want, size3) % size3 = 0
           /\ c + Want <= Up(c + Want, size3)
           /\ Up(c + Want, size3) + size3 <= c + Required
<1>1. /\ size3 \in Nat \ {0} /\ Want \in Nat \ {0}
      /\ Want % size3 = 0 \/ size3 % Want = 0
  BY SizesArePositive, SizesAreAligned
<1>2. ASSUME NEW w \in Nat \ {0}, NEW s \in Nat \ {0}
      PROVE  Up(w, s) + s \in Nat /\ Up(w, s) \in Nat
  <2>1. Up(w, s) \in Int /\ w <= Up(w, s)
    BY UpIs
  <2> QED BY <2>1
<1>3. ASSUME NEW w \in Nat \ {0}, NEW s \in Nat \ {0}
      PROVE  /\ Up(c + w, s) \in Nat
             /\ Up(c + w, s) % s = 0
             /\ c + w <= Up(c + w, s)
  <2>1. /\ Up(c + w, s) \in Int /\ c + w <= Up(c + w, s)
        /\ Up(c + w, s) % s = 0
    BY UpIs
  <2> QED BY <2>1
<1>4. Up(c + Want, size3) <= c + Up(Want, size3)
  BY <1>1, UpAfterBlock
<1>5. Required = Up(Want, size3) + size3 /\ Required \in Nat
  BY <1>1, <1>2 DEF Required
<1>6. /\ Up(c + Want, size3) \in Nat
      /\ Up(c + Want, size3) % size3 = 0
      /\ c + Want <= Up(c + Want, size3)
  BY <1>1, <1>3
<1>7. Up(Want, size3) \in Nat
  BY <1>1, <1>2
<1>8. Up(c + Want, size3) + size3 <= c + Required
  BY <1>1, <1>4, <1>5, <1>6, <1>7
<1> QED BY <1>5, <1>6, <1>8

-----------------------------------------------------------------------------
(* A write to one of the registers that hold what is written to them.      *)
LEMMA PlainWrite ==
    ASSUME NEW v
    PROVE  /\ Written("gpuMem", v) = [reg EXCEPT !.gpuMem = v]
           /\ Written("brMem", v) = [reg EXCEPT !.brMem = v]
           /\ Written("lo", v) = [reg EXCEPT !.lo = v]
           /\ Written("baseHi", v) = [reg EXCEPT !.baseHi = v]
           /\ Written("limitHi", v) = [reg EXCEPT !.limitHi = v]
  BY DEF Written

(* A write to a BAR, and one through BAR0.                                 *)
LEMMA OtherWrite ==
    ASSUME NEW v
    PROVE  /\ Written("bar1", v) = [reg EXCEPT !.bar1 = Down(v, reg.ctl)]
           /\ Written("bar3", v) = [reg EXCEPT !.bar3 = Down(v, size3)]
           /\ Written("cfg", v) = IF reg.gpuMem /\ reg.brMem
                                  THEN [reg EXCEPT !.cfg = v] ELSE reg
           /\ Written("cya", v) = IF reg.gpuMem /\ reg.brMem
                                  THEN [reg EXCEPT !.cya = v] ELSE reg
           /\ Written("ctl", v) = IF reg.gpuMem /\ reg.brMem
                 THEN [reg EXCEPT !.ctl = v, !.bar1 = Down(reg.bar1, v)]
                 ELSE reg
  BY DEF Written

LEMMA AddrDown ==
    ASSUME NEW v \in Addr, NEW m \in Nat \ {0} PROVE Down(v, m) \in Addr
<1>1. Down(v, m) \in Nat /\ Down(v, m) <= v
  BY SMTT(30), DownIs DEF Addr
<1> QED BY <1>1, SizesArePositive DEF Addr

LEMMA InitTypeOK == Init => TypeOK
<1> SUFFICES ASSUME Init PROVE TypeOK
  OBVIOUS
<1> USE SizesArePositive, PlatformsOccupyAddresses
<1>1. PICK w \in StockWindows : \E b1, b3 \in w.base .. w.limit :
         reg = [gpuMem |-> TRUE, brMem |-> TRUE, bar1 |-> b1, bar3 |-> b3,
                ctl |-> Stock, cfg |-> "stock", cya |-> "stock",
                lo |-> [base |-> w.base % LoSpan, limit |-> w.limit % LoSpan],
                baseHi |-> w.base \div LoSpan,
                limitHi |-> w.limit \div LoSpan]
  BY DEF Init
<1>2. w.base \in Addr /\ w.limit \in Addr
  OBVIOUS
<1>3. w.base .. w.limit \subseteq Addr
  BY <1>2 DEF Addr
<1>4. /\ w.base % LoSpan \in 0 .. LoSpan - 1
      /\ w.limit % LoSpan \in 0 .. LoSpan - 1
      /\ w.base \div LoSpan \in Nat
      /\ w.limit \div LoSpan \in Nat
  <2>1. ASSUME NEW a \in Nat, NEW m \in Nat \ {0}
        PROVE  a % m \in 0 .. m - 1 /\ a \div m \in Nat
    OBVIOUS
  <2>2. w.base \in Nat /\ w.limit \in Nat /\ LoSpan \in Nat \ {0}
    BY <1>2 DEF Addr
  <2>3. w.base % LoSpan \in 0 .. LoSpan - 1 /\ w.base \div LoSpan \in Nat
    BY <2>1, <2>2
  <2>4. w.limit % LoSpan \in 0 .. LoSpan - 1 /\ w.limit \div LoSpan \in Nat
    BY <2>1, <2>2
  <2> QED BY <2>3, <2>4
<1>5. reg \in Registers
  BY <1>1, <1>3, <1>4 DEF Registers, Lo
<1>6. 0 \in Addr
  BY DEF Addr
<1> QED BY <1>5, <1>6 DEF Init, TypeOK, Checks

LEMMA ChooseTyped ==
    ASSUME TypeOK, Choose
    PROVE  plan' \in [bar1 : Addr, bar3 : Addr] /\ Planned'
<1>1. PICK anchor \in Anchors : \E k \in Choices(anchor) :
         plan' = [bar1 |-> Candidate(anchor, k),
                  bar3 |-> Up(Candidate(anchor, k) + Want, size3)]
  BY DEF Choose
<1>2. PICK k \in Choices(anchor) :
         plan' = [bar1 |-> Candidate(anchor, k),
                  bar3 |-> Up(Candidate(anchor, k) + Want, size3)]
  BY <1>1
<1> DEFINE c == Candidate(anchor, k)
<1>3. c \in Addr /\ c + Required <= AddrLimit /\ Free(Stretch(c))
  BY <1>2 DEF Choices, Acceptable
<1>4. c % Want = 0
  <2>1. anchor \in Int /\ k \in Nat /\ Want \in Nat \ {0} /\ size3 \in Nat \ {0}
    BY <1>2, SizesArePositive DEF Anchors, Choices, TypeOK
  <2>2. PICK i \in Int : Up(anchor, Want) = i * Want
    BY <2>1, UpIs, MultipleIff
  <2>3. Required \in Int
    BY SMTT(30), <2>1, UpIs DEF Required
  <2>4. PICK j \in Int : Up(Required, Want) = j * Want
    BY <2>1, <2>3, UpIs, MultipleIff
  <2>5. 2^k \in Int
    BY <2>1, SMT
  <2> DEFINE n == IF k = 0 THEN 0 ELSE j * 2^k
  <2>6. n \in Int
    BY <2>5
  <2>7. c = i * Want + n * Want
    BY <2>1, <2>2, <2>4, <2>5 DEF Candidate
  <2> HIDE DEF n
  <2>8. c = (i + n) * Want /\ i + n \in Int
    BY <2>1, <2>6, <2>7
  <2> QED BY <1>3, <2>1, <2>8, MultipleIff DEF Addr
<1> HIDE DEF c
<1>5. /\ Required \in Nat
      /\ Up(c + Want, size3) \in Nat
      /\ Up(c + Want, size3) % size3 = 0
      /\ c + Want <= Up(c + Want, size3)
      /\ Up(c + Want, size3) + size3 <= c + Required
  BY <1>3, <1>4, PlanFits DEF TypeOK, Addr
<1>6. Up(c + Want, size3) \in Addr
  BY <1>3, <1>5, SizesArePositive DEF Addr, TypeOK
<1>7. plan' = [bar1 |-> c, bar3 |-> Up(c + Want, size3)]
  BY <1>2 DEF c
<1>8. UNCHANGED <<size3, memmap, others>>
  BY DEF Choose, platform
<1> QED BY <1>3, <1>4, <1>5, <1>6, <1>7, <1>8 DEF Planned, Free, Stretch, Required

(* Every write leaves the registers in their shape.                        *)
LEMMA WriteTyped ==
    ASSUME TypeOK
    PROVE  /\ \A v \in BOOLEAN : Written("gpuMem", v) \in Registers
           /\ \A v \in BOOLEAN : Written("brMem", v) \in Registers
           /\ \A v \in Addr : Written("bar1", v) \in Registers
           /\ \A v \in Addr : Written("bar3", v) \in Registers
           /\ \A v \in {Stock, Want} : Written("ctl", v) \in Registers
           /\ \A v \in {"stock", "wide"} : Written("cfg", v) \in Registers
           /\ \A v \in {"stock", "open"} : Written("cya", v) \in Registers
           /\ \A v \in Lo : Written("lo", v) \in Registers
           /\ \A v \in Nat : Written("baseHi", v) \in Registers
           /\ \A v \in Nat : Written("limitHi", v) \in Registers
<1> USE DEF Registers
<1>0. Want \in Nat \ {0} /\ Stock \in Nat \ {0} /\ size3 \in Nat \ {0}
      /\ reg.ctl \in Nat \ {0} /\ reg.bar1 \in Addr /\ reg \in Registers
  BY SizesArePositive DEF TypeOK
<1>1. ASSUME NEW v \in BOOLEAN PROVE Written("gpuMem", v) \in Registers
  BY <1>0, PlainWrite
<1>2. ASSUME NEW v \in BOOLEAN PROVE Written("brMem", v) \in Registers
  BY <1>0, PlainWrite
<1>3. ASSUME NEW v \in Addr PROVE Written("bar1", v) \in Registers
  <2>1. Down(v, reg.ctl) \in Addr
    BY <1>0, AddrDown
  <2>2. Written("bar1", v) = [reg EXCEPT !.bar1 = Down(v, reg.ctl)]
    BY OtherWrite
  <2> QED BY <1>0, <2>1, <2>2
<1>4. ASSUME NEW v \in Addr PROVE Written("bar3", v) \in Registers
  <2>1. Down(v, size3) \in Addr
    BY <1>0, AddrDown
  <2>2. Written("bar3", v) = [reg EXCEPT !.bar3 = Down(v, size3)]
    BY OtherWrite
  <2> QED BY <1>0, <2>1, <2>2
<1>5. ASSUME NEW v \in {Stock, Want} PROVE Written("ctl", v) \in Registers
  <2>1. Down(reg.bar1, v) \in Addr
    BY <1>0, AddrDown
  <2>2. \/ Written("ctl", v) = [reg EXCEPT !.ctl = v, !.bar1 = Down(reg.bar1, v)]
        \/ Written("ctl", v) = reg
    BY OtherWrite
  <2> QED BY <1>0, <2>1, <2>2
<1>6. ASSUME NEW v \in {"stock", "wide"} PROVE Written("cfg", v) \in Registers
  <2>1. Written("cfg", v) = [reg EXCEPT !.cfg = v] \/ Written("cfg", v) = reg
    BY OtherWrite
  <2> QED BY <1>0, <2>1
<1>7. ASSUME NEW v \in {"stock", "open"} PROVE Written("cya", v) \in Registers
  <2>1. Written("cya", v) = [reg EXCEPT !.cya = v] \/ Written("cya", v) = reg
    BY OtherWrite
  <2> QED BY <1>0, <2>1
<1>8. ASSUME NEW v \in Lo PROVE Written("lo", v) \in Registers
  BY <1>0, PlainWrite
<1>9. ASSUME NEW v \in Nat PROVE Written("baseHi", v) \in Registers
  BY <1>0, PlainWrite
<1>10. ASSUME NEW v \in Nat PROVE Written("limitHi", v) \in Registers
  BY <1>0, PlainWrite
<1> QED
  BY <1>1, <1>2, <1>3, <1>4, <1>5, <1>6, <1>7, <1>8, <1>9, <1>10

(* The two halves the planned window is written in.                        *)
LEMMA PlanTyped ==
    ASSUME TypeOK
    PROVE  /\ WindowLo \in Lo
           /\ plan.bar1 \div LoSpan \in Nat
           /\ WindowLimit \div LoSpan \in Nat
<1>1. WindowLimit \in Nat /\ plan.bar1 \in Nat /\ LoSpan \in Nat \ {0}
  BY SizesArePositive DEF WindowLimit, Addr, TypeOK
<1>2. ASSUME NEW a \in Nat, NEW m \in Nat \ {0}
      PROVE  a % m \in 0 .. m - 1 /\ a \div m \in Nat
  OBVIOUS
<1>3. plan.bar1 % LoSpan \in 0 .. LoSpan - 1 /\ plan.bar1 \div LoSpan \in Nat
  BY <1>1, <1>2
<1>4. WindowLimit % LoSpan \in 0 .. LoSpan - 1 /\ WindowLimit \div LoSpan \in Nat
  BY <1>1, <1>2
<1> QED BY <1>3, <1>4 DEF WindowLo, Lo

LEMMA PcStep ==
    ASSUME TypeOK, [Next]_vars
    PROVE  pc' \in Checks \cup Forward \cup Undo \cup Done
<1> USE DEF TypeOK, Checks, Forward, Undo, Done, Write, Goto
<1>1. CASE Start \/ Unlock
  BY <1>1 DEF Start, Unlock
<1>2. CASE DecodeOff \/ Size \/ Choose \/ NoWindow
  BY <1>2 DEF DecodeOff, Size, Choose, NoWindow
<1>3. CASE Move \/ DecodeOn \/ Verify
  BY <1>3 DEF Move, DecodeOn, Verify
<1>4. CASE Revert
  BY <1>4 DEF Revert
<1>5. CASE UNCHANGED vars
  BY <1>5 DEF vars
<1> QED BY <1>1, <1>2, <1>3, <1>4, <1>5 DEF Next

LEMMA RegStep == ASSUME TypeOK, [Next]_vars PROVE reg' \in Registers
<1>0. /\ AddrLimit - 1 \in Addr /\ saved \in Registers /\ reg \in Registers
      /\ plan.bar1 \in Addr /\ plan.bar3 \in Addr
  BY SizesArePositive DEF TypeOK, Addr
<1>1. CASE Start \/ Choose \/ NoWindow \/ Verify \/ UNCHANGED vars
  BY <1>0, <1>1 DEF Start, Choose, NoWindow, Verify, Goto, vars
<1>2. CASE Unlock
  BY <1>0, <1>2, WriteTyped DEF Unlock, Write, Goto
<1>3. CASE DecodeOff
  BY <1>3, WriteTyped DEF DecodeOff, Write
<1>4. CASE Size
  BY <1>0, <1>4, WriteTyped DEF Size, Write, Goto
<1>5. CASE Move
  BY <1>0, <1>5, WriteTyped, PlanTyped DEF Move, Write, WindowLo
<1>6. CASE DecodeOn
  <2>1. saved.gpuMem \in BOOLEAN /\ saved.brMem \in BOOLEAN
    BY <1>0 DEF Registers
  <2> QED BY <1>6, <2>1, WriteTyped DEF DecodeOn, Write
<1>7. CASE Revert
  <2>1. /\ saved.gpuMem \in BOOLEAN /\ saved.brMem \in BOOLEAN
        /\ saved.bar1 \in Addr /\ saved.bar3 \in Addr
        /\ saved.ctl \in {Stock, Want} /\ saved.lo \in Lo
        /\ saved.cfg \in {"stock", "wide"} /\ saved.cya \in {"stock", "open"}
        /\ saved.baseHi \in Nat /\ saved.limitHi \in Nat
    BY <1>0 DEF Registers
  <2> QED BY <1>7, <2>1, WriteTyped DEF Revert, Write
<1> QED BY <1>1, <1>2, <1>3, <1>4, <1>5, <1>6, <1>7 DEF Next

LEMMA RestStep ==
    ASSUME TypeOK, [Next]_vars
    PROVE  /\ UNCHANGED <<saved, size3, memmap, others>>
           /\ plan' = plan \/ Choose
<1> USE DEF Write, Goto, platform
<1>1. CASE Start \/ Unlock \/ DecodeOff \/ Size \/ NoWindow
  BY <1>1 DEF Start, Unlock, DecodeOff, Size, NoWindow
<1>2. CASE Move \/ DecodeOn \/ Verify \/ Revert
  BY <1>2 DEF Move, DecodeOn, Verify, Revert
<1>3. CASE Choose
  BY <1>3 DEF Choose
<1>4. CASE UNCHANGED vars
  BY <1>4 DEF vars
<1> QED BY <1>1, <1>2, <1>3, <1>4 DEF Next

LEMMA TypeStep == TypeOK /\ [Next]_vars => TypeOK'
  BY PcStep, RegStep, RestStep, ChooseTyped DEF TypeOK

(* The registers, the snapshot and the plan keep their shape: no plan ever *)
(* leaves the address space, whatever the sizes and the memory map.        *)
THEOREM RebarTyping == Spec => []TypeOK
  BY InitTypeOK, TypeStep, PTL DEF Spec

-----------------------------------------------------------------------------
(* The window of the bridge.                                               *)
LEMMA SavedInit == Init => SavedInv /\ WindowInv
<1> SUFFICES ASSUME Init PROVE SavedInv /\ WindowInv
  OBVIOUS
<1>1. pc = "start" /\ saved = reg /\ Enumerated(reg)
  BY DEF Init
<1>2. reg.gpuMem /\ reg.brMem /\ reg.ctl = Stock /\ reg.cfg = "stock"
      /\ reg.cya = "stock"
  BY DEF Init
<1>3. WindowInv
  BY <1>1 DEF WindowInv, StockWindow, Entering, Sizing, Moving, Resuming,
              Restoring, Restored, Leaving
<1> QED BY <1>1, <1>2, <1>3 DEF SavedInv

LEMMA SavedStep == TypeOK /\ SavedInv /\ [Next]_vars => SavedInv'
<1> SUFFICES ASSUME TypeOK, SavedInv, [Next]_vars PROVE SavedInv'
  OBVIOUS
<1>1. UNCHANGED <<saved, size3, memmap, others>>
  BY RestStep
<1> QED BY <1>1 DEF SavedInv, Enumerated, Free, Bar1, Bar3, Window, Base, Limit

(* The registers that decide what the bridge decodes.                      *)
SameWindow(r) ==
    /\ r.brMem = reg.brMem /\ r.lo = reg.lo
    /\ r.baseHi = reg.baseHi /\ r.limitHi = reg.limitHi

LEMMA WriteKeepsWindow ==
    ASSUME reg \in Registers, NEW v
    PROVE  /\ SameWindow(Written("gpuMem", v))
           /\ SameWindow(Written("bar1", v)) /\ SameWindow(Written("bar3", v))
           /\ SameWindow(Written("ctl", v)) /\ SameWindow(Written("cfg", v))
           /\ SameWindow(Written("cya", v))
<1> USE DEF SameWindow, Registers
<1>1. SameWindow(Written("gpuMem", v))
  <2>1. Written("gpuMem", v) = [reg EXCEPT !.gpuMem = v]
    BY PlainWrite
  <2> QED BY <2>1
<1>2. SameWindow(Written("bar1", v))
  <2>1. Written("bar1", v) = [reg EXCEPT !.bar1 = Down(v, reg.ctl)]
    BY OtherWrite
  <2> QED BY <2>1
<1>3. SameWindow(Written("bar3", v))
  <2>1. Written("bar3", v) = [reg EXCEPT !.bar3 = Down(v, size3)]
    BY OtherWrite
  <2> QED BY <2>1
<1>4. SameWindow(Written("ctl", v))
  <2>1. \/ Written("ctl", v) = [reg EXCEPT !.ctl = v, !.bar1 = Down(reg.bar1, v)]
        \/ Written("ctl", v) = reg
    BY OtherWrite
  <2> QED BY <2>1
<1>5. SameWindow(Written("cfg", v))
  <2>1. Written("cfg", v) = [reg EXCEPT !.cfg = v] \/ Written("cfg", v) = reg
    BY OtherWrite
  <2> QED BY <2>1
<1>6. SameWindow(Written("cya", v))
  <2>1. Written("cya", v) = [reg EXCEPT !.cya = v] \/ Written("cya", v) = reg
    BY OtherWrite
  <2> QED BY <2>1
<1> QED BY <1>1, <1>2, <1>3, <1>4, <1>5, <1>6

LEMMA WindowStep == TypeOK /\ WindowInv /\ [Next]_vars => WindowInv'
<1> SUFFICES ASSUME TypeOK, WindowInv, [Next]_vars PROVE WindowInv'
  OBVIOUS
<1> USE DEF Entering, Sizing, Moving, Resuming, Restoring, Restored, Leaving
<1>0. reg \in Registers
  BY DEF TypeOK
<1>1. UNCHANGED <<saved, size3, memmap, others>>
  BY RestStep
<1>2. plan' = plan =>
         /\ Planned' = Planned /\ WindowLo' = WindowLo
         /\ WindowLimit' = WindowLimit
  BY <1>1 DEF Planned, Free, Stretch, Required, WindowLo, WindowLimit
<1>3. ASSUME SameWindow(reg'), plan' = plan
      PROVE  /\ reg'.brMem = reg.brMem /\ reg'.lo = reg.lo
             /\ reg'.baseHi = reg.baseHi /\ reg'.limitHi = reg.limitHi
             /\ StockWindow' = StockWindow /\ PlannedWindow' = PlannedWindow
  BY <1>1, <1>2, <1>3 DEF SameWindow, StockWindow, PlannedWindow
<1>4. SameWindow(reg)
  BY DEF SameWindow
<1>5. CASE Start \/ UNCHANGED vars
  <2>1. reg' = reg /\ plan' = plan
    BY <1>5 DEF Start, Goto, vars
  <2> QED BY <1>2, <1>3, <1>4, <1>5, <2>1 DEF Start, Goto, vars, WindowInv
<1>6. CASE Unlock
  <2>1. SameWindow(reg') /\ plan' = plan
    BY <1>0, <1>4, <1>6, WriteKeepsWindow DEF Unlock, Write, Goto
  <2> QED BY <1>2, <1>3, <1>6, <2>1 DEF Unlock, Write, Goto, WindowInv
<1>7. CASE DecodeOff
  <2>1. CASE Write("gpuOff", "gpuMem", FALSE, "brOff")
    <3>1. SameWindow(reg') /\ plan' = plan
      BY <1>0, <2>1, WriteKeepsWindow DEF Write
    <3> QED BY <1>2, <1>3, <2>1, <3>1 DEF Write, WindowInv
  <2>2. CASE Write("brOff", "brMem", FALSE, "probe1")
    <3>1. reg'.brMem = FALSE
      <4>1. Written("brMem", FALSE) = [reg EXCEPT !.brMem = FALSE]
        BY PlainWrite
      <4> QED BY <1>0, <2>2, <4>1 DEF Write, Registers
    <3> QED BY <2>2, <3>1 DEF Write, WindowInv
  <2> QED BY <1>7, <2>1, <2>2 DEF DecodeOff
<1>8. CASE Size \/ NoWindow
  <2>1. SameWindow(reg') /\ plan' = plan
    BY <1>0, <1>4, <1>8, WriteKeepsWindow DEF Size, NoWindow, Write, Goto
  <2> QED BY <1>2, <1>3, <1>8, <2>1 DEF Size, NoWindow, Write, Goto, WindowInv
<1>9. CASE Choose
  <2>1. Planned' /\ reg' = reg /\ pc = "choose" /\ pc' = "bar1"
    BY <1>9, ChooseTyped DEF Choose
  <2> QED BY <2>1 DEF WindowInv
<1>10. CASE Move
  <2>0. plan' = plan
    BY <1>10 DEF Move, Write
  <2>1. CASE \/ Write("bar1", "bar1", plan.bar1, "bar3")
             \/ Write("bar3", "bar3", plan.bar3, "lo")
    <3>1. SameWindow(reg')
      BY <1>0, <2>1, WriteKeepsWindow DEF Write
    <3> QED BY <1>2, <1>3, <2>0, <2>1, <3>1 DEF Write, WindowInv
  <2>2. CASE Write("lo", "lo", WindowLo, "baseHi")
    <3>1. reg'.lo = WindowLo /\ reg'.brMem = reg.brMem
      BY <1>0, <2>2, PlainWrite DEF Write, Registers
    <3> QED BY <1>2, <2>0, <2>2, <3>1 DEF Write, WindowInv
  <2>3. CASE Write("baseHi", "baseHi", plan.bar1 \div LoSpan, "limitHi")
    <3>1. /\ reg'.baseHi = plan.bar1 \div LoSpan
          /\ reg'.lo = reg.lo /\ reg'.brMem = reg.brMem
      BY <1>0, <2>3, PlainWrite DEF Write, Registers
    <3> QED BY <1>2, <2>0, <2>3, <3>1 DEF Write, WindowInv
  <2>4. CASE Write("limitHi", "limitHi", WindowLimit \div LoSpan, "brOn")
    <3>1. /\ reg'.limitHi = WindowLimit \div LoSpan /\ reg'.baseHi = reg.baseHi
          /\ reg'.lo = reg.lo /\ reg'.brMem = reg.brMem
      BY <1>0, <2>4, PlainWrite DEF Write, Registers
    <3>2. PlannedWindow'
      BY <1>2, <2>0, <2>4, <3>1 DEF Write, WindowInv, PlannedWindow
    <3> QED BY <1>2, <2>0, <2>4, <3>1, <3>2 DEF Write, WindowInv
  <2> QED BY <1>10, <2>1, <2>2, <2>3, <2>4 DEF Move, WindowLo
<1>11. CASE DecodeOn
  <2>1. CASE Write("brOn", "brMem", saved.brMem, "gpuOn")
    <3>1. /\ reg'.limitHi = reg.limitHi /\ reg'.baseHi = reg.baseHi
          /\ reg'.lo = reg.lo /\ plan' = plan
      BY <1>0, <2>1, PlainWrite DEF Write, Registers
    <3>2. PlannedWindow'
      BY <1>2, <2>1, <3>1 DEF Write, WindowInv, PlannedWindow
    <3> QED BY <1>2, <2>1, <3>1, <3>2 DEF Write, WindowInv
  <2>2. CASE Write("gpuOn", "gpuMem", saved.gpuMem, "verify")
    <3>1. SameWindow(reg') /\ plan' = plan
      BY <1>0, <2>2, WriteKeepsWindow DEF Write
    <3> QED BY <1>2, <1>3, <2>2, <3>1 DEF Write, WindowInv
  <2> QED BY <1>11, <2>1, <2>2 DEF DecodeOn
<1>12. CASE Verify
  <2>1. reg' = reg /\ plan' = plan
    BY <1>12 DEF Verify, Goto
  <2> QED BY <1>2, <1>3, <1>4, <1>12, <2>1 DEF Verify, Goto, WindowInv
<1>13. CASE Revert
  <2>0. plan' = plan
    BY <1>13 DEF Revert, Write
  <2>1. CASE Write("u.brOff", "brMem", FALSE, "u.lo")
    <3>1. reg'.brMem = FALSE
      <4>1. Written("brMem", FALSE) = [reg EXCEPT !.brMem = FALSE]
        BY PlainWrite
      <4> QED BY <1>0, <2>1, <4>1 DEF Write, Registers
    <3> QED BY <2>1, <3>1 DEF Write, WindowInv
  <2>2. CASE Write("u.lo", "lo", saved.lo, "u.baseHi")
    <3>1. reg'.lo = saved.lo /\ reg'.brMem = reg.brMem
      BY <1>0, <2>2, PlainWrite DEF Write, Registers
    <3> QED BY <1>1, <2>2, <3>1 DEF Write, WindowInv
  <2>3. CASE Write("u.baseHi", "baseHi", saved.baseHi, "u.limitHi")
    <3>1. /\ reg'.baseHi = saved.baseHi
          /\ reg'.lo = reg.lo /\ reg'.brMem = reg.brMem
      BY <1>0, <2>3, PlainWrite DEF Write, Registers
    <3> QED BY <1>1, <2>3, <3>1 DEF Write, WindowInv
  <2>4. CASE Write("u.limitHi", "limitHi", saved.limitHi, "u.bar1")
    <3>1. /\ reg'.limitHi = saved.limitHi /\ reg'.baseHi = reg.baseHi
          /\ reg'.lo = reg.lo /\ reg'.brMem = reg.brMem
      BY <1>0, <2>4, PlainWrite DEF Write, Registers
    <3>2. StockWindow'
      BY <1>1, <2>4, <3>1 DEF Write, WindowInv, StockWindow
    <3> QED BY <2>4, <3>1, <3>2 DEF Write, WindowInv
  <2>5. CASE Write("u.br", "brMem", saved.brMem, "u.ctl")
    <3>1. /\ reg'.limitHi = reg.limitHi /\ reg'.baseHi = reg.baseHi
          /\ reg'.lo = reg.lo
      BY <1>0, <2>5, PlainWrite DEF Write, Registers
    <3>2. StockWindow'
      BY <1>1, <2>5, <3>1 DEF Write, WindowInv, StockWindow
    <3> QED BY <2>5, <3>2 DEF Write, WindowInv
  <2>6. CASE \/ Write("u.bar1", "bar1", saved.bar1, "u.bar3")
             \/ Write("u.bar3", "bar3", saved.bar3, "u.gpu")
             \/ Write("u.gpu", "gpuMem", saved.gpuMem, "u.br")
             \/ Write("u.ctl", "ctl", saved.ctl, "u.cfg")
             \/ Write("u.cfg", "cfg", saved.cfg, "u.cya")
             \/ Write("u.cya", "cya", saved.cya, "reverted")
    <3>1. SameWindow(reg')
      BY <1>0, <2>6, WriteKeepsWindow DEF Write
    <3> QED BY <1>3, <2>0, <2>6, <3>1 DEF Write, WindowInv
  <2> QED BY <1>13, <2>1, <2>2, <2>3, <2>4, <2>5, <2>6 DEF Revert
<1> QED
  BY <1>5, <1>6, <1>7, <1>8, <1>9, <1>10, <1>11, <1>12, <1>13 DEF Next

(* The window the bridge is given starts at the planned BAR1 and ends with *)
(* the planned BAR3.                                                       *)
LEMMA WindowIsPlanned ==
    ASSUME TypeOK, PlannedWindow
    PROVE  Window(reg) = plan.bar1 .. plan.bar3 + size3 - 1
<1>1. /\ plan.bar1 \in Nat /\ WindowLimit \in Nat /\ LoSpan \in Nat \ {0}
  BY SizesArePositive DEF WindowLimit, Addr, TypeOK
<1>2. /\ plan.bar1 = (plan.bar1 \div LoSpan) * LoSpan + (plan.bar1 % LoSpan)
      /\ WindowLimit = (WindowLimit \div LoSpan) * LoSpan + (WindowLimit % LoSpan)
  <2>1. ASSUME NEW a \in Nat, NEW m \in Nat \ {0}
        PROVE  a = (a \div m) * m + (a % m)
    BY DivMod
  <2>2. plan.bar1 = (plan.bar1 \div LoSpan) * LoSpan + (plan.bar1 % LoSpan)
    BY <1>1, <2>1
  <2>3. WindowLimit = (WindowLimit \div LoSpan) * LoSpan + (WindowLimit % LoSpan)
    BY <1>1, <2>1
  <2> QED BY <2>2, <2>3
<1>3. reg.lo.base = plan.bar1 % LoSpan /\ reg.lo.limit = WindowLimit % LoSpan
  BY DEF PlannedWindow, WindowLo
<1>4. Base(reg) = plan.bar1 /\ Limit(reg) = WindowLimit
  BY <1>2, <1>3 DEF Base, Limit, PlannedWindow
<1> QED BY <1>4 DEF Window, WindowLimit

LEMMA WindowGood ==
    TypeOK /\ SavedInv /\ WindowInv => WindowIsFree
<1> SUFFICES ASSUME TypeOK, SavedInv, WindowInv, reg.brMem
             PROVE  Free(Window(reg))
  BY DEF WindowIsFree
<1>1. \/ StockWindow
      \/ Planned /\ PlannedWindow
  BY DEF WindowInv, TypeOK, Checks, Forward, Undo, Done, Entering, Sizing,
         Moving, Resuming, Restoring, Restored, Leaving
<1>2. CASE StockWindow
  BY <1>2 DEF SavedInv, Enumerated, StockWindow, Window, Base, Limit
<1>3. CASE Planned /\ PlannedWindow
  <2>1. Window(reg) = plan.bar1 .. plan.bar3 + size3 - 1
    BY <1>3, WindowIsPlanned
  <2>2. /\ plan.bar1 \in Nat /\ plan.bar3 \in Nat /\ size3 \in Nat
        /\ Want \in Nat \ {0}
    BY SizesArePositive DEF TypeOK, Addr
  <2>3. Required \in Int
    BY SMTT(30), <2>2, SizesArePositive, UpIs DEF Required, TypeOK
  <2>4. Window(reg) \subseteq Stretch(plan.bar1)
    BY SMTT(30), <1>3, <2>1, <2>2, <2>3 DEF Planned, Stretch
  <2> QED BY <1>3, <2>4 DEF Planned, Free
<1> QED BY <1>1, <1>2, <1>3

(* The bridge never decodes an address of the memory map or of another     *)
(* bridge's window, whatever the sizes and the map: WindowInv is inductive *)
(* and says that the three window registers only differ from the stock and *)
(* from the planned window while the bridge decodes nothing.               *)
THEOREM RebarWindow == Spec => []WindowIsFree
<1>1. Init => TypeOK /\ SavedInv /\ WindowInv
  BY InitTypeOK, SavedInit
<1>2. TypeOK /\ SavedInv /\ WindowInv /\ [Next]_vars
        => (TypeOK /\ SavedInv /\ WindowInv)'
  BY TypeStep, SavedStep, WindowStep
<1> QED BY <1>1, <1>2, WindowGood, PTL DEF Spec

-----------------------------------------------------------------------------
(* A complete resize.                                                      *)
(* What a write to a register of the bridge leaves as it was.              *)
SameBars(r) ==
    /\ r.ctl = reg.ctl /\ r.bar1 = reg.bar1 /\ r.bar3 = reg.bar3
    /\ r.gpuMem = reg.gpuMem /\ r.cfg = reg.cfg /\ r.cya = reg.cya

LEMMA WriteKeepsBars ==
    ASSUME reg \in Registers, NEW v
    PROVE  /\ SameBars(Written("brMem", v)) /\ SameBars(Written("lo", v))
           /\ SameBars(Written("baseHi", v)) /\ SameBars(Written("limitHi", v))
<1> USE DEF SameBars, Registers
<1>1. SameBars(Written("brMem", v))
  <2>1. Written("brMem", v) = [reg EXCEPT !.brMem = v]
    BY PlainWrite
  <2> QED BY <2>1
<1>2. SameBars(Written("lo", v))
  <2>1. Written("lo", v) = [reg EXCEPT !.lo = v]
    BY PlainWrite
  <2> QED BY <2>1
<1>3. SameBars(Written("baseHi", v))
  <2>1. Written("baseHi", v) = [reg EXCEPT !.baseHi = v]
    BY PlainWrite
  <2> QED BY <2>1
<1>4. SameBars(Written("limitHi", v))
  <2>1. Written("limitHi", v) = [reg EXCEPT !.limitHi = v]
    BY PlainWrite
  <2> QED BY <2>1
<1> QED BY <1>1, <1>2, <1>3, <1>4

LEMMA ResizeInit == Init => ResizeInv
  BY DEF Init, ResizeInv, Moving, Resuming

LEMMA ResizeStep ==
    TypeOK /\ SavedInv /\ WindowInv /\ ResizeInv /\ [Next]_vars => ResizeInv'
<1> SUFFICES ASSUME TypeOK, SavedInv, WindowInv, ResizeInv, [Next]_vars
             PROVE  ResizeInv'
  OBVIOUS
<1> USE DEF Moving, Resuming
<1>0. /\ reg \in Registers /\ saved.gpuMem = TRUE /\ saved.brMem = TRUE
      /\ saved \in Registers
      /\ plan.bar1 \in Nat /\ plan.bar3 \in Nat
      /\ Want \in Nat \ {0} /\ size3 \in Nat \ {0}
  BY SizesArePositive DEF TypeOK, SavedInv, Addr, Registers
<1>1. CASE Start \/ UNCHANGED vars
  BY <1>1 DEF Start, Goto, vars, ResizeInv
<1>2. CASE Unlock
  BY <1>2 DEF Unlock, Write, Goto, ResizeInv
<1>3. CASE DecodeOff
  BY <1>3 DEF DecodeOff, Write, ResizeInv
<1>4. CASE Size \/ NoWindow
  <2>1. CASE Write("probe1", "bar1", AddrLimit - 1, "check1")
    BY <2>1 DEF Write, ResizeInv
  <2>2. CASE Write("probe3", "bar3", AddrLimit - 1, "check3")
    <3>1. Written("bar3", AddrLimit - 1)
            = [reg EXCEPT !.bar3 = Down(AddrLimit - 1, size3)]
      BY OtherWrite
    <3>2. reg'.ctl = reg.ctl
      BY <1>0, <2>2, <3>1 DEF Write, Registers
    <3> QED BY <2>2, <3>2 DEF Write, ResizeInv
  <2>3. CASE \/ Goto("check1", IF reg.ctl = Want THEN "probe3" ELSE "u.brOff")
             \/ Goto("check3", "choose")
             \/ Goto("check3", "u.brOff")
             \/ NoWindow
    BY <2>3 DEF Goto, NoWindow, ResizeInv
  <2> QED BY <1>4, <2>1, <2>2, <2>3 DEF Size
<1>5. CASE Choose
  BY <1>5 DEF Choose, ResizeInv
<1>6. CASE Move
  <2>0. plan' = plan
    BY <1>6 DEF Move, Write
  <2>1. CASE Write("bar1", "bar1", plan.bar1, "bar3")
    <3>1. Written("bar1", plan.bar1)
            = [reg EXCEPT !.bar1 = Down(plan.bar1, reg.ctl)]
      BY OtherWrite
    <3>2. Planned /\ reg.ctl = Want
      BY <2>1 DEF Write, WindowInv, ResizeInv
    <3>3. Down(plan.bar1, Want) = plan.bar1
      <4>1. plan.bar1 % Want = 0 /\ plan.bar1 \in Int
        BY <1>0, <3>2 DEF Planned
      <4> QED BY <1>0, <4>1, DownIs
    <3>4. reg'.bar1 = plan.bar1 /\ reg'.ctl = Want
      BY <1>0, <2>1, <3>1, <3>2, <3>3 DEF Write, Registers
    <3> QED BY <2>0, <2>1, <3>4 DEF Write, ResizeInv
  <2>2. CASE Write("bar3", "bar3", plan.bar3, "lo")
    <3>1. Written("bar3", plan.bar3)
            = [reg EXCEPT !.bar3 = Down(plan.bar3, size3)]
      BY OtherWrite
    <3>2. Planned /\ reg.ctl = Want /\ reg.bar1 = plan.bar1
      BY <2>2 DEF Write, WindowInv, ResizeInv
    <3>3. Down(plan.bar3, size3) = plan.bar3
      <4>1. plan.bar3 % size3 = 0 /\ plan.bar3 \in Int
        BY <1>0, <3>2 DEF Planned
      <4> QED BY <1>0, <4>1, DownIs
    <3>4. reg'.bar3 = plan.bar3 /\ reg'.bar1 = plan.bar1 /\ reg'.ctl = Want
      BY <1>0, <2>2, <3>1, <3>2, <3>3 DEF Write, Registers
    <3> QED BY <2>0, <2>2, <3>4 DEF Write, ResizeInv
  <2>3. CASE \/ Write("lo", "lo", WindowLo, "baseHi")
             \/ Write("baseHi", "baseHi", plan.bar1 \div LoSpan, "limitHi")
             \/ Write("limitHi", "limitHi", WindowLimit \div LoSpan, "brOn")
    <3>1. SameBars(reg')
      BY <1>0, <2>3, WriteKeepsBars DEF Write
    <3> QED BY <2>0, <2>3, <3>1 DEF Write, ResizeInv, SameBars
  <2> QED BY <1>6, <2>1, <2>2, <2>3 DEF Move, WindowLo
<1>7. CASE DecodeOn
  <2>1. CASE Write("brOn", "brMem", saved.brMem, "gpuOn")
    <3>1. SameBars(reg')
      BY <1>0, <2>1, WriteKeepsBars DEF Write
    <3>2. Written("brMem", saved.brMem) = [reg EXCEPT !.brMem = saved.brMem]
      BY PlainWrite
    <3>3. reg'.brMem = TRUE
      BY <1>0, <2>1, <3>2 DEF Write, Registers
    <3> QED BY <2>1, <3>1, <3>3 DEF Write, ResizeInv, SameBars
  <2>2. CASE Write("gpuOn", "gpuMem", saved.gpuMem, "verify")
    <3>1. Written("gpuMem", saved.gpuMem) = [reg EXCEPT !.gpuMem = saved.gpuMem]
      BY PlainWrite
    <3>2. /\ reg'.gpuMem = TRUE /\ reg'.ctl = reg.ctl /\ reg'.brMem = reg.brMem
          /\ reg'.bar1 = reg.bar1 /\ reg'.bar3 = reg.bar3
      BY <1>0, <2>2, <3>1 DEF Write, Registers
    <3> QED BY <2>2, <3>2 DEF Write, ResizeInv
  <2> QED BY <1>7, <2>1, <2>2 DEF DecodeOn
<1>8. CASE Verify
  BY <1>8 DEF Verify, Goto, ResizeInv
<1>9. CASE Revert
  BY <1>9 DEF Revert, Write, ResizeInv
<1> QED
  BY <1>1, <1>2, <1>3, <1>4, <1>5, <1>6, <1>7, <1>8, <1>9 DEF Next

LEMMA ResizeGood == TypeOK /\ WindowInv /\ ResizeInv => ActiveIsComplete
<1> SUFFICES ASSUME TypeOK, WindowInv, ResizeInv, pc = "active"
             PROVE  ActiveIsComplete
  BY DEF ActiveIsComplete
<1>1. Planned /\ PlannedWindow
  BY DEF WindowInv, Resuming
<1>2. /\ reg.ctl = Want /\ reg.bar1 = plan.bar1 /\ reg.bar3 = plan.bar3
      /\ reg.gpuMem /\ reg.brMem
  BY DEF ResizeInv, Resuming
<1>3. Window(reg) = plan.bar1 .. plan.bar3 + size3 - 1
  BY <1>1, WindowIsPlanned
<1>4. /\ Bar1(reg) = plan.bar1 .. plan.bar1 + Want - 1
      /\ Bar3(reg) = plan.bar3 .. plan.bar3 + size3 - 1
  BY <1>2 DEF Bar1, Bar3
<1>5. /\ plan.bar1 \in Nat /\ plan.bar3 \in Nat
      /\ Want \in Nat \ {0} /\ size3 \in Nat \ {0}
      /\ plan.bar1 + Want <= plan.bar3
  BY <1>1, SizesArePositive DEF TypeOK, Addr, Planned
<1>6. Bar1(reg) \cup Bar3(reg) \subseteq Window(reg)
  BY <1>3, <1>4, <1>5
<1>7. Bar1(reg) \cap Bar3(reg) = {}
  BY <1>4, <1>5
<1> QED BY <1>2, <1>6, <1>7 DEF ActiveIsComplete

(* A resize that is reported active has the full size, decodes both BARs   *)
(* inside the window and apart from each other, whatever BAR3's size.      *)
THEOREM RebarComplete == Spec => []ActiveIsComplete
<1> DEFINE IInv == TypeOK /\ SavedInv /\ WindowInv /\ ResizeInv
<1>1. Init => IInv
  BY InitTypeOK, SavedInit, ResizeInit
<1>2. IInv /\ [Next]_vars => IInv'
  BY TypeStep, SavedStep, WindowStep, ResizeStep
<1>3. IInv => ActiveIsComplete
  BY ResizeGood
<1> QED BY <1>1, <1>2, <1>3, PTL DEF Spec

-----------------------------------------------------------------------------
(* The roll-back.                                                          *)
LEMMA MultipleOfMultiple ==
    ASSUME NEW a \in Int, NEW m \in Nat \ {0}, NEW n \in Nat \ {0},
           a % m = 0, m % n = 0
    PROVE  a % n = 0
<1>1. PICK i \in Int : a = i * m
  BY MultipleIff
<1>2. PICK j \in Int : m = j * n
  BY MultipleIff
<1> DEFINE k == i * j
<1>3. k \in Int /\ a = k * n
  BY <1>1, <1>2
<1> HIDE DEF k
<1> QED BY <1>3, MultipleIff

(* A stock BAR1 base that is masked with either size, and then with the    *)
(* stock size, is itself or has lost the bits below the size asked for.    *)
LEMMA StockBase ==
    ASSUME TypeOK, SavedInv
    PROVE  /\ Down(saved.bar1, Stock) = saved.bar1
           /\ Down(Down(saved.bar1, Want), Stock) = Down(saved.bar1, Want)
           /\ Down(saved.bar3, size3) = saved.bar3
<1>1. /\ saved.bar1 \in Int /\ saved.bar3 \in Int /\ saved.bar1 % Stock = 0
      /\ saved.bar3 % size3 = 0 /\ size3 \in Nat \ {0}
      /\ Stock \in Nat \ {0} /\ Want \in Nat \ {0} /\ Want % Stock = 0
  BY SizesArePositive, SizesAreAligned
     DEF TypeOK, SavedInv, Enumerated, Registers, Addr
<1>2. Down(saved.bar1, Want) \in Int /\ Down(saved.bar1, Want) % Want = 0
  BY <1>1, DownIs
<1>3. Down(saved.bar1, Want) % Stock = 0
  BY <1>1, <1>2, MultipleOfMultiple
<1>4. ASSUME NEW x \in Int, NEW y \in Nat \ {0}, x % y = 0
      PROVE  Down(x, y) = x
  BY <1>4, DownIs
<1>5. Down(saved.bar1, Stock) = saved.bar1
  BY <1>1, <1>4
<1>6. Down(Down(saved.bar1, Want), Stock) = Down(saved.bar1, Want)
  BY <1>1, <1>2, <1>3, <1>4
<1>7. Down(saved.bar3, size3) = saved.bar3
  BY <1>1, <1>4
<1> QED BY <1>5, <1>6, <1>7

LEMMA UndoInit == Init => UndoInv
<1> SUFFICES ASSUME Init PROVE UndoInv
  OBVIOUS
<1>1. pc = "start" /\ saved = reg
  BY DEF Init
<1>2. reg.gpuMem /\ reg.brMem /\ reg.ctl = Stock
  BY DEF Init
<1> QED BY <1>1, <1>2 DEF UndoInv, Entering, Leaving

LEMMA UndoStep ==
    TypeOK /\ SavedInv /\ UndoInv /\ [Next]_vars => UndoInv'
<1> SUFFICES ASSUME TypeOK, SavedInv, UndoInv, [Next]_vars PROVE UndoInv'
  OBVIOUS
<1> USE DEF Entering, Leaving
<1>0. /\ reg \in Registers /\ saved.gpuMem = TRUE /\ saved.brMem = TRUE
      /\ saved.ctl = Stock /\ saved.cfg = "stock" /\ saved.cya = "stock"
      /\ reg.ctl \in {Stock, Want}
  BY DEF TypeOK, SavedInv, Registers
<1>1. saved' = saved
  BY RestStep
<1>2. CASE Start \/ UNCHANGED vars
  BY <1>2 DEF Start, Goto, vars, UndoInv
<1>3. CASE Unlock
  <2>1. CASE \/ Write("cya", "cya", "open", "cfg")
             \/ Write("cfg", "cfg", "wide", "readback")
    <3>1. /\ \/ Written("cya", "open") = [reg EXCEPT !.cya = "open"]
             \/ Written("cya", "open") = reg
          /\ \/ Written("cfg", "wide") = [reg EXCEPT !.cfg = "wide"]
             \/ Written("cfg", "wide") = reg
      BY OtherWrite
    <3>2. /\ reg'.ctl = reg.ctl /\ reg'.bar1 = reg.bar1 /\ reg'.bar3 = reg.bar3
          /\ reg'.gpuMem = reg.gpuMem /\ reg'.brMem = reg.brMem
      BY <1>0, <2>1, <3>1 DEF Write, Registers
    <3> QED BY <1>1, <2>1, <3>2 DEF Write, UndoInv
  <2>2. CASE Write("ctl", "ctl", Want, "gpuOff")
    <3>1. \/ Written("ctl", Want)
               = [reg EXCEPT !.ctl = Want, !.bar1 = Down(reg.bar1, Want)]
          \/ Written("ctl", Want) = reg
      BY OtherWrite
    <3>2. /\ reg'.bar3 = reg.bar3
          /\ reg'.gpuMem = reg.gpuMem /\ reg'.brMem = reg.brMem
      BY ZenonT(40), <1>0, <2>2, <3>1 DEF Write, Registers
    <3> QED BY <1>1, <2>2, <3>2 DEF Write, UndoInv
  <2>3. CASE \/ Goto("cfg", "readback")
             \/ Goto("readback", IF reg.cfg = "wide" THEN "ctl" ELSE "u.cfg")
             \/ Goto("ctl", "gpuOff")
    BY <1>1, <2>3 DEF Goto, UndoInv
  <2> QED BY <1>3, <2>1, <2>2, <2>3 DEF Unlock
<1>4. CASE DecodeOff
  <2>1. CASE Write("gpuOff", "gpuMem", FALSE, "brOff")
    <3>1. Written("gpuMem", FALSE) = [reg EXCEPT !.gpuMem = FALSE]
      BY PlainWrite
    <3>2. reg'.brMem = reg.brMem /\ reg'.bar3 = reg.bar3
      BY <1>0, <2>1, <3>1 DEF Write, Registers
    <3> QED BY <1>1, <2>1, <3>2 DEF Write, UndoInv
  <2>2. CASE Write("brOff", "brMem", FALSE, "probe1")
    BY <2>2 DEF Write, UndoInv
  <2> QED BY <1>4, <2>1, <2>2 DEF DecodeOff
<1>5. CASE Size \/ Choose \/ NoWindow
  BY <1>5 DEF Size, Choose, NoWindow, Write, Goto, UndoInv
<1>6. CASE Move \/ DecodeOn \/ Verify
  BY <1>6 DEF Move, DecodeOn, Verify, Write, Goto, UndoInv
<1>7. CASE Revert
  <2>1. CASE \/ Write("u.brOff", "brMem", FALSE, "u.lo")
             \/ Write("u.lo", "lo", saved.lo, "u.baseHi")
             \/ Write("u.baseHi", "baseHi", saved.baseHi, "u.limitHi")
             \/ Write("u.limitHi", "limitHi", saved.limitHi, "u.bar1")
    BY <2>1 DEF Write, UndoInv
  <2>2. CASE Write("u.bar1", "bar1", saved.bar1, "u.bar3")
    <3>1. Written("bar1", saved.bar1)
            = [reg EXCEPT !.bar1 = Down(saved.bar1, reg.ctl)]
      BY OtherWrite
    <3>2. reg'.bar1 \in {saved.bar1, Down(saved.bar1, Want)}
      BY <1>0, <2>2, <3>1, StockBase DEF Write, Registers
    <3> QED BY <1>1, <2>2, <3>2 DEF Write, UndoInv
  <2>3. CASE Write("u.bar3", "bar3", saved.bar3, "u.gpu")
    <3>1. Written("bar3", saved.bar3)
            = [reg EXCEPT !.bar3 = Down(saved.bar3, size3)]
      BY OtherWrite
    <3>2. reg'.bar1 = reg.bar1 /\ reg'.bar3 = saved.bar3
      BY <1>0, <2>3, <3>1, StockBase DEF Write, Registers
    <3> QED BY <1>1, <2>3, <3>2 DEF Write, UndoInv
  <2>4. CASE Write("u.gpu", "gpuMem", saved.gpuMem, "u.br")
    <3>1. Written("gpuMem", saved.gpuMem) = [reg EXCEPT !.gpuMem = saved.gpuMem]
      BY PlainWrite
    <3>2. /\ reg'.bar1 = reg.bar1 /\ reg'.bar3 = reg.bar3 /\ reg'.gpuMem = TRUE
      BY <1>0, <2>4, <3>1 DEF Write, Registers
    <3> QED BY <1>1, <2>4, <3>2 DEF Write, UndoInv
  <2>5. CASE Write("u.br", "brMem", saved.brMem, "u.ctl")
    <3>1. Written("brMem", saved.brMem) = [reg EXCEPT !.brMem = saved.brMem]
      BY PlainWrite
    <3>2. /\ reg'.bar1 = reg.bar1 /\ reg'.bar3 = reg.bar3
          /\ reg'.gpuMem = reg.gpuMem /\ reg'.brMem = TRUE
      BY <1>0, <2>5, <3>1 DEF Write, Registers
    <3> QED BY <1>1, <2>5, <3>2 DEF Write, UndoInv
  <2>6. CASE Write("u.ctl", "ctl", saved.ctl, "u.cfg")
    <3>1. reg.gpuMem /\ reg.brMem
      BY <2>6 DEF Write, UndoInv
    <3>2. Written("ctl", Stock)
            = [reg EXCEPT !.ctl = Stock, !.bar1 = Down(reg.bar1, Stock)]
      BY <3>1, OtherWrite
    <3>3. reg.bar1 \in {saved.bar1, Down(saved.bar1, Want)}
      BY <2>6 DEF Write, UndoInv
    <3>4. Down(reg.bar1, Stock) = reg.bar1
      BY <3>3, StockBase
    <3>5. /\ reg'.bar1 = reg.bar1 /\ reg'.bar3 = reg.bar3 /\ reg'.ctl = Stock
          /\ reg'.gpuMem = reg.gpuMem /\ reg'.brMem = reg.brMem
      BY <1>0, <2>6, <3>2, <3>4 DEF Write, Registers
    <3> QED BY <1>1, <2>6, <3>5 DEF Write, UndoInv
  <2>7. CASE Write("u.cfg", "cfg", saved.cfg, "u.cya")
    <3>1. reg.gpuMem /\ reg.brMem
      BY <2>7 DEF Write, UndoInv
    <3>2. Written("cfg", "stock") = [reg EXCEPT !.cfg = "stock"]
      BY <3>1, OtherWrite
    <3>3. /\ reg'.bar1 = reg.bar1 /\ reg'.bar3 = reg.bar3 /\ reg'.ctl = reg.ctl
          /\ reg'.gpuMem = reg.gpuMem /\ reg'.brMem = reg.brMem
          /\ reg'.cfg = "stock"
      BY <1>0, <2>7, <3>2 DEF Write, Registers
    <3> QED BY <1>1, <2>7, <3>3 DEF Write, UndoInv
  <2>8. CASE Write("u.cya", "cya", saved.cya, "reverted")
    <3>1. reg.gpuMem /\ reg.brMem
      BY <2>8 DEF Write, UndoInv
    <3>2. Written("cya", "stock") = [reg EXCEPT !.cya = "stock"]
      BY <3>1, OtherWrite
    <3>3. /\ reg'.bar1 = reg.bar1 /\ reg'.bar3 = reg.bar3 /\ reg'.ctl = reg.ctl
          /\ reg'.gpuMem = reg.gpuMem /\ reg'.brMem = reg.brMem
          /\ reg'.cfg = reg.cfg /\ reg'.cya = "stock"
      BY <1>0, <2>8, <3>2 DEF Write, Registers
    <3> QED BY <1>1, <2>8, <3>3 DEF Write, UndoInv
  <2> QED BY <1>7, <2>1, <2>2, <2>3, <2>4, <2>5, <2>6, <2>7, <2>8 DEF Revert
<1> QED BY <1>2, <1>3, <1>4, <1>5, <1>6, <1>7 DEF Next

LEMMA UndoGood ==
    TypeOK /\ SavedInv /\ WindowInv /\ UndoInv => RevertedButForBar1
<1> SUFFICES ASSUME TypeOK, SavedInv, WindowInv, UndoInv, pc = "reverted"
             PROVE  RevertedButForBar1
  BY DEF RevertedButForBar1
<1>1. reg.lo = saved.lo /\ reg.baseHi = saved.baseHi /\ reg.limitHi = saved.limitHi
  BY DEF WindowInv, StockWindow, Leaving
<1>2. /\ reg.bar1 \in {saved.bar1, Down(saved.bar1, Want)}
      /\ reg.bar3 = saved.bar3 /\ reg.gpuMem /\ reg.brMem
      /\ reg.ctl = Stock /\ reg.cfg = "stock" /\ reg.cya = "stock"
  BY DEF UndoInv, Leaving
<1>3. /\ reg \in Registers /\ saved \in Registers
      /\ saved.gpuMem /\ saved.brMem
      /\ saved.ctl = Stock /\ saved.cfg = "stock" /\ saved.cya = "stock"
  BY DEF TypeOK, SavedInv
<1>4. reg.gpuMem = saved.gpuMem /\ reg.brMem = saved.brMem
  BY <1>2, <1>3 DEF Registers
<1>5. [reg EXCEPT !.bar1 = 0] = [saved EXCEPT !.bar1 = 0]
  BY <1>1, <1>2, <1>3, <1>4 DEF Registers
<1> QED BY <1>2, <1>5 DEF RevertedButForBar1

(* A roll-back restores every register but, at worst, the low bits of the  *)
(* base of BAR1, from whichever check it starts.                           *)
THEOREM RebarRevert == Spec => []RevertedButForBar1
<1> DEFINE IInv == TypeOK /\ SavedInv /\ WindowInv /\ UndoInv
<1>1. Init => IInv
  BY InitTypeOK, SavedInit, UndoInit
<1>2. IInv /\ [Next]_vars => IInv'
  BY TypeStep, SavedStep, WindowStep, UndoStep
<1>3. IInv => RevertedButForBar1
  BY UndoGood
<1> QED BY <1>1, <1>2, <1>3, PTL DEF Spec

-----------------------------------------------------------------------------
(* How long the resize lasts: the writes and checks that can still come.   *)
ResizeLeft(at) ==
    IF at \in Done THEN 0
    ELSE IF at = "start" THEN 31 ELSE IF at = "cya" THEN 30
    ELSE IF at = "cfg" THEN 29 ELSE IF at = "readback" THEN 28
    ELSE IF at = "ctl" THEN 27 ELSE IF at = "gpuOff" THEN 26
    ELSE IF at = "brOff" THEN 25 ELSE IF at = "probe1" THEN 24
    ELSE IF at = "check1" THEN 23 ELSE IF at = "probe3" THEN 22
    ELSE IF at = "check3" THEN 21 ELSE IF at = "choose" THEN 20
    ELSE IF at = "bar1" THEN 19 ELSE IF at = "bar3" THEN 18
    ELSE IF at = "lo" THEN 17 ELSE IF at = "baseHi" THEN 16
    ELSE IF at = "limitHi" THEN 15 ELSE IF at = "brOn" THEN 14
    ELSE IF at = "gpuOn" THEN 13 ELSE IF at = "verify" THEN 12
    ELSE IF at = "u.brOff" THEN 11 ELSE IF at = "u.lo" THEN 10
    ELSE IF at = "u.baseHi" THEN 9 ELSE IF at = "u.limitHi" THEN 8
    ELSE IF at = "u.bar1" THEN 7 ELSE IF at = "u.bar3" THEN 6
    ELSE IF at = "u.gpu" THEN 5 ELSE IF at = "u.br" THEN 4
    ELSE IF at = "u.ctl" THEN 3 ELSE IF at = "u.cfg" THEN 2 ELSE 1

LEMMA ResizeLeftBound == \A at : ResizeLeft(at) \in 0 .. 31
  BY DEF ResizeLeft

LEMMA SizingLeft ==
    /\ ResizeLeft("gpuOff") = 26 /\ ResizeLeft("brOff") = 25
    /\ ResizeLeft("probe1") = 24 /\ ResizeLeft("check1") = 23
    /\ ResizeLeft("probe3") = 22 /\ ResizeLeft("check3") = 21
    /\ ResizeLeft("choose") = 20 /\ ResizeLeft("u.brOff") = 11
  BY DEF ResizeLeft, Done

LEMMA UndoLeft ==
    /\ ResizeLeft("u.brOff") = 11 /\ ResizeLeft("u.lo") = 10
    /\ ResizeLeft("u.baseHi") = 9 /\ ResizeLeft("u.limitHi") = 8
    /\ ResizeLeft("u.bar1") = 7 /\ ResizeLeft("u.bar3") = 6
    /\ ResizeLeft("u.gpu") = 5 /\ ResizeLeft("u.br") = 4
    /\ ResizeLeft("u.ctl") = 3 /\ ResizeLeft("u.cfg") = 2
    /\ ResizeLeft("u.cya") = 1 /\ ResizeLeft("reverted") = 0
  BY DEF ResizeLeft, Done

LEMMA ResizeStepsDown == ASSUME Next PROVE ResizeLeft(pc') < ResizeLeft(pc)
<1> USE DEF Write, Goto
<1>1. CASE Start \/ Choose \/ NoWindow
  BY <1>1 DEF Start, Choose, NoWindow, ResizeLeft, Done
<1>2. CASE Unlock
  BY <1>2 DEF Unlock, ResizeLeft, Done
<1>3. CASE DecodeOff \/ Size
  <2>1. \/ pc = "gpuOff" /\ pc' = "brOff"
        \/ pc = "brOff" /\ pc' = "probe1"
        \/ pc = "probe1" /\ pc' = "check1"
        \/ pc = "check1" /\ pc' \in {"probe3", "u.brOff"}
        \/ pc = "probe3" /\ pc' = "check3"
        \/ pc = "check3" /\ pc' \in {"choose", "u.brOff"}
    BY <1>3 DEF DecodeOff, Size
  <2> QED BY <2>1, SizingLeft
<1>4. CASE Move
  BY <1>4 DEF Move, ResizeLeft, Done
<1>5. CASE DecodeOn \/ Verify
  BY <1>5 DEF DecodeOn, Verify, ResizeLeft, Done
<1>6. CASE Revert
  <2>1. \/ pc = "u.brOff" /\ pc' = "u.lo"
        \/ pc = "u.lo" /\ pc' = "u.baseHi"
        \/ pc = "u.baseHi" /\ pc' = "u.limitHi"
        \/ pc = "u.limitHi" /\ pc' = "u.bar1"
        \/ pc = "u.bar1" /\ pc' = "u.bar3"
        \/ pc = "u.bar3" /\ pc' = "u.gpu"
        \/ pc = "u.gpu" /\ pc' = "u.br"
        \/ pc = "u.br" /\ pc' = "u.ctl"
        \/ pc = "u.ctl" /\ pc' = "u.cfg"
        \/ pc = "u.cfg" /\ pc' = "u.cya"
        \/ pc = "u.cya" /\ pc' = "reverted"
    BY ZenonT(40), <1>6 DEF Revert
  <2> QED BY <2>1, UndoLeft
<1> QED BY <1>1, <1>2, <1>3, <1>4, <1>5, <1>6 DEF Next

(* No order of checks and failures makes u40x_rebar_try do more than 31    *)
(* writes and checks, and none leads back to an earlier one: a roll-back   *)
(* never resumes the resize.                                               *)
ResizeRunsDown == ResizeLeft(pc') < ResizeLeft(pc)

THEOREM RebarRunsDown ==
    Spec => [](ResizeLeft(pc) \in 0 .. 31) /\ [][ResizeRunsDown]_vars
<1>1. ResizeLeft(pc) \in 0 .. 31
  BY ResizeLeftBound
<1>2. [Next]_vars => [ResizeRunsDown]_vars
  BY ResizeStepsDown DEF ResizeRunsDown
<1> QED BY <1>1, <1>2, PTL DEF Spec
=============================================================================
