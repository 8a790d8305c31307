--------------------------------- MODULE Rebar ---------------------------------
(***************************************************************************)
(* The resize of BAR1 that the EFI application tries once the GPU is       *)
(* unlocked (u40x_rebar_try): a transaction of register writes on the GPU  *)
(* and on its upstream bridge, with a roll-back (u40x_rebar_revert) from   *)
(* every check that fails.  Every register write is a step.  Addresses and *)
(* sizes are counted in units of the model; a bridge holds its window in a *)
(* low register and two high ones, each high one worth LoSpan units.       *)
(***************************************************************************)
EXTENDS Integers

CONSTANTS
    Want,            \* the size asked for (8 GiB)
    Stock,           \* the stock size of BAR1
    LoSpan,          \* addresses per value of a high register (4 GiB)
    AddrLimit,       \* addresses are below this (2^64)
    MaxAttempts,     \* candidates tried
    Bar3Sizes,       \* the sizes BAR3 may have
    StockWindows,    \* windows the firmware may have given the bridge
    MemoryMaps,      \* the EFI memory maps considered
    OtherWindows     \* what the windows of the other bridges may occupy

Addr == 0 .. AddrLimit - 1

ASSUME SizesArePositive ==
    /\ {Want, Stock, LoSpan, AddrLimit} \subseteq Nat \ {0}
    /\ MaxAttempts \in Nat
    /\ Bar3Sizes \subseteq Nat \ {0}
(* All sizes are powers of two.                                            *)
ASSUME SizesAreAligned ==
    /\ Want % Stock = 0
    /\ \A s \in Bar3Sizes : Want % s = 0 \/ s % Want = 0
ASSUME PlatformsOccupyAddresses ==
    /\ StockWindows \subseteq [base : Addr, limit : Addr]
    /\ MemoryMaps \subseteq SUBSET Addr
    /\ OtherWindows \subseteq SUBSET Addr

VARIABLES
    pc,              \* the register write or check that comes next
    reg,             \* the registers of the GPU and of the bridge
    saved,           \* what the function read from them at its start
    plan,            \* the places chosen for the two BARs
    size3,           \* the size of BAR3
    memmap,          \* addresses the EFI memory map mentions
    others           \* addresses in the windows of other bridges

platform == <<size3, memmap, others>>
vars == <<pc, reg, saved, plan, size3, memmap, others>>

Down(v, a) == v - (v % a)

Up(v, a) == v + ((-v) % a)

Base(r) == r.baseHi * LoSpan + r.lo.base
Limit(r) == r.limitHi * LoSpan + r.lo.limit
Window(r) == Base(r) .. Limit(r)
Bar1(r) == r.bar1 .. r.bar1 + r.ctl - 1
Bar3(r) == r.bar3 .. r.bar3 + size3 - 1

Lo == [base : 0 .. LoSpan - 1, limit : 0 .. LoSpan - 1]

Registers ==
    [gpuMem : BOOLEAN, brMem : BOOLEAN, bar1 : Addr, bar3 : Addr,
     ctl : {Stock, Want}, cfg : {"stock", "wide"}, cya : {"stock", "open"},
     lo : Lo, baseHi : Nat, limitHi : Nat]

Checks == {"start", "readback", "check1", "check3", "choose", "verify"}
Forward == {"cya", "cfg", "ctl", "gpuOff", "brOff", "probe1", "probe3", "bar1",
            "bar3", "lo", "baseHi", "limitHi", "brOn", "gpuOn"}
Undo == {"u.brOff", "u.lo", "u.baseHi", "u.limitHi", "u.bar1", "u.bar3",
         "u.gpu", "u.br", "u.ctl", "u.cfg", "u.cya"}
Done == {"skipped", "active", "reverted"}

TypeOK ==
    /\ pc \in Checks \cup Forward \cup Undo \cup Done
    /\ reg \in Registers
    /\ saved \in Registers
    /\ plan \in [bar1 : Addr, bar3 : Addr]
    /\ size3 \in Bar3Sizes
    /\ memmap \in MemoryMaps
    /\ others \in OtherWindows

(* Neither in the memory map nor in another bridge's window.               *)
Free(S) == S \cap (memmap \cup others) = {}

(* The firmware has enumerated the bus: both BARs decode in the window of  *)
(* the bridge, which nothing else uses.                                    *)
Enumerated(r) ==
    /\ r.bar1 % Stock = 0 /\ r.bar3 % size3 = 0
    /\ Bar1(r) \cup Bar3(r) \subseteq Window(r)
    /\ Bar1(r) \cap Bar3(r) = {}
    /\ Free(Window(r))

Init ==
    /\ pc = "start"
    /\ size3 \in Bar3Sizes
    /\ memmap \in MemoryMaps
    /\ others \in OtherWindows
    /\ \E w \in StockWindows : \E b1, b3 \in w.base .. w.limit :
          reg = [gpuMem |-> TRUE, brMem |-> TRUE, bar1 |-> b1, bar3 |-> b3,
                 ctl |-> Stock, cfg |-> "stock", cya |-> "stock",
                 lo |-> [base |-> w.base % LoSpan, limit |-> w.limit % LoSpan],
                 baseHi |-> w.base \div LoSpan,
                 limitHi |-> w.limit \div LoSpan]
    /\ Enumerated(reg)
    /\ saved = reg
    /\ plan = [bar1 |-> 0, bar3 |-> 0]

-----------------------------------------------------------------------------
(* The hardware.  A write through BAR0 reaches the GPU only while it and   *)
(* the bridge decode memory; the bits of BAR1 below its size are zero.     *)
Written(r, v) ==
    CASE r \in {"ctl", "cfg", "cya"} /\ ~ (reg.gpuMem /\ reg.brMem) -> reg
      [] r = "bar1" -> [reg EXCEPT !.bar1 = Down(v, reg.ctl)]
      [] r = "bar3" -> [reg EXCEPT !.bar3 = Down(v, size3)]
      [] r = "ctl" /\ reg.gpuMem /\ reg.brMem ->
            [reg EXCEPT !.ctl = v, !.bar1 = Down(@, v)]
      [] OTHER -> [reg EXCEPT ![r] = v]

Write(at, r, v, next) ==
    /\ pc = at
    /\ reg' = Written(r, v)
    /\ pc' = next
    /\ UNCHANGED <<saved, plan, platform>>

(* A check is passed, or a write is ignored by the hardware.               *)
Goto(at, next) ==
    /\ pc = at
    /\ pc' = next
    /\ UNCHANGED <<reg, saved, plan, platform>>

-----------------------------------------------------------------------------
(* rebar_choose_window.                                                    *)
Required == Up(Want, size3) + size3

(* Above the memory map, never below 4 GiB; a map that can not be read     *)
(* counts as empty here.                                                   *)
Anchors == {LoSpan} \cup
    {a \in LoSpan .. AddrLimit : /\ \A m \in memmap : m < a
                                 /\ a = LoSpan \/ a - 1 \in memmap}

Candidate(anchor, k) ==
    Up(anchor, Want) + (IF k = 0 THEN 0 ELSE Up(Required, Want) * 2^k)

Stretch(c) == c .. c + Required - 1

Acceptable(c) ==
    /\ c \in Addr
    /\ c + Required <= AddrLimit
    /\ Free(Stretch(c))

Choices(anchor) ==
    {k \in 0 .. MaxAttempts - 1 : Acceptable(Candidate(anchor, k))}

(* The first acceptable candidate; BAR3 follows BAR1.                      *)
Choose ==
    /\ pc = "choose"
    /\ \E anchor \in Anchors : \E k \in Choices(anchor) :
          /\ \A j \in Choices(anchor) : k <= j
          /\ plan' = [bar1 |-> Candidate(anchor, k),
                      bar3 |-> Up(Candidate(anchor, k) + Want, size3)]
    /\ pc' = "bar1"
    /\ UNCHANGED <<reg, saved, platform>>

(* No candidate is acceptable, or the memory map can not be read.          *)
NoWindow == Goto("choose", "u.brOff")

WindowLimit == plan.bar3 + size3 - 1

-----------------------------------------------------------------------------
(* u40x_rebar_try.  BAR1 of another kind, or no bridge found: nothing is   *)
(* done.                                                                   *)
Start == Goto("start", "cya") \/ Goto("start", "skipped")

Unlock ==
    \/ Write("cya", "cya", "open", "cfg")
    \/ Write("cfg", "cfg", "wide", "readback")
    \/ Goto("cfg", "readback")
    \/ Goto("readback", IF reg.cfg = "wide" THEN "ctl" ELSE "u.cfg")
    \/ Write("ctl", "ctl", Want, "gpuOff")
    \/ Goto("ctl", "gpuOff")

(* Mutant: only the GPU stops to decode.                                   *)
DecodeOffMutant == Write("gpuOff", "gpuMem", FALSE, "probe1")

DecodeOff ==
    \/ Write("gpuOff", "gpuMem", FALSE, "brOff")
    \/ Write("brOff", "brMem", FALSE, "probe1")

(* All ones in a BAR read back as its size.                                *)
Size ==
    \/ Write("probe1", "bar1", AddrLimit - 1, "check1")
    \/ Goto("check1", IF reg.ctl = Want THEN "probe3" ELSE "u.brOff")
    \/ Write("probe3", "bar3", AddrLimit - 1, "check3")
    \/ Goto("check3", "choose")
    \/ Goto("check3", "u.brOff")

Move ==
    \/ Write("bar1", "bar1", plan.bar1, "bar3")
    \/ Write("bar3", "bar3", plan.bar3, "lo")
    \/ Write("lo", "lo", [base |-> plan.bar1 % LoSpan,
                          limit |-> WindowLimit % LoSpan], "baseHi")
    \/ Write("baseHi", "baseHi", plan.bar1 \div LoSpan, "limitHi")
    \/ Write("limitHi", "limitHi", WindowLimit \div LoSpan, "brOn")

DecodeOn ==
    \/ Write("brOn", "brMem", saved.brMem, "gpuOn")
    \/ Write("gpuOn", "gpuMem", saved.gpuMem, "verify")

(* The memory of the card may not answer through the new window.           *)
Verify ==
    \/ reg.bar1 = plan.bar1 /\ Goto("verify", "active")
    \/ Goto("verify", "u.brOff")

(* Mutant: the control register is restored before decode is on again.     *)
RevertMutant ==
    \/ Write("u.brOff", "brMem", FALSE, "u.lo")
    \/ Write("u.lo", "lo", saved.lo, "u.baseHi")
    \/ Write("u.baseHi", "baseHi", saved.baseHi, "u.limitHi")
    \/ Write("u.limitHi", "limitHi", saved.limitHi, "u.ctl")
    \/ Write("u.ctl", "ctl", saved.ctl, "u.bar1")
    \/ Write("u.bar1", "bar1", saved.bar1, "u.bar3")
    \/ Write("u.bar3", "bar3", saved.bar3, "u.gpu")
    \/ Write("u.gpu", "gpuMem", saved.gpuMem, "u.br")
    \/ Write("u.br", "brMem", saved.brMem, "u.cfg")
    \/ Write("u.cfg", "cfg", saved.cfg, "u.cya")
    \/ Write("u.cya", "cya", saved.cya, "reverted")

(* u40x_rebar_revert; the failed readback undoes only the last two.        *)
Revert ==
    \/ Write("u.brOff", "brMem", FALSE, "u.lo")
    \/ Write("u.lo", "lo", saved.lo, "u.baseHi")
    \/ Write("u.baseHi", "baseHi", saved.baseHi, "u.limitHi")
    \/ Write("u.limitHi", "limitHi", saved.limitHi, "u.bar1")
    \/ Write("u.bar1", "bar1", saved.bar1, "u.bar3")
    \/ Write("u.bar3", "bar3", saved.bar3, "u.gpu")
    \/ Write("u.gpu", "gpuMem", saved.gpuMem, "u.br")
    \/ Write("u.br", "brMem", saved.brMem, "u.ctl")
    \/ Write("u.ctl", "ctl", saved.ctl, "u.cfg")
    \/ Write("u.cfg", "cfg", saved.cfg, "u.cya")
    \/ Write("u.cya", "cya", saved.cya, "reverted")

Next == \/ Start \/ Unlock \/ DecodeOff \/ Size \/ Choose \/ NoWindow
        \/ Move \/ DecodeOn \/ Verify \/ Revert

Spec == Init /\ [][Next]_vars

-----------------------------------------------------------------------------
(* Properties.                                                             *)

(* Whenever the bridge decodes memory, its window holds no address that    *)
(* the memory map mentions or another bridge decodes: neither while the    *)
(* three window registers are rewritten one by one, nor at the place that  *)
(* was chosen, nor after a roll-back.                                      *)
WindowIsFree == reg.brMem => Free(Window(reg))

(* A resize that is reported active is complete: the full size, both BARs  *)
(* decode, apart from each other and inside the window.                    *)
ActiveIsComplete ==
    pc = "active" =>
        /\ reg.gpuMem /\ reg.brMem
        /\ reg.ctl = Want
        /\ Bar1(reg) \cup Bar3(reg) \subseteq Window(reg)
        /\ Bar1(reg) \cap Bar3(reg) = {}

(* After a failed check everything but the base of BAR1 is as it was, and  *)
(* that base has lost at most the bits below the size asked for.           *)
RevertedButForBar1 ==
    pc = "reverted" =>
        /\ [reg EXCEPT !.bar1 = 0] = [saved EXCEPT !.bar1 = 0]
        /\ reg.bar1 \in {saved.bar1, Down(saved.bar1, Want)}

-----------------------------------------------------------------------------
(* The inductive invariants behind the properties: what the registers hold *)
(* before, between and after the writes of each stretch.                   *)
SavedInv ==
    /\ Enumerated(saved)
    /\ saved.gpuMem /\ saved.brMem
    /\ saved.ctl = Stock /\ saved.cfg = "stock" /\ saved.cya = "stock"

Planned ==
    /\ Free(Stretch(plan.bar1))
    /\ plan.bar1 % Want = 0 /\ plan.bar3 % size3 = 0
    /\ plan.bar1 + Want <= plan.bar3
    /\ plan.bar3 + size3 <= plan.bar1 + Required

WindowLo == [base |-> plan.bar1 % LoSpan, limit |-> WindowLimit % LoSpan]

PlannedWindow ==
    /\ reg.lo = WindowLo
    /\ reg.baseHi = plan.bar1 \div LoSpan
    /\ reg.limitHi = WindowLimit \div LoSpan

StockWindow ==
    /\ reg.lo = saved.lo
    /\ reg.baseHi = saved.baseHi
    /\ reg.limitHi = saved.limitHi

Entering == {"start", "skipped", "cya", "cfg", "readback", "ctl", "gpuOff",
             "brOff"}
Sizing == {"probe1", "check1", "probe3", "check3", "choose"}
Moving == {"bar1", "bar3", "lo", "baseHi", "limitHi", "brOn"}
Resuming == {"gpuOn", "verify", "active"}
Restoring == {"u.lo", "u.baseHi", "u.limitHi"}
Restored == {"u.bar1", "u.bar3", "u.gpu", "u.br"}
Leaving == {"u.ctl", "u.cfg", "u.cya", "reverted"}

(* The bridge decodes a window only while that is the stock one or the     *)
(* planned one.                                                            *)
WindowInv ==
    /\ pc \in Moving \cup Resuming => Planned
    /\ pc \in Sizing \cup Moving \cup Restoring \cup Restored => ~ reg.brMem
    /\ pc \in Entering \cup Restored \cup Leaving => StockWindow
    /\ pc \in Resuming \cup {"brOn"} => PlannedWindow
    /\ pc \in {"baseHi", "limitHi"} => reg.lo = WindowLo
    /\ pc = "limitHi" => reg.baseHi = plan.bar1 \div LoSpan
    /\ pc = "u.brOff" /\ reg.brMem => Planned /\ PlannedWindow
    /\ pc \in {"u.baseHi", "u.limitHi"} => reg.lo = saved.lo
    /\ pc = "u.limitHi" => reg.baseHi = saved.baseHi

(* Both BARs are where they were planned, with the size that was asked for. *)
ResizeInv ==
    /\ pc \in {"probe3", "check3", "choose"} \cup Moving \cup Resuming
          => reg.ctl = Want
    /\ pc \in {"bar3", "lo", "baseHi", "limitHi", "brOn"} \cup Resuming
          => reg.bar1 = plan.bar1
    /\ pc \in {"lo", "baseHi", "limitHi", "brOn"} \cup Resuming
          => reg.bar3 = plan.bar3
    /\ pc \in Resuming => reg.brMem
    /\ pc \in {"verify", "active"} => reg.gpuMem

(* What the roll-back has restored so far.                                 *)
UndoInv ==
    /\ pc \in Entering \ {"brOff"} => reg.gpuMem
    /\ pc \in Entering => reg.brMem
    /\ pc \in {"start", "skipped", "cya", "cfg", "readback", "ctl"} =>
          reg.ctl = Stock /\ reg.bar1 = saved.bar1
    /\ pc \in Entering => reg.bar3 = saved.bar3
    /\ pc \in {"u.bar3", "u.gpu", "u.br"} \cup Leaving =>
          reg.bar1 \in {saved.bar1, Down(saved.bar1, Want)}
    /\ pc \in {"u.gpu", "u.br"} \cup Leaving => reg.bar3 = saved.bar3
    /\ pc \in {"u.br"} \cup Leaving => reg.gpuMem
    /\ pc \in Leaving => reg.brMem
    /\ pc \in {"u.cfg", "u.cya", "reverted"} => reg.ctl = Stock
    /\ pc \in {"u.cya", "reverted"} => reg.cfg = "stock"
    /\ pc = "reverted" => reg.cya = "stock"
=============================================================================
