-------------------------------- MODULE PciScan --------------------------------
(***************************************************************************)
(* How the EFI application finds the card on the PCI bus, makes its        *)
(* registers accessible and, for the resize, finds the bridge above it.    *)
(* Configuration registers are reached through the root bridges of the     *)
(* firmware, with one of two layouts of the address, or through the ports  *)
(* 0xCF8/0xCFC.  A firmware that decodes the other layout answers for      *)
(* another device, so that what was found holds only with the layout it    *)
(* was found with.  An address is counted in units of 256 bytes: a         *)
(* register below 256 does not change it.  One PCI segment.                *)
(***************************************************************************)
EXTENDS Integers, Sequences

CONSTANTS
    Platforms,       \* what the bus and the firmware may look like
    FastList,        \* the buses that are probed first
    SweepBuses,      \* buses of a sweep through a root bridge (17)
    PortBuses,       \* buses of a sweep through the ports (256)
    MaxRoots,        \* root bridges the resize looks at (V2100_RB_MAX, 8)
    Devices,         \* device numbers of a bus (32)
    Functions        \* function numbers of a device (8)

VARIABLES
    pc,              \* the step that comes next
    platform,        \* the machine
    gRb,             \* the root bridge in use, 0 for none
    enc,             \* 0 canonical layout, 1 compact layout, 2 ports
    gpu,             \* gBus, gDev, gFn
    written,         \* functions whose command register was written
    bridge           \* the bridge chosen for the resize, and its root

scanVars == <<pc, platform, gRb, enc, gpu, written, bridge>>

At(b, d, f) == [bus |-> b, dev |-> d, fn |-> f]
Addresses(buses) ==
    {At(b, d, f) : b \in buses, d \in 0 .. Devices - 1, f \in 0 .. Functions - 1}
NoBridge == [root |-> 0, at |-> At(0, 0, 0)]

(* One function answers at an address, and a card is the first function of *)
(* its device or behind a first one that says there are more.              *)
ASSUME PlatformsAreEnumerated ==
    \A p \in Platforms :
        /\ \A f, g \in p.functions : f.at = g.at => f = g
        /\ \A f \in p.functions : f.kind = "gpu" =>
              /\ f.at \in Addresses(0 .. PortBuses - 1)
              /\ f.at.fn = 0 \/ \E g \in p.functions :
                                    g.at = [f.at EXCEPT !.fn = 0] /\ g.multi

(* An address fits the fields of both layouts.                             *)
ASSUME AddressesFit ==
    /\ Devices \in 1 .. 32 /\ Functions \in 1 .. 8
    /\ PortBuses \in 1 .. 256 /\ SweepBuses \in 1 .. PortBuses
    /\ FastList \in Seq(0 .. PortBuses - 1)
    /\ MaxRoots \in Nat \ {0}

(* The firmware has numbered the buses: a bridge is on a bus before the    *)
(* one it leads to, no two lead to one bus, and the card's has no further  *)
(* bridges on it.  Only bridges have windows (of prefetchable memory), and *)
(* one that decodes its window is behind bridges that do, inside theirs.   *)
(* The root bridges have one layout.                                       *)
ASSUME BusesAreNumbered ==
    \A p \in Platforms :
        LET bridges == {f \in p.functions : f.kind = "bridge"} IN
        /\ \A f \in bridges :
              /\ f.sec \in 0 .. PortBuses - 1
              /\ f.at \in Addresses(0 .. f.sec - 1)
              /\ f.at.fn = 0 \/ \E g \in p.functions :
                                    g.at = [f.at EXCEPT !.fn = 0] /\ g.multi
        /\ \A f, g \in bridges :
              /\ f.sec = g.sec => f = g
              /\ g.sec = f.at.bus /\ f.decodes =>
                    g.decodes /\ f.window \subseteq g.window
        /\ \A f \in p.functions : f.window # {} => f \in bridges
        /\ \A c \in p.functions : c.kind = "gpu" =>
              \A f, g \in bridges : g.sec = c.at.bus => f.at.bus # c.at.bus
        /\ p.roots \in Seq([layout : {"canonical", "compact"}, buses : SUBSET Nat])
        /\ \A q, r \in DOMAIN p.roots : p.roots[q].layout = p.roots[r].layout

-----------------------------------------------------------------------------
(* Configuration space.                                                    *)

(* U40X_CFG_ADDR and U40X_CFG_ADDR_COMPACT.                                *)
Encode(e, a) ==
    IF e = 0 THEN a.bus * 2^16 + a.dev * 2^8 + a.fn
             ELSE a.bus * 2^12 + a.dev * 2^7 + a.fn * 2^4

(* What the firmware takes an address for.  With the compact layout the    *)
(* low bits are extended registers, which hold no identification.          *)
Decode(layout, A) ==
    IF layout = "canonical"
    THEN {At(A \div 2^16, (A \div 2^8) % 2^8, A % 2^8)}
    ELSE IF A % 2^4 = 0
         THEN {At((A \div 2^12) % 2^8, (A \div 2^7) % 2^5, (A \div 2^4) % 2^3)}
         ELSE {}

(* u40x_pci_rbdf, u40x_pci_wbdf, rebar_br_rd: the function that answers,   *)
(* if any.  A root bridge serves its own buses.                            *)
Reach(r, e, a) ==
    {f \in platform.functions :
        IF e = 2 THEN f.at = a
        ELSE /\ r > 0
             /\ f.at \in Decode(platform.roots[r].layout, Encode(e, a))
             /\ f.at.bus \in platform.roots[r].buses}

(* Mutant: only the first function of a device is looked at.               *)
ScannedMutant(r, e, buses) ==
    {a \in Addresses(buses) : a.fn = 0 /\ Reach(r, e, a) # {}}

(* What the three nested loops over bus, device and function come across.  *)
Scanned(r, e, buses) ==
    {a \in Addresses(buses) :
        /\ Reach(r, e, a) # {}
        /\ a.fn = 0 \/ \E f \in Reach(r, e, [a EXCEPT !.fn = 0]) : f.multi}

Order(a) == (a.bus * Devices + a.dev) * Functions + a.fn
Firsts(S) == {a \in S : \A b \in S : Order(a) <= Order(b)}

IsKind(r, e, a, kind) == \E f \in Reach(r, e, a) : f.kind = kind

-----------------------------------------------------------------------------
(* u40x_find_gpu.                                                          *)

FastHits ==
    {i \in DOMAIN FastList : IsKind(gRb, enc, At(FastList[i], 0, 0), "gpu")}

(* Mutant: the ports are swept no further than a root bridge.              *)
PassBusesMutant == 0 .. SweepBuses - 1

PassBuses == 0 .. (IF enc = 2 THEN PortBuses ELSE SweepBuses) - 1

SweepHits == {a \in Scanned(gRb, enc, PassBuses) : IsKind(gRb, enc, a, "gpu")}

(* u40x_find_gpu_pass: the usual places first, then every bus in order.    *)
Hit ==
    /\ pc = "pass" /\ pc' = "found"
    /\ \/ \E i \in FastHits :
             /\ \A j \in FastHits : i <= j
             /\ gpu' = At(FastList[i], 0, 0)
       \/ FastHits = {} /\ gpu' \in Firsts(SweepHits)
    /\ UNCHANGED <<platform, gRb, enc, written, bridge>>

(* Both layouts through every root bridge, then the ports; gRb stays at    *)
(* the last root bridge then.                                              *)
Miss ==
    /\ pc = "pass" /\ FastHits = {} /\ SweepHits = {}
    /\ \/ enc = 0 /\ enc' = 1 /\ UNCHANGED <<gRb, pc>>
       \/ /\ enc = 1 /\ UNCHANGED pc
          /\ IF gRb < Len(platform.roots) THEN gRb' = gRb + 1 /\ enc' = 0
                                          ELSE enc' = 2 /\ UNCHANGED gRb
       \/ enc = 2 /\ pc' = "absent" /\ UNCHANGED <<gRb, enc>>
    /\ UNCHANGED <<platform, gpu, written, bridge>>

-----------------------------------------------------------------------------
(* u40x_enable_bar.                                                        *)

(* Refused: no answer, an I/O BAR, a zero one, or one above 4 GiB.         *)
ReadBar ==
    /\ pc = "found"
    /\ \/ pc' = "refused"
       \/ pc' = "command" /\ \E f \in Reach(gRb, enc, gpu) : f.bar0 = "low"
    /\ UNCHANGED <<platform, gRb, enc, gpu, written, bridge>>

WriteCommand ==
    /\ pc = "command" /\ pc' = "readback"
    /\ written' = written \cup Reach(gRb, enc, gpu)
    /\ UNCHANGED <<platform, gRb, enc, gpu, bridge>>

(* Decoding and bus mastering must have been accepted.                     *)
ReadBack ==
    /\ pc = "readback" /\ pc' \in {"refused", "usable"}
    /\ UNCHANGED <<platform, gRb, enc, gpu, written, bridge>>

-----------------------------------------------------------------------------
(* The bridge above the card.                                              *)

(* Through the ports there is one way; else the root bridges of rb_collect *)
(* are asked, which are no more than MaxRoots, in the firmware's order.    *)
Roots ==
    IF enc = 2 THEN {1} ELSE {r \in DOMAIN platform.roots : r <= MaxRoots}

BelowCard == 0 .. gpu.bus - 1

(* Mutant: through a root bridge always the compact layout.                *)
BridgesToMutant(r) ==
    {a \in Scanned(r, IF enc = 2 THEN 2 ELSE 1, BelowCard) :
        \E f \in Reach(r, IF enc = 2 THEN 2 ELSE 1, a) :
            f.kind = "bridge" /\ f.sec = gpu.bus}

(* rebar_find_bridge: those whose secondary bus is the bus of the card.    *)
BridgesTo(r) ==
    {a \in Scanned(r, enc, BelowCard) :
        \E f \in Reach(r, enc, a) : f.kind = "bridge" /\ f.sec = gpu.bus}

FindBridge(from) ==
    /\ pc \in from /\ pc' = "planned"
    /\ \/ \E r \in Roots :
             /\ \A q \in Roots : q < r => BridgesTo(q) = {}
             /\ \E a \in Firsts(BridgesTo(r)) : bridge' = [root |-> r, at |-> a]
       \/ (\A r \in Roots : BridgesTo(r) = {}) /\ UNCHANGED bridge
    /\ UNCHANGED <<platform, gRb, enc, gpu, written>>

(* rebar_window_conflicts: the other bridges, as far as it looks, and what *)
(* the windows of those cover that decode memory.                          *)
Seen ==
    {f \in platform.functions :
        \E r \in Roots : \E a \in Scanned(r, enc, BelowCard) :
            f \in Reach(r, enc, a) /\ (r # bridge.root \/ a # bridge.at)}

Checked == UNION {f.window : f \in {g \in Seen : g.decodes}}

-----------------------------------------------------------------------------
ScanInit ==
    /\ pc = "pass"
    /\ platform \in Platforms
    /\ gRb = IF platform.roots = <<>> THEN 0 ELSE 1
    /\ enc = IF platform.roots = <<>> THEN 2 ELSE 0
    /\ gpu = At(0, 0, 0)
    /\ written = {}
    /\ bridge = NoBridge

ScanNext == Hit \/ Miss \/ ReadBar \/ WriteCommand \/ ReadBack

-----------------------------------------------------------------------------
(* Properties.                                                             *)

Cards == {f \in platform.functions : f.kind = "gpu"}

Located == {"found", "command", "readback", "refused", "usable", "planned"}

(* The search ends without the card only if there is none, and with what   *)
(* it recorded, and the layout it recorded it for, a card is reached.      *)
FindsTheCard ==
    /\ pc = "absent" => Cards = {}
    /\ pc \in Located => Reach(gRb, enc, gpu) # {}
    /\ pc \in Located => Reach(gRb, enc, gpu) \subseteq Cards

(* The command register is changed on a card and on no other device.       *)
OnlyTheCardIsWritten ==
    /\ written \subseteq Cards
    /\ pc = "usable" => \E f \in written : f.bar0 = "low"

(* The card is where the record says: the firmware decodes the layout the  *)
(* card was found with.                                                    *)
Faithful == \A f \in Reach(gRb, enc, gpu) : f.at = gpu

Parents ==
    {f \in platform.functions : f.kind = "bridge" /\
        \E c \in Reach(gRb, enc, gpu) : f.sec = c.at.bus}

Chosen == Reach(bridge.root, enc, bridge.at)

(* On the buses of a root bridge that is looked at: not on those of one    *)
(* past the first MaxRoots, and with the ports on all.                     *)
Collected ==
    {f \in platform.functions :
        enc = 2 \/ \E r \in Roots : f.at.bus \in platform.roots[r].buses}

(* When the card is where the record says, the bridge whose window the     *)
(* resize moves is the one above the card, and it is found whenever the    *)
(* card is behind one that is on the buses of a root bridge looked at.     *)
ParentIsFound ==
    pc = "planned" /\ Faithful =>
        IF bridge = NoBridge THEN Parents \cap Collected = {}
                             ELSE Chosen = Parents

(* The buses no bridge leads to.                                           *)
RootBuses ==
    {f.at.bus : f \in platform.functions} \
        {f.sec : f \in {g \in platform.functions : g.kind = "bridge"}}

(* When the card is where the record says, every root bus is below the bus *)
(* of the card, and all that is on a root bus is behind a root bridge that *)
(* is looked at, then the search for a free window knows of every address  *)
(* another bridge decodes, also those of bridges it does not look at:      *)
(* their windows lie in one it has seen.                                   *)
WindowsAreSeen ==
    /\ pc = "planned" /\ Faithful /\ bridge # NoBridge
    /\ \A f \in platform.functions : f.at.bus \in RootBuses =>
          f.at.bus < gpu.bus /\ f \in Collected
    => \A f \in platform.functions \ Parents :
          f.decodes => f.window \subseteq Checked
=============================================================================
