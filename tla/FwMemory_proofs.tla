---------------------------- MODULE FwMemory_proofs ----------------------------
(***************************************************************************)
(* Proofs about the discovery of the card and of the bridge above it, the  *)
(* time it is given and the memory prepared for it, for any machine whose  *)
(* buses are numbered, clock, memory map and size of the firmware image.   *)
(***************************************************************************)
EXTENDS FwMemory, FiniteSetTheorems, TLAPS

-----------------------------------------------------------------------------
(* Discovery.  A root bridge takes an address for at most one function.    *)

LEMMA DecodeIsOne ==
    ASSUME NEW layout, NEW A, NEW a \in Decode(layout, A),
           NEW b \in Decode(layout, A)
    PROVE  a = b
BY DEF Decode

LEMMA ReachIsOne ==
    ASSUME platform \in Platforms, NEW r, NEW e, NEW a,
           NEW f \in Reach(r, e, a), NEW g \in Reach(r, e, a)
    PROVE  f = g
<1>1. f.at = g.at /\ f \in platform.functions /\ g \in platform.functions
  <2>1. CASE e = 2
    BY <2>1 DEF Reach
  <2>2. CASE e # 2
    <3>1. /\ f.at \in Decode(platform.roots[r].layout, Encode(e, a))
          /\ g.at \in Decode(platform.roots[r].layout, Encode(e, a))
      BY <2>2 DEF Reach
    <3> QED BY <3>1, <2>2, DecodeIsOne DEF Reach
  <2> QED BY <2>1, <2>2
<1> QED BY <1>1, PlatformsAreEnumerated

(* What answers with the identification of the card is a card alone.       *)
LEMMA KindIsReached ==
    ASSUME platform \in Platforms, NEW r, NEW e, NEW a,
           IsKind(r, e, a, "gpu")
    PROVE  Reach(r, e, a) # {} /\ Reach(r, e, a) \subseteq Cards
<1>1. PICK f \in Reach(r, e, a) : f.kind = "gpu"
  BY DEF IsKind
<1>2. \A g \in Reach(r, e, a) : g = f
  BY ReachIsOne
<1> QED BY <1>1, <1>2 DEF Reach, Cards

Steps == {"pass", "absent", "found", "command", "readback", "refused",
          "usable", "alloc", "ready", "failed", "planned"}

AfterHit == Steps \ {"pass", "absent"}

(* Inductive: from the hit on the record reaches a card, and the command   *)
(* is written through nothing but the record.                              *)
ScanInv ==
    /\ platform \in Platforms
    /\ pc \in Steps
    /\ pc \in AfterHit => Reach(gRb, enc, gpu) # {}
    /\ pc \in AfterHit => Reach(gRb, enc, gpu) \subseteq Cards
    /\ pc = "absent" => Cards = {}
    /\ written \subseteq Cards
    /\ pc \in {"command", "readback", "usable"} =>
          \E f \in Reach(gRb, enc, gpu) : f.bar0 = "low"
    /\ pc \in {"readback", "usable"} => Reach(gRb, enc, gpu) \subseteq written

(* A sweep through the ports passes over no card.                          *)
LEMMA PortsSeeEveryCard ==
    ASSUME ScanInv, enc = 2, SweepHits = {}
    PROVE  Cards = {}
<1>1. SUFFICES ASSUME NEW c \in Cards PROVE FALSE
  OBVIOUS
<1>2. c \in platform.functions /\ c.kind = "gpu"
  BY DEF Cards
<1>3. /\ c.at \in Addresses(0 .. PortBuses - 1)
      /\ c.at.fn = 0 \/ \E g \in platform.functions :
                            g.at = [c.at EXCEPT !.fn = 0] /\ g.multi
  BY <1>2, PlatformsAreEnumerated DEF ScanInv
<1>4. c \in Reach(gRb, 2, c.at)
  BY <1>2 DEF Reach
<1>5. c.at.fn = 0 \/ \E g \in Reach(gRb, 2, [c.at EXCEPT !.fn = 0]) : g.multi
  BY <1>3 DEF Reach
<1>6. c.at \in Scanned(gRb, 2, 0 .. PortBuses - 1)
  BY <1>3, <1>4, <1>5 DEF Scanned
<1>7. PassBuses = 0 .. PortBuses - 1
  BY DEF PassBuses
<1>8. IsKind(gRb, 2, c.at, "gpu")
  BY <1>2, <1>4 DEF IsKind
<1> QED BY <1>6, <1>7, <1>8 DEF SweepHits

LEMMA ScanInitial == FwInit => ScanInv
BY DEF FwInit, ScanInit, ScanInv, Steps, AfterHit

(* A step that keeps the machine, the record and what was written.         *)
LEMMA ScanQuiet ==
    ASSUME ScanInv, UNCHANGED <<platform, gRb, enc, gpu, written>>,
           pc' \in Steps \ {"pass", "absent", "command", "readback", "usable"},
           pc \in AfterHit
    PROVE  ScanInv'
<1>1. /\ Cards' = Cards
      /\ Reach(gRb, enc, gpu)' = Reach(gRb, enc, gpu)
  BY DEF Cards, Reach
<1> QED BY <1>1 DEF ScanInv, AfterHit, Steps

LEMMA ScanStep == ScanInv /\ [FwNext]_fwVars => ScanInv'
<1> SUFFICES ASSUME ScanInv, [FwNext]_fwVars PROVE ScanInv'
  OBVIOUS
<1>1. CASE Hit
  <2>1. /\ pc' = "found"
        /\ UNCHANGED <<platform, gRb, enc, written>>
        /\ IsKind(gRb, enc, gpu', "gpu")
    BY <1>1 DEF Hit, FastHits, SweepHits, Firsts
  <2>2. Reach(gRb, enc, gpu') # {} /\ Reach(gRb, enc, gpu') \subseteq Cards
    BY <2>1, KindIsReached DEF ScanInv
  <2>3. Cards' = Cards /\ Reach(gRb, enc, gpu)' = Reach(gRb, enc, gpu')
    BY <2>1 DEF Cards, Reach
  <2> QED BY <2>1, <2>2, <2>3 DEF ScanInv, AfterHit, Steps
<1>2. CASE Miss
  <2>1. UNCHANGED <<platform, gpu, written>> /\ pc' \in {"pass", "absent"}
    BY <1>2 DEF Miss
  <2>2. pc' = "absent" => enc = 2 /\ SweepHits = {}
    BY <1>2 DEF Miss
  <2>3. Cards' = Cards
    BY <2>1 DEF Cards
  <2>4. pc' = "absent" => Cards = {}
    BY <2>2, PortsSeeEveryCard
  <2> QED BY <2>1, <2>3, <2>4 DEF ScanInv, AfterHit, Steps
<1>3. CASE ReadBar
  <2>1. UNCHANGED <<platform, gRb, enc, gpu, written>>
    BY <1>3 DEF ReadBar
  <2>2. Cards' = Cards /\ Reach(gRb, enc, gpu)' = Reach(gRb, enc, gpu)
    BY <2>1 DEF Cards, Reach
  <2>3. /\ pc = "found" /\ pc' \in {"refused", "command"}
        /\ pc' = "command" => \E f \in Reach(gRb, enc, gpu) : f.bar0 = "low"
    BY <1>3 DEF ReadBar
  <2> QED BY <2>1, <2>2, <2>3 DEF ScanInv, AfterHit, Steps
<1>4. CASE WriteCommand
  <2>1. /\ UNCHANGED <<platform, gRb, enc, gpu>>
        /\ pc = "command" /\ pc' = "readback"
        /\ written' = written \cup Reach(gRb, enc, gpu)
    BY <1>4 DEF WriteCommand
  <2>2. Cards' = Cards /\ Reach(gRb, enc, gpu)' = Reach(gRb, enc, gpu)
    BY <2>1 DEF Cards, Reach
  <2> QED BY <2>1, <2>2 DEF ScanInv, AfterHit, Steps
<1>5. CASE ReadBack
  <2>1. /\ UNCHANGED <<platform, gRb, enc, gpu, written>>
        /\ pc = "readback" /\ pc' \in {"refused", "usable"}
    BY <1>5 DEF ReadBack
  <2>2. Cards' = Cards /\ Reach(gRb, enc, gpu)' = Reach(gRb, enc, gpu)
    BY <2>1 DEF Cards, Reach
  <2> QED BY <2>1, <2>2 DEF ScanInv, AfterHit, Steps
<1>6. CASE FindBridge({"usable", "ready"})
  BY <1>6, ScanQuiet DEF FindBridge, AfterHit, Steps
<1>7. CASE SetTime
  BY <1>7, ScanQuiet DEF SetTime, AfterHit, Steps
<1>8. CASE Allocate
  <2>1. pc = "alloc" /\ pc' \in {"alloc", "ready"}
    BY <1>8 DEF Allocate
  <2>2. UNCHANGED <<platform, gRb, enc, gpu, written>>
    BY <1>8 DEF Allocate
  <2> QED BY <2>1, <2>2, ScanQuiet DEF AfterHit, Steps
<1>9. CASE GiveUp
  BY <1>9, ScanQuiet DEF GiveUp, AfterHit, Steps
<1>10. CASE UNCHANGED fwVars
  <2>1. UNCHANGED <<pc, platform, gRb, enc, gpu, written>>
    BY <1>10 DEF fwVars, scanVars
  <2>2. Cards' = Cards /\ Reach(gRb, enc, gpu)' = Reach(gRb, enc, gpu)
    BY <2>1 DEF Cards, Reach
  <2> QED BY <2>1, <2>2 DEF ScanInv
<1> QED
  BY <1>1, <1>2, <1>3, <1>4, <1>5, <1>6, <1>7, <1>8, <1>9, <1>10
  DEF FwNext, ScanNext

(* The search ends without the card only if there is none, and what it     *)
(* recorded reaches a card as long as it is used.                          *)
THEOREM ScanFindsTheCard == FwSpec => []FindsTheCard
<1>1. ScanInv => FindsTheCard
  BY DEF ScanInv, FindsTheCard, Located, AfterHit, Steps
<1> QED BY <1>1, ScanInitial, ScanStep, PTL DEF FwSpec

(* No other device has its command register changed, and the base address  *)
(* that is used is below 4 GiB.                                            *)
THEOREM ScanWritesTheCard == FwSpec => []OnlyTheCardIsWritten
<1>1. ScanInv => OnlyTheCardIsWritten
  BY DEF ScanInv, OnlyTheCardIsWritten, AfterHit, Steps
<1> QED BY <1>1, ScanInitial, ScanStep, PTL DEF FwSpec
-----------------------------------------------------------------------------
(* Arithmetic.                                                             *)

LEMMA DivMod ==
    ASSUME NEW a \in Nat, NEW m \in Nat \ {0}
    PROVE  /\ a = (a \div m) * m + (a % m)
           /\ a % m \in 0 .. m - 1
           /\ a \div m \in Nat
  OBVIOUS

LEMMA FewerTimes ==
    ASSUME NEW a \in Nat, NEW b \in Nat, NEW m \in Nat, a * m < b * m
    PROVE  a < b
<1>1. CASE b <= a
  <2>1. PICK d \in Nat : a = b + d
    BY <1>1
  <2>2. a * m = b * m + d * m /\ d * m \in Nat /\ b * m \in Nat
    BY <2>1
  <2> QED BY <2>2
<1> QED BY <1>1

(* Page i of an image of n pages has its entry in a page of the second     *)
(* level that exists, and that page has its entry in the first level.      *)
LEMMA EntryExists ==
    ASSUME NEW n \in ImageSizes, NEW i \in 0 .. n - 1
    PROVE  /\ Tables(n) \in Nat /\ Entries \in Nat \ {0} /\ n \in Nat
           /\ i \div Entries \in Nat /\ i \div Entries < Tables(n) - 2
           /\ i \div Entries < Entries
           /\ i % Entries \in 0 .. Entries - 1
           /\ (i \div Entries) * Entries + (i % Entries) = i
<1> DEFINE q == i \div Entries
           u == (n + Entries - 1) \div Entries
<1>1. Entries \in Nat \ {0} /\ n \in Nat \ {0} /\ i \in Nat /\ i < n
  BY TablesHaveEntries
<1>2. /\ q \in Nat /\ i = q * Entries + (i % Entries)
      /\ i % Entries \in 0 .. Entries - 1
  BY <1>1, DivMod
<1>3. /\ u \in Nat
      /\ n + Entries - 1 = u * Entries + ((n + Entries - 1) % Entries)
      /\ (n + Entries - 1) % Entries \in 0 .. Entries - 1
  <2>1. n + Entries - 1 \in Nat
    BY <1>1
  <2> QED BY <2>1, <1>1, DivMod
<1>4. Tables(n) = 2 + u
  BY DEF Tables, Up
<1>5. q < u
  <2>1. q * Entries \in Nat /\ u * Entries \in Nat
    BY <1>1, <1>2, <1>3
  <2> HIDE DEF q, u
  <2>2. n <= u * Entries
    BY <1>1, <1>3, <2>1
  <2>3. q * Entries < u * Entries
    BY <1>1, <1>2, <2>1, <2>2
  <2> QED BY <1>1, <1>2, <1>3, <2>3, FewerTimes
<1>6. q < Entries
  <2>1. q * Entries \in Nat /\ Entries * Entries \in Nat
    BY <1>1, <1>2
  <2>2. n <= Entries * Entries
    BY OnePageOfTables
  <2> HIDE DEF q
  <2>3. q * Entries < Entries * Entries
    BY <1>1, <1>2, <2>1, <2>2
  <2> QED BY <1>1, <1>2, <2>3, FewerTimes
<1> HIDE DEF q, u
<1>7. q < Tables(n) - 2 /\ Tables(n) \in Nat
  BY <1>2, <1>3, <1>4, <1>5
<1> QED BY <1>1, <1>2, <1>6, <1>7 DEF q

(* A map of the memory is in order for any sizes, also when it does not    *)
(* fit (its lower end is below zero then).                                 *)
LEMMA MapIsOrdered ==
    ASSUME NEW fb \in Int, NEW elf \in Int, NEW bl \in Int, fb % 32 = 0
    PROVE  /\ Ordered(WprMeta(fb, elf, bl), elf, bl)
           /\ Aligned(WprMeta(fb, elf, bl))
<1>1. ASSUME NEW v \in Int
      PROVE  /\ Down(v, 16) \in Int /\ Down(v, 16) <= v /\ Down(v, 16) % 16 = 0
             /\ Down(v, 32) \in Int /\ Down(v, 32) <= v /\ Down(v, 32) % 32 = 0
             /\ Down(v, 256) \in Int /\ Down(v, 256) <= v
             /\ Down(v, 256) % 256 = 0
  BY DEF Down
<1> DEFINE vga == fb - 256
           wprEnd == Down(vga, 32)
           frts == wprEnd - 256
           bootBin == frts - bl
           fw == Down(bootBin - elf, 16)
           size == IF fb = 2621440 THEN 32512 ELSE 26880
           heap == Down(fw - size, 256)
<1>2. wprEnd \in Int /\ wprEnd <= vga /\ wprEnd % 32 = 0
  BY <1>1
<1>3. fw \in Int /\ fw <= bootBin - elf /\ fw % 16 = 0
  <2>1. bootBin - elf \in Int
    BY <1>2
  <2> QED BY <2>1, <1>1
<1>4. heap \in Int /\ heap <= fw - size /\ heap % 256 = 0
  <2>1. fw - size \in Int
    BY <1>3
  <2> QED BY <2>1, <1>1
<1>5. (heap - 256) % 256 = 0
  BY <1>4
<1>6. WprMeta(fb, elf, bl) =
        [fb |-> fb, vga |-> vga, wprEnd |-> wprEnd, frts |-> frts,
         bootBin |-> bootBin, fw |-> fw, heapSize |-> size,
         heap |-> heap, wprStart |-> heap - 256, nonWpr |-> heap - 512]
  BY DEF WprMeta
<1>7. size \in Int
  OBVIOUS
<1>8. bootBin = frts - bl /\ frts = wprEnd - 256 /\ vga = fb - 256
  OBVIOUS
<1> HIDE DEF wprEnd, frts, bootBin, fw, size, heap, vga
<1>9. vga \in Int /\ frts \in Int /\ bootBin \in Int
  BY <1>2, <1>8
<1>10. Ordered(WprMeta(fb, elf, bl), elf, bl)
  BY <1>2, <1>3, <1>4, <1>6, <1>7, <1>8, <1>9 DEF Ordered
<1>11. Aligned(WprMeta(fb, elf, bl))
  BY <1>2, <1>3, <1>4, <1>5, <1>6 DEF Aligned
<1> QED BY <1>10, <1>11

-----------------------------------------------------------------------------
(* The buffers and what is in them.                                        *)

Buffer == [at : Int, pages : Nat]

(* Inductive: buffers are apart, the table is that of its buffer, and the  *)
(* map is there once the last buffer is.                                   *)
MemInv ==
    /\ pc \in Steps
    /\ image \in ImageSizes
    /\ nextSlot \in Int
    /\ buffers \in Seq(Buffer)
    /\ pc = "alloc" => Len(buffers) <= 5
    /\ pc \in {"pass", "absent", "found", "command", "readback", "refused",
               "usable"} => Len(buffers) = 0
    /\ pc = "ready" => Len(buffers) = 6
    /\ pc = "ready" => meta = WprMeta(EightGB, image, 6)
    /\ \A i, j \in 1 .. Len(buffers) : i # j => Apart(buffers[i], buffers[j])
    /\ Len(buffers) >= 5 =>
          /\ buffers[5].pages = Tables(image) + image
          /\ table = Radix(buffers[5].at, image)

LEMMA MemInitial == FwInit => MemInv
<1> SUFFICES ASSUME FwInit PROVE MemInv
  OBVIOUS
<1>1. buffers = << >> /\ pc = "pass" /\ image \in ImageSizes /\ nextSlot = 1114112
  BY DEF FwInit, ScanInit
<1>2. Len(buffers) = 0 /\ buffers \in Seq(Buffer)
  BY <1>1
<1> QED BY <1>1, <1>2 DEF MemInv, Steps

LEMMA PlacesFit ==
    ASSUME MemInv, NEW n \in Nat, NEW a \in Places(n)
    PROVE  a \in Int /\ Fits([at |-> a, pages |-> n])
<1>1. a \in Fitting(n, Moving) \cup Fitting(n, StaticSlots) \cup Fitting(n, LowPlaces)
  BY DEF Places, Lowest
<1>2. Moving \subseteq Int /\ StaticSlots \subseteq Int /\ LowPlaces \subseteq Int
  BY PlacesArePages DEF MemInv, Moving, StaticSlots
<1> QED BY <1>1, <1>2 DEF Fitting

LEMMA SizesAreCounted ==
    ASSUME MemInv, NEW k \in 1 .. 6
    PROVE  /\ PagesFor(Purposes[k]) \in Nat
           /\ Purposes[k] = "radix" <=> k = 5
           /\ Purposes[k] = "meta" <=> k = 6
           /\ k = 5 => PagesFor(Purposes[k]) = Tables(image) + image
           /\ PagesFor("bl") = 6
<1>1. image \in Nat \ {0} /\ Tables(image) \in Nat
  <2>1. image \in Nat \ {0}
    BY TablesHaveEntries DEF MemInv
  <2>2. 0 \in 0 .. image - 1
    BY <2>1
  <2> QED BY <2>1, <2>2, EntryExists DEF MemInv
<1> QED BY <1>1 DEF PagesFor, Purposes

LEMMA MemQuiet ==
    ASSUME MemInv, pc' \in Steps \ {"alloc", "ready"}, UNCHANGED memVars,
           Len(buffers) = 0 \/ pc' \in {"failed", "planned"}
    PROVE  MemInv'
<1>1. UNCHANGED <<image, nextSlot, buffers, table, meta>>
  BY DEF memVars
<1> QED BY <1>1 DEF MemInv, Radix, Tables, Up, WprMeta, EightGB, Apart, Last

LEMMA MemStep == MemInv /\ [FwNext]_fwVars => MemInv'
<1> SUFFICES ASSUME MemInv, [FwNext]_fwVars PROVE MemInv'
  OBVIOUS
<1>1. CASE ScanNext /\ UNCHANGED memVars
  <2>1. /\ pc' \in Steps \ {"alloc", "ready"}
        /\ pc \in {"pass", "found", "command", "readback"}
    BY <1>1 DEF ScanNext, Hit, Miss, ReadBar, WriteCommand, ReadBack, Steps, MemInv
  <2>2. Len(buffers) = 0
    BY <2>1 DEF MemInv
  <2> QED BY <1>1, <2>1, <2>2, MemQuiet
<1>2. CASE FindBridge({"usable", "ready"}) /\ UNCHANGED memVars
  <2>1. pc' = "planned"
    BY <1>2 DEF FindBridge
  <2> QED BY <1>2, <2>1, MemQuiet DEF Steps
<1>3. CASE SetTime
  <2>1. /\ pc = "usable" /\ pc' = "alloc"
        /\ UNCHANGED <<image, nextSlot, buffers, table, meta>>
    BY <1>3 DEF SetTime
  <2>2. Len(buffers) = 0
    BY <2>1 DEF MemInv
  <2> QED BY <2>1, <2>2 DEF MemInv, Steps
<1>4. CASE Allocate
  <2> DEFINE k == Len(buffers) + 1
             n == PagesFor(Purposes[k])
  <2>1. pc = "alloc" /\ k \in 1 .. 6 /\ buffers \in Seq(Buffer) /\ Len(buffers) \in Nat
    BY <1>4 DEF Allocate, MemInv
  <2>2. /\ n \in Nat /\ PagesFor("bl") = 6
        /\ Purposes[k] = "radix" <=> k = 5
        /\ Purposes[k] = "meta" <=> k = 6
        /\ k = 5 => n = Tables(image) + image
    BY <2>1, SizesAreCounted
  <2>3. PICK a \in Places(n) :
          /\ nextSlot' = IF Fitting(n, Moving) # {} THEN a + n + 4096 ELSE nextSlot
          /\ buffers' = Append(buffers, [at |-> a, pages |-> n])
          /\ table' = IF Purposes[k] = "radix" THEN Radix(a, image) ELSE table
    BY <1>4 DEF Allocate
  <2>4. /\ IF Purposes[k] = "meta"
           THEN meta' = WprMeta(EightGB, image, PagesFor("bl")) /\ pc' = "ready"
           ELSE UNCHANGED <<meta, pc>>
        /\ image' = image
    BY <1>4 DEF Allocate
  <2> HIDE DEF n
  <2>5. a \in Int /\ Fits([at |-> a, pages |-> n])
    BY <2>2, <2>3, PlacesFit
  <2> DEFINE b == [at |-> a, pages |-> n]
  <2>6. b \in Buffer
    BY <2>2, <2>5 DEF Buffer
  <2>7. /\ buffers' \in Seq(Buffer) /\ Len(buffers') = k
        /\ \A i \in 1 .. k - 1 : buffers'[i] = buffers[i]
        /\ buffers'[k] = b
    BY <2>1, <2>3, <2>6
  <2>8. \A i \in 1 .. k - 1 : Apart(b, buffers[i]) /\ Apart(buffers[i], b)
    BY <2>1, <2>5 DEF Fits, Apart
  <2>9. \A i, j \in 1 .. Len(buffers') : i # j => Apart(buffers'[i], buffers'[j])
    <3> SUFFICES ASSUME NEW i \in 1 .. k, NEW j \in 1 .. k, i # j
                 PROVE  Apart(buffers'[i], buffers'[j])
      BY <2>7
    <3>1. CASE i = k
      <4>1. j \in 1 .. k - 1
        BY <3>1, <2>1
      <4> QED BY <3>1, <4>1, <2>7, <2>8
    <3>2. CASE j = k
      <4>1. i \in 1 .. k - 1
        BY <3>2, <2>1
      <4> QED BY <3>2, <4>1, <2>7, <2>8
    <3>3. CASE i # k /\ j # k
      <4>1. i \in 1 .. Len(buffers) /\ j \in 1 .. Len(buffers)
        BY <3>3, <2>1
      <4>2. Apart(buffers[i], buffers[j])
        BY <4>1 DEF MemInv
      <4> QED BY <4>1, <4>2, <2>1, <2>7
    <3> QED BY <3>1, <3>2, <3>3
  <2>10. nextSlot' \in Int
    BY <2>2, <2>3, <2>5 DEF MemInv
  <2>11. Len(buffers') >= 5 =>
           /\ buffers'[5].pages = Tables(image) + image
           /\ table' = Radix(buffers'[5].at, image)
    <3>1. CASE k = 5
      BY <3>1, <2>2, <2>3, <2>7
    <3>2. CASE k = 6
      <4>1. Len(buffers) = 5 /\ 5 \in 1 .. k - 1
        <5>1. Len(buffers) \in Nat /\ Len(buffers) + 1 = 6
          BY <3>2, <2>1
        <5>2. \A l \in Nat : l + 1 = 6 => l = 5
          OBVIOUS
        <5>3. Len(buffers) = 5
          BY <5>1, <5>2, Zenon
        <5>4. 5 \in 1 .. k - 1
          BY <3>2
        <5> QED BY <5>3, <5>4
      <4>2. Purposes[k] # "radix"
        BY <3>2, <2>2
      <4>3. table' = table
        BY <4>2, <2>3
      <4>4. buffers'[5] = buffers[5]
        BY <4>1, <2>7
      <4> QED BY <4>1, <4>3, <4>4 DEF MemInv
    <3> QED BY <3>1, <3>2, <2>1, <2>7
  <2>13. pc' = "ready" => k = 6 /\ meta' = WprMeta(EightGB, image, 6)
    BY <2>1, <2>2, <2>4
  <2>14. pc' \in {"alloc", "ready"} /\ (pc' = "alloc" => k <= 5)
    BY <2>1, <2>2, <2>4
  <2> QED
    BY <2>4, <2>7, <2>9, <2>10, <2>11, <2>13, <2>14 DEF MemInv, Steps
<1>5. CASE GiveUp
  <2>1. pc' = "failed" /\ UNCHANGED memVars
    BY <1>5 DEF GiveUp
  <2> QED BY <2>1, MemQuiet DEF Steps
<1>6. CASE UNCHANGED fwVars
  <2>1. UNCHANGED <<pc, image, nextSlot, buffers, table, meta>>
    BY <1>6 DEF fwVars, scanVars, memVars
  <2> QED BY <2>1 DEF MemInv
<1> QED
  BY <1>1, <1>2, <1>3, <1>4, <1>5, <1>6 DEF FwNext

(* What lies where in the card's memory: the parts of the map are in       *)
(* order, apart and aligned.                                               *)
THEOREM MemLayoutFits == FwSpec => []LayoutFits
<1>1. MemInv => LayoutFits
  <2> SUFFICES ASSUME MemInv, pc = "ready" PROVE LayoutFits
    BY DEF LayoutFits
  <2>1. meta = WprMeta(EightGB, image, 6) /\ image \in Int
    BY TablesHaveEntries DEF MemInv
  <2>2. EightGB \in Int /\ EightGB % 32 = 0
    BY DEF EightGB
  <2>3. PagesFor("bl") = 6
    BY DEF PagesFor
  <2> QED BY <2>1, <2>2, <2>3, MapIsOrdered DEF LayoutFits
<1> QED BY <1>1, MemInitial, MemStep, PTL DEF FwSpec

(* Every page of the image is reached through the table, for every size of *)
(* the image the table has room for, and no other buffer is in its way.    *)
THEOREM MemTablesReachData == FwSpec => []TablesReachData
<1>1. MemInv => TablesReachData
  <2> SUFFICES ASSUME MemInv, pc = "ready" PROVE TablesReachData
    BY DEF TablesReachData
  <2> DEFINE at == buffers[5].at
  <2>1. /\ Len(buffers) = 6 /\ buffers \in Seq(Buffer) /\ image \in ImageSizes
        /\ buffers[5].pages = Tables(image) + image
        /\ table = Radix(at, image)
    BY SMTT(30) DEF MemInv
  <2>2. at \in Int
    <3>1. buffers \in Seq(Buffer) /\ Len(buffers) = 6
      BY <2>1
    <3>2. ASSUME NEW s \in Seq(Buffer), Len(s) = 6 PROVE s[5] \in Buffer
      <4>1. s \in [1 .. Len(s) -> Buffer]
        OBVIOUS
      <4>2. s \in [1 .. 6 -> Buffer]
        BY <4>1, <3>2
      <4> QED BY <4>2
    <3>3. buffers[5] \in Buffer
      BY <3>1, <3>2
    <3> QED BY <3>3 DEF Buffer
  <2>3. ASSUME NEW i \in 0 .. image - 1
        PROVE  Walk(i) = at + Tables(image) + i
    <3> DEFINE q == i \div Entries
               r == i % Entries
               T == Tables(image)
    <3>1. /\ T \in Nat /\ Entries \in Nat \ {0} /\ image \in Nat
          /\ q \in Nat /\ q < T - 2 /\ q < Entries
          /\ r \in 0 .. Entries - 1 /\ q * Entries + r = i
      <4>1. image \in ImageSizes
        BY <2>1
      <4>2. /\ Tables(image) \in Nat /\ Entries \in Nat \ {0} /\ image \in Nat
            /\ i \div Entries \in Nat /\ i \div Entries < Tables(image) - 2
            /\ i \div Entries < Entries /\ i % Entries \in 0 .. Entries - 1
            /\ (i \div Entries) * Entries + (i % Entries) = i
        BY <4>1, EntryExists
      <4> HIDE DEF at
      <4> QED BY <4>2
    <3>2. i \in Nat /\ i < image
      BY <3>1
    <3> HIDE DEF q, r, T
    <3>3. ASSUME NEW p \in 0 .. T - 1, NEW j \in 0 .. Entries - 1
          PROVE  Entry(at + p, j) =
                   IF p = 0 THEN (IF j = 0 THEN at + 1 ELSE 0)
                   ELSE IF p = 1 THEN (IF j < T - 2 THEN at + 2 + j ELSE 0)
                   ELSE IF (p - 2) * Entries + j < image
                        THEN at + T + (p - 2) * Entries + j
                   ELSE 0
      <4>1. (at + p) - at = p
        BY <2>2, <3>1
      <4>2. p \in DOMAIN table
        BY <2>1 DEF Radix, T
      <4>3. Entry(at + p, j) = table[p][j]
        BY <4>1, <4>2 DEF Entry, RadixBuffer
      <4> QED BY <4>3, <2>1 DEF Radix, T
    <3>4. Entry(at, 0) = at + 1
      <4>1. 0 \in 0 .. T - 1 /\ 0 \in 0 .. Entries - 1 /\ at + 0 = at
        BY <3>1, <2>2
      <4> QED BY <4>1, <3>3
    <3>5. Entry(at + 1, q) = at + (2 + q)
      <4>1. 1 \in 0 .. T - 1 /\ q \in 0 .. Entries - 1 /\ q < T - 2
        BY <3>1
      <4>2. Entry(at + 1, q) = at + 2 + q
        BY <4>1, <3>3
      <4> QED BY <4>2, <2>2, <3>1
    <3>6. Entry(at + (2 + q), r) = at + T + i
      <4>1. /\ 2 + q \in 0 .. T - 1 /\ 2 + q # 0 /\ 2 + q # 1
            /\ (2 + q) - 2 = q
        BY <3>1
      <4>2. Entry(at + (2 + q), r) = at + T + q * Entries + r
        BY <4>1, <3>1, <3>2, <3>3
      <4>3. q * Entries \in Nat
        BY <3>1
      <4> QED BY <4>2, <4>3, <3>1, <2>2
    <3>7. Walk(i) = Entry(Entry(Entry(at, 0), q), r)
      BY DEF Walk, RadixBuffer, q, r
    <3> QED BY <3>4, <3>5, <3>6, <3>7 DEF T
  <2>4. ASSUME NEW i \in 0 .. image - 1 PROVE Walk(i) <= Last(buffers[5])
    <3>1. Tables(image) \in Nat /\ image \in Nat
      BY <2>1, EntryExists
    <3>2. Last(buffers[5]) = at + (Tables(image) + image) - 1
      BY <2>1 DEF Last
    <3> QED BY <3>1, <3>2, <2>2, <2>3
  <2>5. \A p \in DOMAIN buffers \ {5} : Apart(buffers[5], buffers[p])
    BY <2>1 DEF MemInv
  <2> QED BY <2>3, <2>4, <2>5 DEF TablesReachData, RadixBuffer
<1> QED BY <1>1, MemInitial, MemStep, PTL DEF FwSpec

-----------------------------------------------------------------------------
(* The calendar.                                                           *)

(* A set of numbers has a least element: what takes the place of induction *)
(* over the years.                                                         *)
LEMMA LeastNumber ==
    ASSUME NEW S \in SUBSET Nat, NEW k \in S
    PROVE  \E x \in S : \A y \in S : x <= y
<1> DEFINE B == {y \in S : y <= k}
           below(x) == {y \in B : y < x}
           rank == [x \in B |-> Cardinality(below(x))]
           n == Cardinality(B)
<1>1. IsFiniteSet(B) /\ n \in Nat /\ B \in SUBSET Nat /\ k \in B
  <2>1. k \in Nat /\ B \in SUBSET Nat /\ \A y \in B : y <= k
    OBVIOUS
  <2>2. k \in B
    BY <2>1
  <2> HIDE DEF B
  <2>3. IsFiniteSet(B)
    BY <2>1, FS_BoundedSetOfNaturals
  <2> QED BY <2>1, <2>2, <2>3, FS_CardinalityType
<1>2. ASSUME NEW x \in B
      PROVE  /\ below(x) \in SUBSET B /\ IsFiniteSet(below(x))
             /\ rank[x] \in Nat /\ rank[x] < n
  <2>1. below(x) \in SUBSET B /\ x \notin below(x)
    BY <1>1
  <2>2. /\ IsFiniteSet(below(x)) /\ Cardinality(below(x)) <= n
        /\ n # Cardinality(below(x))
    BY <1>1, <2>1, FS_Subset
  <2>3. Cardinality(below(x)) \in Nat
    BY <2>2, FS_CardinalityType
  <2>4. rank[x] = Cardinality(below(x))
    OBVIOUS
  <2> HIDE DEF n, rank, below, B
  <2> QED BY <1>1, <2>1, <2>2, <2>3, <2>4
<1>3. ASSUME NEW x \in B, NEW y \in B, x < y PROVE rank[x] # rank[y]
  <2>1. below(x) \in SUBSET below(y) /\ x \in below(y) /\ x \notin below(x)
    BY <1>1, <1>3
  <2>2. Cardinality(below(x)) # Cardinality(below(y))
    BY <1>2, <2>1, FS_Subset
  <2> QED BY <2>2
<1>4. PICK x \in B : rank[x] = 0
  <2> SUFFICES ASSUME \A x \in B : rank[x] # 0 PROVE FALSE
    OBVIOUS
  <2> HIDE DEF rank, n, below
  <2>1. n # 0 /\ n - 1 \in Nat
    BY <1>1, <1>2
  <2>2. IsFiniteSet(1 .. n - 1) /\ Cardinality(1 .. n - 1) = n - 1
    BY <2>1, FS_Interval
  <2>3. ASSUME NEW x \in B PROVE rank[x] \in 1 .. n - 1
    <3>1. rank[x] \in Nat /\ rank[x] < n /\ rank[x] # 0
      BY <1>2
    <3> HIDE DEF B
    <3> QED BY <1>1, <2>1, <3>1
  <2>4. rank \in [B -> 1 .. n - 1]
    BY <2>3 DEF rank
  <2>5. n - 1 < n
    BY <1>1
  <2>6. \E x, y \in B : x # y /\ rank[x] = rank[y]
    BY <1>1, <2>2, <2>4, <2>5, FS_PigeonHole DEF n
  <2> HIDE DEF B
  <2> QED BY <1>1, <1>3, <2>6
<1>5. below(x) = {}
  BY <1>2, <1>4, FS_EmptySet
<1>6. \A y \in S : x <= y
  BY <1>1, <1>5
<1> QED BY <1>6

(* A leap year adds one day at its end; between 1970 and 2100 it is every  *)
(* fourth year.                                                            *)
YearStart(y) == 365 * (y - 1970) + (y - 1969) \div 4

LEMMA LeapYears ==
    ASSUME NEW y \in 1970 .. 2099
    PROVE  /\ Leap(y) <=> y % 4 = 0
           /\ YearStart(y + 1) = YearStart(y) + (IF Leap(y) THEN 366 ELSE 365)
<1>1. Leap(y) <=> y % 4 = 0
  <2>1. CASE y = 2000
    BY <2>1 DEF Leap
  <2>2. CASE y # 2000
    <3>1. y % 100 = 0 => FALSE
      BY <2>2
    <3> QED BY <3>1 DEF Leap
  <2> QED BY <2>1, <2>2
<1>2. (y - 1968) \div 4 = (y - 1969) \div 4 + (IF y % 4 = 0 THEN 1 ELSE 0)
  OBVIOUS
<1>3. (y + 1) - 1969 = y - 1968
  OBVIOUS
<1> QED BY <1>1, <1>2, <1>3 DEF YearStart

LEMMA YearsAdd ==
    /\ DaysToYear[1970] = 0
    /\ \A y \in 1971 .. 2100 :
          DaysToYear[y]
            = DaysToYear[y - 1] + (IF Leap(y - 1) THEN 366 ELSE 365)
<1> DEFINE Next(f) ==
             [y \in 1970 .. 2100 |->
                IF y = 1970 THEN 0
                ELSE f[y - 1] + (IF Leap(y - 1) THEN 366 ELSE 365)]
           start == [y \in 1970 .. 2100 |-> YearStart(y)]
<1>1. start = Next(start)
  <2>1. YearStart(1970) = 0
    BY DEF YearStart
  <2>2. ASSUME NEW y \in 1971 .. 2100
        PROVE  YearStart(y) = YearStart(y - 1)
                                + (IF Leap(y - 1) THEN 366 ELSE 365)
    <3>1. y - 1 \in 1970 .. 2099 /\ (y - 1) + 1 = y
      OBVIOUS
    <3> QED BY <3>1, LeapYears
  <2>3. ASSUME NEW y \in 1970 .. 2100 PROVE start[y] = Next(start)[y]
    <3>1. y # 1970 => y \in 1971 .. 2100 /\ y - 1 \in 1970 .. 2100
      OBVIOUS
    <3> QED BY <2>1, <2>2, <3>1
  <2> QED BY <2>3
<1>2. \E f : f = Next(f)
  <2> HIDE DEF Next, start
  <2> QED BY <1>1
<1>3. DaysToYear = Next(DaysToYear)
  <2> HIDE DEF start
  <2>1. DaysToYear = CHOOSE f : f = Next(f)
    BY DEF DaysToYear
  <2> HIDE DEF Next
  <2> QED BY <1>2, <2>1
<1>4. 1970 \in 1970 .. 2100 /\ 1971 .. 2100 \subseteq 1970 .. 2100
  OBVIOUS
<1>5. ASSUME NEW y \in 1970 .. 2100
      PROVE  DaysToYear[y] =
                IF y = 1970 THEN 0
                ELSE DaysToYear[y - 1] + (IF Leap(y - 1) THEN 366 ELSE 365)
  <2>1. DaysToYear[y] = Next(DaysToYear)[y]
    BY <1>3
  <2> QED BY <2>1
<1>6. \A y \in 1971 .. 2100 : y \in 1970 .. 2100 /\ y # 1970
  OBVIOUS
<1> HIDE DEF Next, start
<1> QED BY <1>4, <1>5, <1>6

(* The sum over the years is the number of years and of leap years.        *)
LEMMA YearsStart ==
    ASSUME NEW y \in 1970 .. 2100
    PROVE  DaysToYear[y] = YearStart(y)
<1> DEFINE Wrong == {z \in 1970 .. 2100 : DaysToYear[z] # YearStart(z)}
<1> SUFFICES ASSUME y \in Wrong PROVE FALSE
  OBVIOUS
<1>1. PICK z \in Wrong : \A w \in Wrong : z <= w
  <2>1. Wrong \in SUBSET Nat
    OBVIOUS
  <2> HIDE DEF Wrong
  <2> QED BY <2>1, LeastNumber
<1>2. z # 1970
  BY YearsAdd DEF YearStart
<1>3. z - 1 \in 1970 .. 2099 /\ z - 1 \notin Wrong /\ (z - 1) + 1 = z
  BY <1>1, <1>2
<1>4. DaysToYear[z - 1] = YearStart(z - 1)
  BY <1>3
<1>5. DaysToYear[z] = YearStart(z)
  <2>1. z \in 1971 .. 2100
    BY <1>2
  <2>2. DaysToYear[z]
          = DaysToYear[z - 1] + (IF Leap(z - 1) THEN 366 ELSE 365)
    BY <2>1, YearsAdd
  <2>3. YearStart(z) = YearStart(z - 1) + (IF Leap(z - 1) THEN 366 ELSE 365)
    BY <1>3, LeapYears
  <2> QED BY <1>4, <2>2, <2>3
<1> QED BY <1>5

(* Days before the first of a month of a common year.                      *)
MonthStart == <<0, 31, 59, 90, 120, 151, 181, 212, 243, 273, 304, 334>>

LEMMA MonthsStart == \A m \in 1 .. 12 : DaysToMonth[m] = MonthStart[m]
<1> DEFINE Next(f) == [m \in 1 .. 12 |->
                         IF m = 1 THEN 0 ELSE f[m - 1] + MonthDays[m - 1]]
           start == [m \in 1 .. 12 |-> MonthStart[m]]
<1>1. start = Next(start)
  <2>1. ASSUME NEW m \in 1 .. 12 PROVE start[m] = Next(start)[m]
    <3>1. CASE m = 1
      BY <3>1 DEF MonthStart
    <3>2. CASE m # 1
      <4>1. m - 1 \in 1 .. 12 /\ m - 1 \in 1 .. 11
        BY <3>2
      <4>2. MonthStart[m] = MonthStart[m - 1] + MonthDays[m - 1]
        <5>1. \/ m = 2 \/ m = 3 \/ m = 4 \/ m = 5 \/ m = 6 \/ m = 7
              \/ m = 8 \/ m = 9 \/ m = 10 \/ m = 11 \/ m = 12
          BY <3>2
        <5> QED BY <5>1 DEF MonthStart, MonthDays
      <4> QED BY <3>2, <4>1, <4>2
    <3> QED BY <3>1, <3>2
  <2> QED BY <2>1
<1>2. \E f : f = Next(f)
  <2> HIDE DEF Next, start
  <2> QED BY <1>1
<1>3. DaysToMonth = Next(DaysToMonth)
  <2> HIDE DEF start
  <2>1. DaysToMonth = CHOOSE f : f = Next(f)
    BY DEF DaysToMonth
  <2> HIDE DEF Next
  <2> QED BY <1>2, <2>1
<1>4. ASSUME NEW m \in 1 .. 12
      PROVE  DaysToMonth[m] =
                IF m = 1 THEN 0 ELSE DaysToMonth[m - 1] + MonthDays[m - 1]
  <2>1. DaysToMonth[m] = Next(DaysToMonth)[m]
    BY <1>3
  <2> QED BY <2>1
<1>5. /\ DaysToMonth[1] = 0
      /\ DaysToMonth[2] = DaysToMonth[1] + 31
      /\ DaysToMonth[3] = DaysToMonth[2] + 28
      /\ DaysToMonth[4] = DaysToMonth[3] + 31
      /\ DaysToMonth[5] = DaysToMonth[4] + 30
      /\ DaysToMonth[6] = DaysToMonth[5] + 31
      /\ DaysToMonth[7] = DaysToMonth[6] + 30
      /\ DaysToMonth[8] = DaysToMonth[7] + 31
      /\ DaysToMonth[9] = DaysToMonth[8] + 31
      /\ DaysToMonth[10] = DaysToMonth[9] + 30
      /\ DaysToMonth[11] = DaysToMonth[10] + 31
      /\ DaysToMonth[12] = DaysToMonth[11] + 30
  BY <1>4 DEF MonthDays
<1> HIDE DEF Next, start
<1>6. SUFFICES ASSUME NEW m \in 1 .. 12 PROVE DaysToMonth[m] = MonthStart[m]
  OBVIOUS
<1>7. \/ m = 1 \/ m = 2 \/ m = 3 \/ m = 4 \/ m = 5 \/ m = 6 \/ m = 7
      \/ m = 8 \/ m = 9 \/ m = 10 \/ m = 11 \/ m = 12
  OBVIOUS
<1> QED BY <1>5, <1>7 DEF MonthStart

(* The first of a month, counted by the code and counted from March.       *)
LEMMA FirstOfMonth ==
    ASSUME NEW t \in ClockTimes, InRange(t)
    PROVE  CivilDays(t.year, t.month, t.day) - UnixDays(t) = t.day - 1
<1>1. /\ t.year \in 2015 .. 2099 /\ t.month \in 1 .. 12 /\ t.day \in 1 .. 31
  BY ClockShowsDates DEF InRange
<1> DEFINE y == t.year
           m == t.month
           d == t.day
           year == IF m > 2 THEN y ELSE y - 1
           inYear == (153 * (IF m > 2 THEN m - 3 ELSE m + 9) + 2) \div 5
<1>2. /\ year \in 2014 .. 2099 /\ year % 400 = year - 2000
      /\ year \div 400 = 5 /\ (year - 2000) \div 100 = 0
      /\ (year - 2000) \div 4 = year \div 4 - 500
  BY <1>1
<1>3. CivilDays(y, m, d) =
        365 * (year - 2000) + year \div 4 + inYear + d - 1 + 10517
  <2>1. CivilDays(y, m, d) =
          5 * 146097 + (year - 2000) * 365 + (year \div 4 - 500)
            - 0 + (inYear + d - 1) - 719468
    BY <1>2 DEF CivilDays
  <2>2. inYear \in Int /\ year \div 4 \in Int
    BY <1>1, <1>2
  <2> HIDE DEF y, m, d, year, inYear
  <2> QED BY <1>1, <1>2, <2>1, <2>2 DEF d
<1>4. UnixDays(t) = 365 * (y - 1970) + (y - 1969) \div 4 + MonthStart[m]
                      + (IF m > 2 /\ y % 4 = 0 THEN 1 ELSE 0)
  <2>1. y \in 1970 .. 2100 /\ y \in 1970 .. 2099
    BY <1>1
  <2> QED BY <1>1, <2>1, YearsStart, LeapYears, MonthsStart
          DEF UnixDays, YearStart
<1>5. \/ m = 1 \/ m = 2 \/ m = 3 \/ m = 4 \/ m = 5 \/ m = 6 \/ m = 7
      \/ m = 8 \/ m = 9 \/ m = 10 \/ m = 11 \/ m = 12
  BY <1>1
<1>6. year \in Int /\ year \div 4 \in Int /\ inYear \in Int /\ d \in Int
  BY <1>1, <1>2
<1>7. ASSUME m <= 2 PROVE CivilDays(y, m, d) - UnixDays(t) = d - 1
  <2>1. m = 1 \/ m = 2
    BY <1>1, <1>7
  <2>2. MonthStart[m] = inYear - 306
    BY <2>1 DEF MonthStart
  <2>3. year = y - 1 /\ (y - 1969) \div 4 = year \div 4 - 492
    BY <1>1, <1>7
  <2>4. UnixDays(t) = 365 * (year + 1 - 1970) + (year \div 4 - 492)
                        + (inYear - 306)
    <3>1. ~ (m > 2) /\ y = year + 1
      BY <1>1, <1>7
    <3> HIDE DEF y, m, year, inYear
    <3> QED BY <1>4, <1>6, <2>2, <2>3, <3>1
  <2> HIDE DEF y, m, d, year, inYear
  <2> QED BY <1>3, <1>6, <2>4
<1>8. ASSUME m > 2 PROVE CivilDays(y, m, d) - UnixDays(t) = d - 1
  <2>1. MonthStart[m] = inYear + 59
    BY <1>5, <1>8 DEF MonthStart
  <2>2. /\ year = y
        /\ (y - 1969) \div 4 + (IF y % 4 = 0 THEN 1 ELSE 0) = year \div 4 - 492
    BY <1>1, <1>8
  <2>3. UnixDays(t) = 365 * (year - 1970) + (year \div 4 - 492)
                        + (inYear + 59)
    <3>1. (y - 1969) \div 4 \in Int /\ y % 4 \in Int
      BY <1>1
    <3> HIDE DEF y, m, year, inYear
    <3> QED BY <1>4, <1>6, <1>8, <2>1, <2>2, <3>1
  <2> HIDE DEF y, m, d, year, inYear
  <2> QED BY <1>3, <1>6, <2>3
<1>9. CivilDays(y, m, d) - UnixDays(t) = d - 1
  BY <1>1, <1>7, <1>8
<1> QED BY <1>9

(* The timer is set from the clock once, before there are buffers.         *)
ClockInv ==
    /\ rtc \in ClockTimes
    /\ pc \in {"alloc", "ready", "failed"} =>
          gpuTime = IF InRange(rtc)
                    THEN [days |-> UnixDays(rtc), secs |-> rtc.secs]
                    ELSE Fallback

LEMMA ClockStep == ClockInv /\ [FwNext]_fwVars => ClockInv'
<1> SUFFICES ASSUME ClockInv, [FwNext]_fwVars PROVE ClockInv'
  OBVIOUS
<1>1. CASE SetTime
  BY <1>1 DEF SetTime, ClockInv
<1>2. ASSUME UNCHANGED <<rtc, gpuTime>>,
             pc' \in {"alloc", "ready", "failed"} =>
                pc \in {"alloc", "ready", "failed"}
      PROVE  ClockInv'
  BY <1>2 DEF ClockInv
<1>3. CASE ScanNext /\ UNCHANGED memVars
  BY <1>2, <1>3 DEF ScanNext, Hit, Miss, ReadBar, WriteCommand, ReadBack,
     memVars
<1>4. CASE FindBridge({"usable", "ready"}) /\ UNCHANGED memVars
  BY <1>2, <1>4 DEF FindBridge, memVars
<1>5. CASE Allocate
  BY <1>2, <1>5 DEF Allocate
<1>6. CASE GiveUp
  BY <1>2, <1>6 DEF GiveUp, memVars
<1>7. CASE UNCHANGED fwVars
  BY <1>2, <1>7 DEF fwVars, scanVars, memVars
<1> QED BY <1>1, <1>3, <1>4, <1>5, <1>6, <1>7 DEF FwNext

(* A clock the code accepts gives the card the first of its month at its   *)
(* own time of day, for every date the firmware may answer with.           *)
THEOREM TimeNeverAhead == FwSpec => []ClockNeverAhead
<1>1. FwInit => ClockInv
  BY DEF FwInit, ScanInit, ClockInv
<1>2. ClockInv => ClockNeverAhead
  <2> SUFFICES ASSUME ClockInv, pc \in {"alloc", "ready", "failed"},
                      InRange(rtc)
               PROVE  /\ gpuTime.secs = rtc.secs
                      /\ CivilDays(rtc.year, rtc.month, rtc.day)
                            - gpuTime.days \in 0 .. 30
    BY DEF ClockNeverAhead
  <2>1. gpuTime = [days |-> UnixDays(rtc), secs |-> rtc.secs]
    BY DEF ClockInv
  <2>2. CivilDays(rtc.year, rtc.month, rtc.day) - UnixDays(rtc)
          = rtc.day - 1
    BY FirstOfMonth DEF ClockInv
  <2>3. rtc.day \in 1 .. 31
    BY ClockShowsDates DEF ClockInv
  <2> QED BY <2>1, <2>2, <2>3
<1> QED BY <1>1, <1>2, ClockStep, PTL DEF FwSpec

-----------------------------------------------------------------------------
(* The bridge above the card.                                              *)

LEMMA AddressParts ==
    ASSUME NEW buses, NEW a \in Addresses(buses)
    PROVE  /\ a = At(a.bus, a.dev, a.fn) /\ a.bus \in buses
           /\ a.dev \in 0 .. Devices - 1 /\ a.fn \in 0 .. Functions - 1
BY DEF Addresses, At

Low == 0 .. PortBuses - 1

LEMMA Fields ==
    ASSUME NEW a \in Addresses(Low)
    PROVE  /\ a = At(a.bus, a.dev, a.fn)
           /\ a.bus \in 0 .. 255 /\ a.dev \in 0 .. 31 /\ a.fn \in 0 .. 7
<1>1. /\ a = At(a.bus, a.dev, a.fn) /\ a.bus \in Low
      /\ a.dev \in 0 .. Devices - 1 /\ a.fn \in 0 .. Functions - 1
  BY AddressParts
<1>2. PortBuses \in 1 .. 256 /\ Devices \in 1 .. 32 /\ Functions \in 1 .. 8
  BY AddressesFit
<1>3. a.bus \in 0 .. 255
  <2>1. a.bus \in 0 .. PortBuses - 1
    BY <1>1 DEF Low
  <2>2. \A n \in 1 .. 256 : \A x \in 0 .. n - 1 : x \in 0 .. 255
    OBVIOUS
  <2> QED BY <1>2, <2>1, <2>2
<1>4. a.dev \in 0 .. 31
  BY <1>1, <1>2
<1>5. a.fn \in 0 .. 7
  BY <1>1, <1>2
<1> QED BY <1>1, <1>3, <1>4, <1>5

(* The fields of an address.                                               *)
Canonical(b, d, f) == b * 65536 + d * 256 + f
Compact(b, d, f) == b * 4096 + d * 128 + f * 16

CanonicalHolds(b, d, f) ==
    LET A == Canonical(b, d, f)
    IN A \div 65536 = b /\ (A \div 256) % 256 = d /\ A % 256 = f

CompactHolds(b, d, f) ==
    LET A == Compact(b, d, f)
    IN /\ A % 16 = 0 /\ (A \div 4096) % 256 = b
       /\ (A \div 128) % 32 = d /\ (A \div 16) % 8 = f

LEMMA CanonicalFields ==
    \A b \in 0 .. 255 : \A d \in 0 .. 31 : \A f \in 0 .. 7 :
        CanonicalHolds(b, d, f)
<1> SUFFICES ASSUME NEW b \in 0 .. 255, NEW d \in 0 .. 31, NEW f \in 0 .. 7
             PROVE  CanonicalHolds(b, d, f)
  OBVIOUS
<1> DEFINE A == b * 65536 + d * 256 + f
<1>1. A \div 65536 = b
  OBVIOUS
<1>2. A \div 256 = b * 256 + d
  OBVIOUS
<1>3. (b * 256 + d) % 256 = d
  OBVIOUS
<1>4. A % 256 = f
  OBVIOUS
<1>5. Canonical(b, d, f) = A
  BY DEF Canonical
<1> HIDE DEF A
<1> QED BY <1>1, <1>2, <1>3, <1>4, <1>5 DEF CanonicalHolds

LEMMA CompactFields ==
    \A b \in 0 .. 255 : \A d \in 0 .. 31 : \A f \in 0 .. 7 :
        CompactHolds(b, d, f)
<1> SUFFICES ASSUME NEW b \in 0 .. 255, NEW d \in 0 .. 31, NEW f \in 0 .. 7
             PROVE  CompactHolds(b, d, f)
  OBVIOUS
<1> DEFINE A == b * 4096 + d * 128 + f * 16
<1>1. A % 16 = 0
  OBVIOUS
<1>2. A \div 4096 = b /\ b % 256 = b
  OBVIOUS
<1>3. A \div 128 = b * 32 + d
  OBVIOUS
<1>4. (b * 32 + d) % 32 = d
  OBVIOUS
<1>5. A \div 16 = b * 256 + d * 8 + f
  OBVIOUS
<1>6. (b * 256 + d * 8 + f) % 8 = f
  OBVIOUS
<1>7. Compact(b, d, f) = A
  BY DEF Compact
<1> HIDE DEF A
<1> QED BY <1>1, <1>2, <1>3, <1>4, <1>5, <1>6, <1>7 DEF CompactHolds

(* Only on the very first bus an address is the same in both.              *)
CanonicalAsCompact(b, d, f) ==
    LET A == Canonical(b, d, f)
    IN b = (A \div 4096) % 256 /\ d = (A \div 128) % 32

CompactAsCanonical(b, d, f) == b = Compact(b, d, f) \div 65536

LEMMA CrossedCanonical ==
    \A b \in 0 .. 255 : \A d \in 0 .. 31 : \A f \in 0 .. 7 :
        CanonicalAsCompact(b, d, f) => b = 0
<1> SUFFICES ASSUME NEW b \in 0 .. 255, NEW d \in 0 .. 31, NEW f \in 0 .. 7,
                    CanonicalAsCompact(b, d, f)
             PROVE  b = 0
  OBVIOUS
<1>0. /\ b = (Canonical(b, d, f) \div 4096) % 256
      /\ d = (Canonical(b, d, f) \div 128) % 32
  BY DEF CanonicalAsCompact
<1> DEFINE A == b * 65536 + d * 256 + f
<1>1. Canonical(b, d, f) = A
  BY DEF Canonical
<1>2. A \div 128 = b * 512 + d * 2
  OBVIOUS
<1>3. (b * 512 + d * 2) % 32 = (d * 2) % 32
  OBVIOUS
<1>4. d = (d * 2) % 32
  <2> HIDE DEF A
  <2> QED BY <1>0, <1>1, <1>2, <1>3
<1>5. d = 0
  BY <1>4
<1>6. A \div 4096 = b * 16
  BY <1>5
<1>7. b = (b * 16) % 256
  <2> HIDE DEF A
  <2> QED BY <1>0, <1>1, <1>6
<1> QED BY <1>7

LEMMA CrossedCompact ==
    \A b \in 0 .. 255 : \A d \in 0 .. 31 : \A f \in 0 .. 7 :
        CompactAsCanonical(b, d, f) => b = 0
BY DEF Compact, CompactAsCanonical

(* The layout an address is decoded with is the one it was encoded with.   *)
SameLayout(layout, e) == layout = "canonical" <=> e = 0

LEMMA Powers ==
    2^16 = 65536 /\ 2^12 = 4096 /\ 2^8 = 256 /\ 2^7 = 128 /\ 2^5 = 32
      /\ 2^4 = 16 /\ 2^3 = 8
OBVIOUS

LEMMA Encoded ==
    ASSUME NEW e, NEW a
    PROVE  Encode(e, a) = IF e = 0 THEN Canonical(a.bus, a.dev, a.fn)
                                   ELSE Compact(a.bus, a.dev, a.fn)
BY Powers DEF Encode, Canonical, Compact

LEMMA Decoded ==
    ASSUME NEW layout, NEW A
    PROVE  Decode(layout, A) =
             IF layout = "canonical"
             THEN {At(A \div 65536, (A \div 256) % 256, A % 256)}
             ELSE IF A % 16 = 0
             THEN {At((A \div 4096) % 256, (A \div 128) % 32, (A \div 16) % 8)}
             ELSE {}
BY Powers DEF Decode

LEMMA DecodesBack ==
    ASSUME NEW layout, NEW e, SameLayout(layout, e), NEW a \in Addresses(Low)
    PROVE  Decode(layout, Encode(e, a)) = {a}
<1>1. /\ a = At(a.bus, a.dev, a.fn)
      /\ a.bus \in 0 .. 255 /\ a.dev \in 0 .. 31 /\ a.fn \in 0 .. 7
  BY Fields
<1>2. CASE e = 0
  <2> DEFINE A == Canonical(a.bus, a.dev, a.fn)
  <2>1. Encode(e, a) = A
    BY <1>2, Encoded
  <2>2. A \div 65536 = a.bus /\ (A \div 256) % 256 = a.dev /\ A % 256 = a.fn
    <3>1. CanonicalHolds(a.bus, a.dev, a.fn)
      BY <1>1, CanonicalFields, Zenon
    <3> QED BY <3>1 DEF CanonicalHolds
  <2>3. Decode(layout, A) = {At(A \div 65536, (A \div 256) % 256, A % 256)}
    BY <1>2, Decoded DEF SameLayout
  <2> HIDE DEF A
  <2> QED BY <1>1, <2>1, <2>2, <2>3
<1>3. CASE e # 0
  <2> DEFINE A == Compact(a.bus, a.dev, a.fn)
  <2>1. Encode(e, a) = A
    BY <1>3, Encoded
  <2>2. /\ A % 16 = 0 /\ (A \div 4096) % 256 = a.bus
        /\ (A \div 128) % 32 = a.dev /\ (A \div 16) % 8 = a.fn
    <3>1. CompactHolds(a.bus, a.dev, a.fn)
      BY <1>1, CompactFields, Zenon
    <3> QED BY <3>1 DEF CompactHolds
  <2>3. Decode(layout, A) =
          {At((A \div 4096) % 256, (A \div 128) % 32, (A \div 16) % 8)}
    BY <1>3, <2>2, Decoded DEF SameLayout
  <2> HIDE DEF A
  <2> QED BY <1>1, <2>1, <2>2, <2>3
<1> QED BY <1>2, <1>3

LEMMA OtherLayout ==
    ASSUME NEW layout, NEW e, ~ SameLayout(layout, e),
           NEW a \in Addresses(Low), a \in Decode(layout, Encode(e, a))
    PROVE  a.bus = 0
<1>1. a.bus \in 0 .. 255 /\ a.dev \in 0 .. 31 /\ a.fn \in 0 .. 7
  BY Fields
<1>2. CASE e = 0
  <2> DEFINE A == Canonical(a.bus, a.dev, a.fn)
  <2>1. Encode(e, a) = A
    BY <1>2, Encoded
  <2> HIDE DEF A
  <2>2. a = At((A \div 4096) % 256, (A \div 128) % 32, (A \div 16) % 8)
    BY <1>2, <2>1, Decoded DEF SameLayout
  <2>3. a.bus = (A \div 4096) % 256 /\ a.dev = (A \div 128) % 32
    BY <2>2 DEF At
  <2>4. CanonicalAsCompact(a.bus, a.dev, a.fn)
    BY <2>3 DEF A, CanonicalAsCompact
  <2> QED BY <1>1, <2>4, CrossedCanonical, Zenon
<1>3. CASE e # 0
  <2> DEFINE A == Compact(a.bus, a.dev, a.fn)
  <2>1. Encode(e, a) = A
    BY <1>3, Encoded
  <2> HIDE DEF A
  <2>2. a = At(A \div 65536, (A \div 256) % 256, A % 256)
    BY <1>3, <2>1, Decoded DEF SameLayout
  <2>3. a.bus = A \div 65536
    BY <2>2 DEF At
  <2>4. CompactAsCanonical(a.bus, a.dev, a.fn)
    BY <2>3 DEF A, CompactAsCanonical
  <2> QED BY <1>1, <2>4, CrossedCompact, Zenon
<1> QED BY <1>2, <1>3

(* The machine at hand.                                                    *)
Bridges == {f \in platform.functions : f.kind = "bridge"}

LEMMA BridgesAreNumbered ==
    ASSUME platform \in Platforms
    PROVE  /\ \A f \in Bridges :
                 /\ f.sec \in 0 .. PortBuses - 1
                 /\ f.at \in Addresses(0 .. f.sec - 1)
                 /\ f.at.fn = 0 \/ \E g \in platform.functions :
                                       g.at = [f.at EXCEPT !.fn = 0] /\ g.multi
           /\ \A f, g \in Bridges :
                 /\ f.sec = g.sec => f = g
                 /\ g.sec = f.at.bus /\ f.decodes =>
                       g.decodes /\ f.window \subseteq g.window
           /\ \A f \in platform.functions : f.window # {} => f \in Bridges
           /\ \A c \in Cards : \A f, g \in Bridges :
                 g.sec = c.at.bus => f.at.bus # c.at.bus
BY BusesAreNumbered DEF Bridges, Cards

LEMMA RootsServe ==
    ASSUME platform \in Platforms
    PROVE  /\ DOMAIN platform.roots = 1 .. Len(platform.roots)
           /\ Len(platform.roots) \in Nat
           /\ \A q, r \in DOMAIN platform.roots :
                 platform.roots[q].layout = platform.roots[r].layout
<1>1. platform.roots \in
        Seq([layout : {"canonical", "compact"}, buses : SUBSET Nat])
  BY BusesAreNumbered
<1>2. /\ DOMAIN platform.roots = 1 .. Len(platform.roots)
      /\ Len(platform.roots) \in Nat
  BY <1>1
<1> QED BY <1>2, BusesAreNumbered

(* Inductive: the way to the card stays one of those there are, and the    *)
(* bridge is one that leads to the bus of the card, unless there is none.  *)
BridgeInv ==
    /\ enc \in {0, 1, 2}
    /\ enc # 2 => gRb \in DOMAIN platform.roots
    /\ pc \in AfterHit => gpu \in Addresses(Low)
    /\ pc # "planned" => bridge = NoBridge
    /\ pc = "planned" =>
          \/ bridge = NoBridge /\ \A r \in Roots : BridgesTo(r) = {}
          \/ \E r \in Roots : \E a \in BridgesTo(r) :
                bridge = [root |-> r, at |-> a]

LEMMA BridgeInitial == FwInit => BridgeInv
<1> SUFFICES ASSUME FwInit PROVE BridgeInv
  OBVIOUS
<1>1. /\ pc = "pass" /\ bridge = NoBridge /\ platform \in Platforms
      /\ gRb = IF platform.roots = << >> THEN 0 ELSE 1
      /\ enc = IF platform.roots = << >> THEN 2 ELSE 0
  BY DEF FwInit, ScanInit
<1>2. platform.roots # << >> => 1 \in DOMAIN platform.roots
  <2>1. platform.roots \in
          Seq([layout : {"canonical", "compact"}, buses : SUBSET Nat])
    BY <1>1, BusesAreNumbered
  <2> QED BY <2>1
<1> QED BY <1>1, <1>2 DEF BridgeInv, AfterHit, Steps

(* The hit is at an address of one of the buses that are looked at.        *)
LEMMA HitIsLow ==
    ASSUME Hit, enc \in {0, 1, 2} PROVE gpu' \in Addresses(Low)
<1>1. /\ PortBuses \in 1 .. 256 /\ SweepBuses \in 1 .. PortBuses
      /\ Devices \in 1 .. 32 /\ Functions \in 1 .. 8
      /\ FastList \in Seq(0 .. PortBuses - 1)
  BY AddressesFit
<1>2. CASE \E i \in FastHits : gpu' = At(FastList[i], 0, 0)
  <2>1. PICK i \in DOMAIN FastList : gpu' = At(FastList[i], 0, 0)
    BY <1>2 DEF FastHits
  <2>2. FastList[i] \in Low
    BY <1>1, <2>1 DEF Low
  <2>3. 0 \in 0 .. Devices - 1 /\ 0 \in 0 .. Functions - 1
    BY <1>1
  <2> QED BY <2>1, <2>2, <2>3 DEF Addresses
<1>3. CASE gpu' \in Firsts(SweepHits)
  <2>1. gpu' \in Addresses(PassBuses)
    BY <1>3 DEF Firsts, SweepHits, Scanned
  <2>2. PassBuses \subseteq Low
    BY <1>1 DEF PassBuses, Low
  <2> QED BY <2>1, <2>2 DEF Addresses
<1> QED BY <1>2, <1>3 DEF Hit

LEMMA BridgeQuiet ==
    ASSUME BridgeInv, UNCHANGED <<platform, gRb, enc, gpu, bridge>>,
           pc \in AfterHit, pc # "planned", pc' # "planned"
    PROVE  BridgeInv'
BY DEF BridgeInv, Addresses, Low

LEMMA BridgeStep == ScanInv /\ BridgeInv /\ [FwNext]_fwVars => BridgeInv'
<1> SUFFICES ASSUME ScanInv, BridgeInv, [FwNext]_fwVars PROVE BridgeInv'
  OBVIOUS
<1>1. CASE Hit
  <2>1. /\ pc = "pass" /\ pc' = "found"
        /\ UNCHANGED <<platform, gRb, enc, bridge>>
    BY <1>1 DEF Hit
  <2>2. gpu' \in Addresses(Low)
    BY <1>1, HitIsLow DEF BridgeInv
  <2> QED BY <2>1, <2>2 DEF BridgeInv, Addresses, Low
<1>2. CASE Miss
  <2>1. /\ pc = "pass" /\ pc' \in {"pass", "absent"}
        /\ UNCHANGED <<platform, gpu, bridge>>
    BY <1>2 DEF Miss
  <2>2. /\ DOMAIN platform.roots = 1 .. Len(platform.roots)
        /\ Len(platform.roots) \in Nat
    BY RootsServe DEF ScanInv
  <2>3. enc' \in {0, 1, 2} /\ (enc' # 2 => gRb' \in DOMAIN platform.roots)
    BY <1>2, <2>2 DEF Miss, BridgeInv
  <2> QED BY <2>1, <2>3 DEF BridgeInv, AfterHit
<1>3. CASE ReadBar
  BY <1>3, BridgeQuiet DEF ReadBar, AfterHit, Steps
<1>4. CASE WriteCommand
  BY <1>4, BridgeQuiet DEF WriteCommand, AfterHit, Steps
<1>5. CASE ReadBack
  BY <1>5, BridgeQuiet DEF ReadBack, AfterHit, Steps
<1>6. CASE FindBridge({"usable", "ready"})
  <2>1. /\ pc \in {"usable", "ready"} /\ pc' = "planned"
        /\ UNCHANGED <<platform, gRb, enc, gpu>>
    BY <1>6 DEF FindBridge
  <2>2. bridge = NoBridge
    BY <2>1 DEF BridgeInv
  <2>3. Roots' = Roots
    BY <2>1 DEF Roots
  <2>4. \A r : BridgesTo(r)' = BridgesTo(r)
    BY <2>1 DEF BridgesTo, Scanned, Reach, BelowCard, Addresses
  <2>5. \/ bridge' = NoBridge /\ \A r \in Roots : BridgesTo(r) = {}
        \/ \E r \in Roots : \E a \in BridgesTo(r) :
              bridge' = [root |-> r, at |-> a]
    BY <1>6, <2>2 DEF FindBridge, Firsts
  <2>6. (\/ bridge = NoBridge /\ \A r \in Roots : BridgesTo(r) = {}
         \/ \E r \in Roots : \E a \in BridgesTo(r) :
               bridge = [root |-> r, at |-> a])'
    BY <2>3, <2>4, <2>5 DEF NoBridge
  <2>7. gpu' \in Addresses(Low)
    BY <2>1 DEF BridgeInv, AfterHit, Steps
  <2> QED BY <2>1, <2>6, <2>7 DEF BridgeInv, Addresses, Low
<1>7. CASE SetTime
  BY <1>7, BridgeQuiet DEF SetTime, AfterHit, Steps
<1>8. CASE Allocate
  <2>1. /\ pc = "alloc" /\ pc' # "planned"
        /\ UNCHANGED <<platform, gRb, enc, gpu, bridge>>
    BY <1>8 DEF Allocate
  <2> QED BY <2>1, BridgeQuiet DEF AfterHit, Steps
<1>9. CASE GiveUp
  BY <1>9, BridgeQuiet DEF GiveUp, AfterHit, Steps
<1>10. CASE UNCHANGED fwVars
  <2>1. UNCHANGED <<pc, platform, gRb, enc, gpu, bridge>>
    BY <1>10 DEF fwVars, scanVars
  <2>2. Roots' = Roots
    BY <2>1 DEF Roots
  <2>3. \A r : BridgesTo(r)' = BridgesTo(r)
    BY <2>1 DEF BridgesTo, Scanned, Reach, BelowCard, Addresses
  <2>4. (\/ bridge = NoBridge /\ \A r \in Roots : BridgesTo(r) = {}
         \/ \E r \in Roots : \E a \in BridgesTo(r) :
               bridge = [root |-> r, at |-> a])'
          = (\/ bridge = NoBridge /\ \A r \in Roots : BridgesTo(r) = {}
             \/ \E r \in Roots : \E a \in BridgesTo(r) :
                   bridge = [root |-> r, at |-> a])
    BY <2>1, <2>2, <2>3 DEF NoBridge
  <2> QED BY <2>1, <2>4 DEF BridgeInv, Addresses, Low
<1> QED
  BY <1>1, <1>2, <1>3, <1>4, <1>5, <1>6, <1>7, <1>8, <1>9, <1>10
  DEF FwNext, ScanNext

(* With the layout the card was found with, a root bridge, or the ports,   *)
(* reach what is at an address on the buses they serve.                    *)
Direct ==
    enc = 2 \/ \A r \in DOMAIN platform.roots :
                   SameLayout(platform.roots[r].layout, enc)

Serves(r, b) == enc = 2 \/ b \in platform.roots[r].buses

LEMMA DirectReach ==
    ASSUME platform \in Platforms, Direct, NEW r \in Roots,
           NEW a \in Addresses(Low), Serves(r, a.bus)
    PROVE  Reach(r, enc, a) = {f \in platform.functions : f.at = a}
<1>1. CASE enc = 2
  BY <1>1 DEF Reach
<1>2. CASE enc # 2
  <2>1. r \in DOMAIN platform.roots /\ r > 0
    BY <1>2, RootsServe DEF Roots
  <2>2. Decode(platform.roots[r].layout, Encode(enc, a)) = {a}
    BY <1>2, <2>1, DecodesBack DEF Direct
  <2>3. a.bus \in platform.roots[r].buses
    BY <1>2 DEF Serves
  <2> QED BY <1>2, <2>1, <2>2, <2>3 DEF Reach
<1> QED BY <1>1, <1>2

(* What is known of the card and its bridge once they are looked for.      *)
Planned == pc = "planned" /\ Faithful /\ ScanInv /\ BridgeInv

LEMMA TheCard ==
    ASSUME Planned
    PROVE  /\ platform \in Platforms /\ gpu \in Addresses(Low)
           /\ \E c \in Cards : c.at = gpu /\ Reach(gRb, enc, gpu) = {c}
           /\ Parents = {f \in Bridges : f.sec = gpu.bus}
<1>1. /\ platform \in Platforms /\ gpu \in Addresses(Low)
      /\ Reach(gRb, enc, gpu) # {} /\ Reach(gRb, enc, gpu) \subseteq Cards
  BY DEF Planned, ScanInv, BridgeInv, AfterHit, Steps
<1>2. PICK c \in Reach(gRb, enc, gpu) : TRUE
  BY <1>1
<1>3. c \in Cards /\ c.at = gpu
  BY <1>1, <1>2 DEF Planned, Faithful
<1>4. Reach(gRb, enc, gpu) = {c}
  BY <1>1, <1>2, ReachIsOne
<1>5. Parents = {f \in Bridges : f.sec = gpu.bus}
  BY <1>3, <1>4 DEF Parents, Bridges
<1> QED BY <1>1, <1>3, <1>4, <1>5

LEMMA CardIsDirect ==
    ASSUME Planned, gpu.bus # 0 PROVE Direct
<1>1. PICK c \in Cards : c.at = gpu /\ Reach(gRb, enc, gpu) = {c}
  BY TheCard
<1>2. CASE enc = 2
  BY <1>2 DEF Direct
<1>3. CASE enc # 2
  <2>1. gRb \in DOMAIN platform.roots
    BY <1>3 DEF Planned, BridgeInv
  <2>2. gpu \in Decode(platform.roots[gRb].layout, Encode(enc, gpu))
    BY <1>1, <1>3 DEF Reach
  <2>3. gpu \in Addresses(Low)
    BY TheCard
  <2>4. SameLayout(platform.roots[gRb].layout, enc)
    BY <2>2, <2>3, OtherLayout
  <2> QED BY <2>1, <2>4, TheCard, RootsServe DEF Direct
<1> QED BY <1>2, <1>3

(* A bridge on a bus before the card's is come across in the search, when  *)
(* it is on a bus of a root bridge that is looked at.                      *)
LEMMA BridgeIsMet ==
    ASSUME Planned, NEW f \in Bridges, f.at.bus < gpu.bus, f \in Collected
    PROVE  \E r \in Roots : /\ f.at \in Scanned(r, enc, BelowCard)
                            /\ f \in Reach(r, enc, f.at)
<1>1. /\ f \in platform.functions /\ platform \in Platforms
      /\ gpu \in Addresses(Low)
  BY TheCard DEF Bridges
<1>2. /\ f.sec \in 0 .. PortBuses - 1
      /\ f.at \in Addresses(0 .. f.sec - 1)
      /\ f.at.fn = 0 \/ \E g \in platform.functions :
                            g.at = [f.at EXCEPT !.fn = 0] /\ g.multi
  BY <1>1, BridgesAreNumbered
<1>3. /\ f.at = At(f.at.bus, f.at.dev, f.at.fn)
      /\ f.at.bus \in 0 .. f.sec - 1
      /\ f.at.dev \in 0 .. Devices - 1 /\ f.at.fn \in 0 .. Functions - 1
  BY <1>2, AddressParts
<1>4. /\ PortBuses \in 1 .. 256 /\ Functions \in 1 .. 8
  BY AddressesFit
<1>5. gpu.bus \in 0 .. 255
  BY <1>1, Fields
<1>6. f.at.bus \in Low /\ f.at.bus \in BelowCard /\ f.at.bus \in Int
  <2>1. f.at.bus \in 0 .. f.sec - 1 /\ f.sec \in 0 .. PortBuses - 1
    BY <1>2, <1>3
  <2>2. ASSUME NEW n \in Int, NEW s \in 0 .. n - 1, NEW b \in 0 .. s - 1
        PROVE  b \in 0 .. n - 1 /\ b \in Int /\ 0 <= b
    OBVIOUS
  <2>3. f.at.bus \in 0 .. PortBuses - 1 /\ f.at.bus \in Int /\ 0 <= f.at.bus
    BY <2>1, <2>2, <1>4
  <2>4. f.at.bus \in 0 .. gpu.bus - 1
    BY <2>3, <1>5
  <2> QED BY <2>3, <2>4 DEF Low, BelowCard
<1> DEFINE head == [f.at EXCEPT !.fn = 0]
<1>7. head = At(f.at.bus, f.at.dev, 0) /\ head.bus = f.at.bus
  BY <1>3 DEF At
<1>8. 0 \in 0 .. Functions - 1
  BY <1>4
<1>9. f.at \in Addresses(Low) /\ f.at \in Addresses(BelowCard)
  BY <1>3, <1>6 DEF Addresses
<1>10. head \in Addresses(Low)
  BY <1>3, <1>6, <1>7, <1>8 DEF Addresses
<1>11. PICK r \in Roots : Serves(r, f.at.bus)
  <2>1. CASE enc = 2
    BY <2>1 DEF Roots, Serves
  <2>2. CASE enc # 2
    <3>1. PICK r \in Roots : f.at.bus \in platform.roots[r].buses
      BY <2>2 DEF Collected
    <3> QED BY <3>1 DEF Serves
  <2> QED BY <2>1, <2>2
<1>12. Direct
  <2>1. gpu.bus # 0
    BY <1>3, <1>5, <1>6
  <2> QED BY <2>1, CardIsDirect
<1>13. Reach(r, enc, f.at) = {g \in platform.functions : g.at = f.at}
  BY <1>1, <1>9, <1>11, <1>12, DirectReach
<1>14. Reach(r, enc, head) = {g \in platform.functions : g.at = head}
  <2> HIDE DEF head
  <2> QED BY <1>1, <1>7, <1>10, <1>11, <1>12, DirectReach
<1>15. f \in Reach(r, enc, f.at)
  BY <1>1, <1>13
<1>16. f.at.fn = 0 \/ \E g \in Reach(r, enc, head) : g.multi
  BY <1>2, <1>14
<1>17. f.at \in Scanned(r, enc, BelowCard)
  BY <1>9, <1>15, <1>16 DEF Scanned
<1> QED BY <1>15, <1>17

LEMMA ChosenIsParent ==
    ASSUME Planned, NEW r \in Roots, NEW a \in BridgesTo(r)
    PROVE  \E f \in Bridges : Reach(r, enc, a) = {f} /\ Parents = {f}
<1>1. PICK f \in Reach(r, enc, a) : f.kind = "bridge" /\ f.sec = gpu.bus
  BY DEF BridgesTo
<1>2. platform \in Platforms
  BY TheCard
<1>3. f \in Bridges
  BY <1>1 DEF Bridges, Reach
<1>4. Reach(r, enc, a) = {f}
  BY <1>1, <1>2, ReachIsOne
<1>5. Parents = {f}
  BY <1>1, <1>2, <1>3, TheCard, BridgesAreNumbered
<1> QED BY <1>3, <1>4, <1>5

LEMMA RootsAreNoneOfNoBridge ==
    ASSUME platform \in Platforms, NEW r \in Roots, NEW a
    PROVE  [root |-> r, at |-> a] # NoBridge
<1>1. r # 0
  BY RootsServe DEF Roots
<1> QED BY <1>1 DEF NoBridge

LEMMA PlannedParent == Planned => ParentIsFound
<1> SUFFICES ASSUME Planned
             PROVE  IF bridge = NoBridge THEN Parents \cap Collected = {}
                                         ELSE Chosen = Parents
  BY DEF ParentIsFound
<1>1. CASE bridge = NoBridge /\ \A r \in Roots : BridgesTo(r) = {}
  <2> SUFFICES ASSUME NEW f \in Parents, f \in Collected PROVE FALSE
    BY <1>1
  <2>1. f \in Bridges /\ f.sec = gpu.bus /\ platform \in Platforms
    BY TheCard
  <2>2. f.at \in Addresses(0 .. f.sec - 1) /\ f.sec \in 0 .. PortBuses - 1
    BY <2>1, BridgesAreNumbered
  <2>3. f.at.bus \in 0 .. f.sec - 1
    BY <2>2, AddressParts
  <2>4. f.at.bus < gpu.bus
    BY <2>1, <2>2, <2>3
  <2>5. PICK r \in Roots : /\ f.at \in Scanned(r, enc, BelowCard)
                           /\ f \in Reach(r, enc, f.at)
    BY <2>1, <2>4, BridgeIsMet
  <2>6. f.at \in BridgesTo(r)
    BY <2>1, <2>5 DEF BridgesTo, Bridges
  <2> QED BY <1>1, <2>6
<1>2. CASE \E r \in Roots : \E a \in BridgesTo(r) : bridge = [root |-> r, at |-> a]
  <2>0. PICK r \in Roots : \E a \in BridgesTo(r) :
                              bridge = [root |-> r, at |-> a]
    BY <1>2
  <2>1. PICK a \in BridgesTo(r) : bridge = [root |-> r, at |-> a]
    BY <2>0
  <2>2. bridge # NoBridge
    BY <2>1, TheCard, RootsAreNoneOfNoBridge
  <2>3. Chosen = Parents
    BY <2>1, ChosenIsParent DEF Chosen
  <2> QED BY <2>2, <2>3
<1> QED BY <1>1, <1>2 DEF Planned, BridgeInv

(* A window that is not seen would be that of a bridge behind another one  *)
(* whose window is not seen either; there is no first one.                 *)
LEMMA PlannedWindows == Planned => WindowsAreSeen
<1> SUFFICES ASSUME Planned, bridge # NoBridge,
                    \A f \in platform.functions : f.at.bus \in RootBuses =>
                        f.at.bus < gpu.bus /\ f \in Collected,
                    NEW bad \in platform.functions \ Parents,
                    bad.decodes, ~ bad.window \subseteq Checked
             PROVE  FALSE
  BY DEF WindowsAreSeen
<1> DEFINE Hidden(f) == /\ f \in platform.functions \ Parents /\ f.decodes
                        /\ ~ f.window \subseteq Checked
           S == {f.at.bus : f \in {g \in platform.functions : Hidden(g)}}
<1>0. platform \in Platforms
  BY TheCard
<1>1. ASSUME NEW f, Hidden(f)
      PROVE  /\ f \in Bridges /\ f.at.bus \in Nat
             /\ f.sec \in Nat /\ f.at.bus < f.sec
  <2>1. f \in Bridges
    BY <1>0, <1>1, BridgesAreNumbered
  <2>2. f.sec \in 0 .. PortBuses - 1 /\ f.at \in Addresses(0 .. f.sec - 1)
    BY <1>0, <2>1, BridgesAreNumbered
  <2>3. f.at.bus \in 0 .. f.sec - 1
    BY <2>2, AddressParts
  <2> QED BY <2>1, <2>2, <2>3
<1>2. PICK f : Hidden(f) /\ \A g : Hidden(g) => f.at.bus <= g.at.bus
  <2>1. S \in SUBSET Nat
    BY <1>1
  <2>2. bad.at.bus \in S
    OBVIOUS
  <2>3. PICK x \in S : \A y \in S : x <= y
    BY <2>1, <2>2, LeastNumber
  <2>4. PICK f \in platform.functions : Hidden(f) /\ f.at.bus = x
    BY <2>3
  <2>5. \A g : Hidden(g) => g.at.bus \in S
    OBVIOUS
  <2> QED BY <2>3, <2>4, <2>5
<1>3. /\ f \in Bridges /\ f \in platform.functions /\ f \notin Parents
      /\ f.at.bus \in Nat /\ f.decodes /\ ~ f.window \subseteq Checked
  BY <1>1, <1>2
<1>4. CASE f.at.bus \in RootBuses
  <2>0. f.at.bus < gpu.bus /\ f \in Collected
    BY <1>3, <1>4
  <2>1. PICK r \in Roots : /\ f.at \in Scanned(r, enc, BelowCard)
                           /\ f \in Reach(r, enc, f.at)
    BY <1>3, <2>0, BridgeIsMet
  <2>2. CASE r # bridge.root \/ f.at # bridge.at
    <3>1. f \in Seen
      BY <1>3, <2>1, <2>2 DEF Seen
    <3> QED BY <1>3, <3>1 DEF Checked
  <2>3. CASE r = bridge.root /\ f.at = bridge.at
    <3>0. PICK q \in Roots : \E a \in BridgesTo(q) :
                                bridge = [root |-> q, at |-> a]
      BY DEF Planned, BridgeInv
    <3>1. PICK a \in BridgesTo(q) : bridge = [root |-> q, at |-> a]
      BY <3>0
    <3>2. f \in Reach(q, enc, a)
      BY <2>1, <2>3, <3>1
    <3>3. f \in Parents
      BY <3>1, <3>2, ChosenIsParent
    <3> QED BY <1>3, <3>3
  <2> QED BY <2>2, <2>3
<1>5. CASE f.at.bus \notin RootBuses
  <2>2. PICK g \in Bridges : g.sec = f.at.bus
    BY <1>3, <1>5 DEF RootBuses, Bridges
  <2>3. g.decodes /\ f.window \subseteq g.window
    BY <1>0, <1>3, <2>2, BridgesAreNumbered
  <2>4. g \notin Parents
    <3>1. PICK c \in Cards : c.at = gpu
      BY TheCard
    <3>2. g.sec # c.at.bus
      BY <1>0, <1>3, <2>2, BridgesAreNumbered
    <3> QED BY <2>2, <3>1, <3>2, TheCard
  <2>5. Hidden(g)
    BY <1>3, <2>2, <2>3, <2>4 DEF Bridges
  <2>6. f.at.bus <= g.at.bus
    BY <1>2, <2>5
  <2>7. g.at.bus \in Nat /\ g.at.bus < f.at.bus
    BY <1>1, <2>2, <2>5
  <2> QED BY <1>3, <2>6, <2>7
<1> QED BY <1>4, <1>5

(* On any machine whose buses are numbered and where the card is at the    *)
(* address recorded for it: the bridge the resize works on is the one      *)
(* above the card, and it is found whenever the card is behind one that is *)
(* on the buses of one of the first MaxRoots root bridges, or the card was *)
(* found through the ports.                                                *)
THEOREM BridgeIsTheParent == FwSpec => []ParentIsFound
<1>1. ScanInv /\ BridgeInv => ParentIsFound
  BY PlannedParent DEF Planned, ParentIsFound
<1> QED
  BY <1>1, ScanInitial, ScanStep, BridgeInitial, BridgeStep, PTL DEF FwSpec

(* On such a machine, when all that is on a root bus is below the bus of   *)
(* the card and behind a root bridge that is looked at, no address is      *)
(* taken for free that another bridge decodes, also one behind bridges     *)
(* that are not looked at.                                                 *)
THEOREM BridgeWindowsSeen == FwSpec => []WindowsAreSeen
<1>1. ScanInv /\ BridgeInv => WindowsAreSeen
  BY PlannedWindows DEF Planned, WindowsAreSeen
<1> QED
  BY <1>1, ScanInitial, ScanStep, BridgeInitial, BridgeStep, PTL DEF FwSpec
=============================================================================
