------------------------------- MODULE FwMemory --------------------------------
(***************************************************************************)
(* What the EFI application prepares in memory once the registers of the   *)
(* card are accessible (module PciScan): the time of the card from the     *)
(* clock of the machine, the buffers, the page table of the firmware image *)
(* and the map of the card's memory that goes into the meta data.          *)
(* Addresses and sizes are counted in pages of 4 KiB.                      *)
(***************************************************************************)
EXTENDS PciScan

CONSTANTS
    ClockTimes,      \* what the clock of the machine may show
    MemoryMaps,      \* regions of memory that may be free
    LowPlaces,       \* where AllocateMaxAddress may put a buffer
    ImageSizes,      \* sizes of the firmware image (7163)
    Entries          \* entries of a page of the table (512)

ASSUME TablesHaveEntries ==
    Entries \in Nat \ {0} /\ ImageSizes \subseteq Nat \ {0}

(* The table has one page of the first level.                              *)
ASSUME OnePageOfTables == \A n \in ImageSizes : n <= Entries * Entries

ASSUME PlacesArePages ==
    /\ LowPlaces \subseteq Nat
    /\ MemoryMaps \subseteq SUBSET [lo : Nat, hi : Nat]

(* EFI_TIME as the firmware answers with it.                               *)
ASSUME ClockShowsDates ==
    ClockTimes \subseteq
        [year : Nat, month : 1 .. 12, day : 1 .. 31, secs : Nat]

VARIABLES
    rtc,             \* the clock of the machine
    gpuTime,         \* days and seconds written to the timer of the card
    free,            \* regions the firmware has not given away
    nextSlot,        \* cmp40_next_high_slot
    buffers,         \* first page and length of each, in the order asked for
    image,           \* pages of the firmware image
    table,           \* the pages of the page table
    meta             \* the map of the card's memory

memVars == <<rtc, gpuTime, free, nextSlot, buffers, image, table, meta>>
fwVars == <<scanVars, memVars>>

Purposes == <<"v67", "ucode", "bl", "fw", "radix", "meta">>
RadixBuffer == 5

-----------------------------------------------------------------------------
(* set_gpu_time.                                                           *)

Leap(y) == (y % 4 = 0 /\ y % 100 # 0) \/ y % 400 = 0
MonthDays == <<31, 28, 31, 30, 31, 30, 31, 31, 30, 31, 30, 31>>

DaysToMonth[m \in 1 .. 12] ==
    IF m = 1 THEN 0 ELSE DaysToMonth[m - 1] + MonthDays[m - 1]

DaysToYear[y \in 1970 .. 2100] ==
    IF y = 1970 THEN 0
    ELSE DaysToYear[y - 1] + (IF Leap(y - 1) THEN 366 ELSE 365)

(* Mutant: a leap year has its additional day from January on.             *)
UnixDaysMutant(t) ==
    DaysToYear[t.year] + DaysToMonth[t.month] + (IF Leap(t.year) THEN 1 ELSE 0)

(* The day of the month does not enter.                                    *)
UnixDays(t) ==
    DaysToYear[t.year] + DaysToMonth[t.month]
        + (IF t.month > 2 /\ Leap(t.year) THEN 1 ELSE 0)

InRange(t) == t.year >= 2015 /\ t.year < 2100

(* 1787011200 s.                                                           *)
Fallback == [days |-> 20683, secs |-> 0]

SetTime ==
    /\ pc = "usable" /\ pc' = "alloc"
    /\ gpuTime' = IF InRange(rtc)
                  THEN [days |-> UnixDays(rtc), secs |-> rtc.secs]
                  ELSE Fallback
    /\ UNCHANGED <<platform, gRb, enc, gpu, written, bridge, rtc, free,
                   nextSlot, buffers, image, table, meta>>

-----------------------------------------------------------------------------
(* The buffers.                                                            *)

Up(n, k) == (n + k - 1) \div k

(* Mutant: the last, partly filled page of entries is forgotten.           *)
TablesMutant(n) == 2 + n \div Entries

(* The root, the page of the first level, and the second level.            *)
Tables(n) == 2 + Up(n, Entries)

PagesFor(purpose) ==
    IF purpose = "fw" THEN image
    ELSE IF purpose = "radix" THEN Tables(image) + image
    ELSE [v67 |-> 16, ucode |-> 15, bl |-> 6, meta |-> 1][purpose]

Last(b) == b.at + b.pages - 1
Apart(b, c) == Last(b) < c.at \/ Last(c) < b.at

(* AllocatePages: the pages are free, and not given away yet.              *)
Fits(b) ==
    /\ \E r \in free : r.lo <= b.at /\ Last(b) <= r.hi
    /\ \A c \in DOMAIN buffers : Apart(b, buffers[c])

Moving == {nextSlot + i * 4096 : i \in 0 .. 11}
StaticSlots == {1703936, 1835008, 1966080}

Lowest(S) == {a \in S : \A b \in S : a <= b}

Fitting(n, S) == {a \in S : Fits([at |-> a, pages |-> n])}

(* alloc_fwsec_buffer: the first place of a moving series of slots, 16 MiB *)
(* apart, else of three fixed ones, else a place below 4 GiB.  Only after  *)
(* the first the series moves on.                                          *)
Places(n) ==
    IF Fitting(n, Moving) # {} THEN Lowest(Fitting(n, Moving))
    ELSE IF Fitting(n, StaticSlots) # {} THEN Lowest(Fitting(n, StaticSlots))
    ELSE Fitting(n, LowPlaces)

(* u40x_build_radix: entries hold page addresses, 0 for none.              *)
Radix(at, n) ==
    LET entry(p, i) ==
            IF p = 0 THEN (IF i = 0 THEN at + 1 ELSE 0)
            ELSE IF p = 1 THEN (IF i < Tables(n) - 2 THEN at + 2 + i ELSE 0)
            ELSE IF (p - 2) * Entries + i < n
                 THEN at + Tables(n) + (p - 2) * Entries + i
            ELSE 0
    IN [p \in 0 .. Tables(n) - 1 |-> [i \in 0 .. Entries - 1 |-> entry(p, i)]]

Down(v, k) == v - (v % k)

(* Mutant: the image ends where the boot loader of the GSP does.           *)
WprMetaMutant(fb, elf, bl) ==
    LET vga == fb - 256
        wprEnd == Down(vga, 32)
        frts == wprEnd - 256
        fw == Down(frts - elf, 16)
        heapSize == IF fb = 2621440 THEN 32512 ELSE 26880
        heap == Down(fw - heapSize, 256)
    IN [fb |-> fb, vga |-> vga, wprEnd |-> wprEnd, frts |-> frts,
        bootBin |-> frts - bl, fw |-> fw, heapSize |-> heapSize,
        heap |-> heap, wprStart |-> heap - 256, nonWpr |-> heap - 512]

(* build_wpr_meta: from the end of the memory downwards 1 MiB for VGA, the *)
(* protected region up to a multiple of 128 KiB with 1 MiB for FRTS, the   *)
(* boot loader, the image at a multiple of 64 KiB, a heap at a multiple of *)
(* 1 MiB whose size the 10 GB card sets apart, and 1 MiB each for the meta *)
(* data and the heap outside.                                              *)
WprMeta(fb, elf, bl) ==
    LET vga == fb - 256
        wprEnd == Down(vga, 32)
        frts == wprEnd - 256
        bootBin == frts - bl
        fw == Down(bootBin - elf, 16)
        heapSize == IF fb = 2621440 THEN 32512 ELSE 26880
        heap == Down(fw - heapSize, 256)
    IN [fb |-> fb, vga |-> vga, wprEnd |-> wprEnd, frts |-> frts,
        bootBin |-> bootBin, fw |-> fw, heapSize |-> heapSize,
        heap |-> heap, wprStart |-> heap - 256, nonWpr |-> heap - 512]

EightGB == 2097152

(* efi_main [6], [7]: the buffers one after the other; the table is filled *)
(* when its buffer is there, the map of the memory at the end.             *)
Allocate ==
    /\ pc = "alloc"
    /\ LET purpose == Purposes[Len(buffers) + 1]
           n == PagesFor(purpose)
       IN /\ \E a \in Places(n) :
                /\ nextSlot' = IF Fitting(n, Moving) # {} THEN a + n + 4096
                                                          ELSE nextSlot
                /\ buffers' = Append(buffers, [at |-> a, pages |-> n])
                /\ table' = IF purpose = "radix" THEN Radix(a, image) ELSE table
          /\ IF purpose = "meta"
             THEN /\ meta' = WprMeta(EightGB, image, PagesFor("bl"))
                  /\ pc' = "ready"
             ELSE UNCHANGED <<meta, pc>>
    /\ UNCHANGED <<platform, gRb, enc, gpu, written, bridge, rtc, gpuTime,
                   free, image>>

(* Without one of the buffers the unlock is given up.                      *)
GiveUp ==
    /\ pc = "alloc" /\ pc' = "failed"
    /\ Places(PagesFor(Purposes[Len(buffers) + 1])) = {}
    /\ UNCHANGED <<platform, gRb, enc, gpu, written, bridge, memVars>>

-----------------------------------------------------------------------------
FwInit ==
    /\ ScanInit
    /\ rtc \in ClockTimes /\ free \in MemoryMaps /\ image \in ImageSizes
    /\ gpuTime = [days |-> 0, secs |-> 0]
    /\ nextSlot = 1114112
    /\ buffers = << >> /\ table = << >> /\ meta = << >>

(* An unlocked card needs no buffers; the resize follows in any case.      *)
FwNext ==
    \/ ScanNext /\ UNCHANGED memVars
    \/ FindBridge({"usable", "ready"}) /\ UNCHANGED memVars
    \/ SetTime
    \/ Allocate
    \/ GiveUp

FwSpec == FwInit /\ [][FwNext]_fwVars

-----------------------------------------------------------------------------
(* Properties.                                                             *)

(* Days since 1970 in the Gregorian calendar, counted in years that begin  *)
(* in March and in cycles of 400 of them.                                  *)
CivilDays(y, m, d) ==
    LET year == IF m > 2 THEN y ELSE y - 1
        inCycle == year % 400
        inYear == (153 * (IF m > 2 THEN m - 3 ELSE m + 9) + 2) \div 5 + d - 1
    IN (year \div 400) * 146097 + inCycle * 365 + inCycle \div 4
         - inCycle \div 100 + inYear - 719468

(* A clock in the range that is accepted gives the card its own time of    *)
(* day on the first of its month: never ahead, behind by less than a month.*)
ClockNeverAhead ==
    pc \notin {"alloc", "ready", "failed"} \/ ~ InRange(rtc) \/
        /\ gpuTime.secs = rtc.secs
        /\ CivilDays(rtc.year, rtc.month, rtc.day) - gpuTime.days \in 0 .. 30

(* The page an entry holds, and where the levels lead for page i.          *)
Entry(page, i) ==
    LET p == page - buffers[RadixBuffer].at
    IN IF p \in DOMAIN table THEN table[p][i] ELSE 0

Walk(i) ==
    LET root == buffers[RadixBuffer].at
    IN Entry(Entry(Entry(root, 0), i \div Entries), i % Entries)

(* Walking the three levels leads from every page of the image to its copy *)
(* behind the tables, inside the buffer, where no other buffer is.         *)
TablesReachData ==
    pc = "ready" =>
        LET own == buffers[RadixBuffer] IN
        /\ \A i \in 0 .. image - 1 :
              /\ Walk(i) = own.at + Tables(image) + i
              /\ Walk(i) <= Last(own)
        /\ \A p \in DOMAIN buffers \ {RadixBuffer} : Apart(own, buffers[p])

(* From the heap outside the protected region up to the end of the memory, *)
(* no part of the map reaches into the next.                               *)
Ordered(w, elf, bl) ==
    /\ w.nonWpr + 256 <= w.wprStart
    /\ w.wprStart + 256 <= w.heap
    /\ w.heap + w.heapSize <= w.fw
    /\ w.fw + elf <= w.bootBin
    /\ w.bootBin + bl <= w.frts
    /\ w.frts + 256 <= w.wprEnd
    /\ w.wprEnd <= w.vga /\ w.vga + 256 = w.fb

Aligned(w) ==
    /\ w.fw % 16 = 0 /\ w.wprEnd % 32 = 0
    /\ w.heap % 256 = 0 /\ w.wprStart % 256 = 0

(* The parts of the card's memory lie in order, apart and aligned.         *)
LayoutFits ==
    pc = "ready" => Ordered(meta, image, PagesFor("bl")) /\ Aligned(meta)
=============================================================================
