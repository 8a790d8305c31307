------------------------------ MODULE OlsCalls ------------------------------
(***************************************************************************)
(* The calls of WinRing0.dll (OlsApi.cpp) by the threads of one client,    *)
(* through the driver for Windows NT (OpenLibSys.c, 32 and 64 bit) or the  *)
(* one for Windows 9x (OpenLS.c), down to the hardware.  A call may ask    *)
(* for a processor: the ...Tx functions move the thread, the ...Px         *)
(* functions the process.  Searches of the PCI bus go bus by bus, reads    *)
(* and writes of configuration space on Windows 9x in aligned pieces.      *)
(*                                                                         *)
(* A request carries sizes and places, not values: what counts is whether  *)
(* it reaches the hardware, on which processor, and which bytes it touches.*)
(* The processors, masks and the PCI bus belong to Windows and the machine.*)
(***************************************************************************)
EXTENDS Integers, FiniteSets

CONSTANTS
    Thread,      \* threads of the client
    Cpu,         \* processors of the machine
    Home,        \* the processors each thread has given itself before
    Slot,        \* PCI functions of the machine: <<bus, device, function>>
    BusWidth,    \* size of uint_fast8_t bus (256 in the code)
    MaxCalls     \* bound: calls of all threads together

ASSUME OlsCallsAssumption ==
    /\ Home \in [Thread -> (SUBSET Cpu) \ {{}}]
    /\ BusWidth \in Nat \ {0}
    /\ Slot \subseteq (0..BusWidth - 1) \X Nat \X Nat
    /\ IsFiniteSet(Slot)
    /\ MaxCalls \in Nat

VARIABLES
    platform,    \* the driver: "x64", "x86" (both Windows NT) or "9x"
    able,        \* gHandle, gIsMsr, gIsCpuid, gIsTsc; "pointer": none is null
    matches,     \* functions with the wanted class and vendor/device number
    quiet,       \* those of them whose command and status registers are 0
    multi,       \* devices, <<bus, device>>, with the multi-function bit
    maxBus,      \* gPciMaxNumberOfBus
    processMask, \* affinity of the process
    threadMask,  \* affinity of each thread
    pc, call, saved,        \* where each thread is, its call, the mask saved
    bus, count, found,      \* of a search
    done, ran, ok,          \* bytes touched, processor used, result
    calls,
    \* history, for the properties only
    moved,       \* threads a ...Px call of another thread has moved meanwhile
    usedPx,      \* some ...Px call was made
    overlapped,  \* ... while another call had changed a mask
    steady       \* threads whose search has kept one value of maxBus

machine == <<platform, able, matches, quiet, multi>>
masks   == <<processMask, threadMask>>
hist    == <<moved, usedPx, overlapped, steady>>
vars    == <<machine, maxBus, masks, pc, call, saved, bus, count, found, done,
             ran, ok, calls, hist>>

Nobody  == "nobody"     \* no processor
Unfound == <<>>         \* 0xFFFFFFFF of the two searches

IsNT == platform # "9x"

(* sizeof(ULONG_PTR) in the driver. *)
PtrSize == IF platform = "x64" THEN 8 ELSE 4

-----------------------------------------------------------------------------
(* The functions of the library: control code, bytes in and out, and what  *)
(* is looked at before anything else is done.                              *)

Function(code, in, out, gate) ==
    [code |-> code, in |-> in, out |-> out, gate |-> gate, at |-> 0]

Rdmsr == Function("READ_MSR", 4, 8, {"handle", "pointer", "msr"})
Wrmsr == Function("WRITE_MSR", 12, 4, {"handle", "msr"})
Rdpmc == Function("READ_PMC", 4, 8, {"handle", "pointer"})
Cpuid == Function("none", 0, 0, {"pointer", "cpuid"})
Rdtsc == Function("none", 0, 0, {"pointer", "tsc"})
Hlt   == Function("HALT", 0, 0, {"handle"})
GetDriverVersion == Function("GET_DRIVER_VERSION", 0, 4, {"handle"})

(* A byte is read into a word, and the number of a word or byte port is a  *)
(* word where the driver reads four bytes.                                 *)
ReadIoPort(size) ==
    Function("READ_IO_PORT", IF size = 4 THEN 4 ELSE 2,
             IF size = 4 THEN 4 ELSE 2, {"handle"})

WriteIoPort(size) == Function("WRITE_IO_PORT", 4 + size, 0, {"handle"})

(* Mutant: the alignment is not checked. *)
AlignedMutant(at, size) == TRUE

(* The alignment check of pciConfigRead and pciConfigWrite.  *)
Aligned(at, size) == /\ size = 2 => at % 2 = 0
                     /\ size = 4 => at % 4 = 0

ReadPciConfig(at, size) ==
    [Function("READ_PCI_CONFIG", 8, size, {"handle", "pointer"}) EXCEPT !.at = at]

WritePciConfig(at, size) ==
    [Function("WRITE_PCI_CONFIG", 8 + size, 0, {"handle", "pointer"}) EXCEPT !.at = at]

(* The two searches; gate "handle" only, the vendor number is a real one.  *)
Search(code, index) ==
    [Function(code, index, 0, {"handle"}) EXCEPT !.at = index]

(* These have a ...Tx and a ...Px form that takes a mask.                  *)
Pinnable == {Rdmsr, Wrmsr, Rdpmc, Cpuid, Rdtsc, Hlt}

PciRequests == {ReadPciConfig(at, size) : at \in 0..2, size \in {1, 2, 4}}
                   \cup {WritePciConfig(at, size) : at \in 0..2, size \in {1, 2, 4}}

Searches == {Search(code, index) :
                code \in {"FIND_BY_ID", "FIND_BY_CLASS"}, index \in 0..1}

Plain == Pinnable \cup PciRequests \cup Searches \cup {GetDriverVersion}
             \cup {ReadIoPort(n) : n \in {1, 2, 4}} \cup {WriteIoPort(n) : n \in {1, 2, 4}}

(* How a call asks for its processors. *)
Plainly == [kind |-> "plain", mask |-> {}]

Requests ==
    {[f |-> g, how |-> Plainly] : g \in Plain}
      \cup {[f |-> g, how |-> [kind |-> k, mask |-> m]] :
               g \in Pinnable, k \in {"Tx", "Px"}, m \in (SUBSET Cpu) \ {Cpu}}

IsPci(f)    == f.code \in {"READ_PCI_CONFIG", "WRITE_PCI_CONFIG"}
IsSearch(f) == f.code \in {"FIND_BY_ID", "FIND_BY_CLASS"}
IsIoctl(f)  == f.code # "none" /\ ~ IsSearch(f)

(* Bytes a PCI request is about. *)
Span(f) == IF f.code = "READ_PCI_CONFIG" THEN f.out ELSE f.in - 8

-----------------------------------------------------------------------------
(* The drivers: which requests they pass on to the hardware.               *)

(* BufferSizeCheck asks for room to return what a write is given.          *)
BufferSizeCheck(f, size) == f.in > 0 /\ f.out >= size

NtReadMsr(f)        == f.code \in {"READ_MSR", "READ_PMC"} /\ f.out >= 8
NtWriteMsr(f)       == f.code = "WRITE_MSR" /\ BufferSizeCheck(f, 12)
NtReadIoPort(f)     == f.code = "READ_IO_PORT" /\ BufferSizeCheck(f, PtrSize)
NtWriteIoPort(f)    == f.code = "WRITE_IO_PORT" /\ BufferSizeCheck(f, 8)
NtReadPciConfig(f)  == f.code = "READ_PCI_CONFIG" /\ BufferSizeCheck(f, 8)
NtWritePciConfig(f) == f.code = "WRITE_PCI_CONFIG" /\ f.in >= 8

(* The dispatch of the driver for Windows NT, which never halts.  *)
OlsDispatch(f) ==
    \/ f.code = "GET_DRIVER_VERSION" /\ f.out >= 4
    \/ NtReadMsr(f) \/ NtWriteMsr(f) \/ NtReadIoPort(f) \/ NtWriteIoPort(f)
    \/ NtReadPciConfig(f) \/ NtWritePciConfig(f)

(* The driver for Windows 9x looks at the size of a PCI address only.  It  *)
(* is built without the counters: the Makefile defines neither of the two  *)
(* macros under which they are read.                                       *)
VxdCpu(f)  == f.code \in {"READ_MSR", "WRITE_MSR"}
VxdPort(f) == f.code \in {"READ_IO_PORT", "WRITE_IO_PORT"}
VxdPci(f)  == \/ f.code = "READ_PCI_CONFIG" /\ f.in = 8
              \/ f.code = "WRITE_PCI_CONFIG" /\ f.in >= 8

W32_DeviceIOControl(f) ==
    f.code \in {"GET_DRIVER_VERSION", "HALT"} \/ VxdCpu(f) \/ VxdPort(f) \/ VxdPci(f)

Served(f) == IF IsNT THEN OlsDispatch(f) ELSE W32_DeviceIOControl(f)

(* The hardware may refuse what the driver asks of it: a register that     *)
(* does not exist, or a PCI function.  Windows 9x has no handler for the   *)
(* exception of the former.                                                *)
MayFault(f) == \/ f.code \in {"READ_MSR", "WRITE_MSR", "READ_PMC"} /\ IsNT
               \/ IsPci(f)

(* Whether a search can read so many bytes of a function's configuration.  *)
CanRead(size) == Served(ReadPciConfig(0, size))

-----------------------------------------------------------------------------
Gates == {"handle", "pointer", "msr", "cpuid", "tsc"}

(* Devices with more than one function. *)
Devices == {<<s[1], s[2]>> : s \in {r \in Slot : r[3] > 0}}

NoCall == [f |-> Hlt, how |-> Plainly]

(* Threads in the middle of a call. *)
InFlight(t) == pc[t] \notin {"idle", "returned"}

(* What a thread asks of this machine.  Bounds: where the bus has something *)
(* to find, the client searches it, one search at a time; elsewhere it     *)
(* does everything, but calls overlap on 64-bit Windows only, and only     *)
(* these two.                                                              *)
Overlapping == {Rdmsr, Hlt}

Asked ==
    LET busy == {u \in Thread : pc[u] # "idle"}
    IN IF multi # {} \/ matches # {}
       THEN {r \in Requests : IsSearch(r.f) /\ busy = {}}
       ELSE IF busy = {} THEN Requests
       ELSE {r \in Requests :
                /\ able = Gates /\ platform = "x64"
                /\ {r.f} \cup {call[u].f : u \in busy} \subseteq Overlapping}

(* Bound: the bus varies for a client that lacks nothing, and not between  *)
(* the two drivers for Windows NT, which search alike.                     *)
Varied == able = Gates /\ platform # "x86"

Init ==
    /\ platform \in {"x64", "x86", "9x"}
    /\ able \in {Gates} \cup {Gates \ {g} : g \in Gates}
    /\ matches \in IF Varied THEN SUBSET Slot ELSE {{}}
    /\ quiet \in SUBSET matches
    /\ multi \in IF Varied THEN SUBSET Devices ELSE {{}}
    /\ maxBus = BusWidth - 1
    /\ processMask = Cpu
    /\ threadMask = Home
    /\ pc = [t \in Thread |-> "idle"]
    /\ call = [t \in Thread |-> NoCall]
    /\ saved = [t \in Thread |-> {}]
    /\ bus = [t \in Thread |-> 0]
    /\ count = [t \in Thread |-> 0]
    /\ found = [t \in Thread |-> Unfound]
    /\ done = [t \in Thread |-> {}]
    /\ ran = [t \in Thread |-> Nobody]
    /\ ok = [t \in Thread |-> FALSE]
    /\ calls = 0
    /\ moved = {}
    /\ usedPx = FALSE
    /\ overlapped = FALSE
    /\ steady = {}

-----------------------------------------------------------------------------
(* A call begins, and the processors are set.                              *)

Kind(t) == call[t].how.kind
Mask(t) == call[t].how.mask

(* Calls of other threads that have, or may have, changed a mask. *)
Pinned(t) == {u \in Thread \ {t} : InFlight(u) /\ Kind(u) # "plain"}

Call(t) ==
    /\ pc[t] = "idle"
    /\ calls < MaxCalls
    /\ calls' = calls + 1
    /\ \E r \in Asked :
          /\ call' = [call EXCEPT ![t] = r]
          /\ saved' = [saved EXCEPT ![t] =
                          IF r.how.kind = "Px" THEN processMask ELSE {}]
          /\ overlapped' =
                \/ overlapped
                \/ \E u \in Pinned(t) : r.how.kind # "plain" /\ "Px" \in {Kind(u), r.how.kind}
    /\ pc' = [pc EXCEPT ![t] = "pin"]
    /\ moved' = moved \ {t}
    /\ steady' = steady \cup {t}
    /\ UNCHANGED <<machine, maxBus, masks, bus, count, found, done, ran, ok,
                   usedPx>>

(* SetThreadAffinityMask refuses a mask outside the one of the process.    *)
ThreadMaskSet(t, m, tm) ==
    IF m # {} /\ m \subseteq processMask THEN [tm EXCEPT ![t] = m] ELSE tm

(* Mutant: a mask that Windows refuses is no reason to give up. *)
PinMutant(t) ==
    /\ pc[t] = "pin"
    /\ IF ~ IsNT \/ Kind(t) = "plain"
       THEN UNCHANGED <<masks, saved>>
       ELSE IF Kind(t) = "Tx"
       THEN /\ threadMask' = ThreadMaskSet(t, Mask(t), threadMask)
            /\ saved' = [saved EXCEPT ![t] = threadMask[t]]
            /\ UNCHANGED processMask
       ELSE /\ processMask' = IF Mask(t) = {} THEN processMask ELSE Mask(t)
            /\ threadMask' = [u \in Thread |-> processMask']
            /\ UNCHANGED saved
    /\ pc' = [pc EXCEPT ![t] = "run"]
    /\ UNCHANGED <<machine, maxBus, call, bus, count, found, done, ran, ok,
                   calls, hist>>

(* The ...Tx and ...Px functions move the thread, or with the process all  *)
(* of its threads; a mask that Windows refuses ends the call.              *)
Pin(t) ==
    /\ pc[t] = "pin"
    /\ \/ /\ ~ IsNT \/ Kind(t) = "plain"
          /\ pc' = [pc EXCEPT ![t] = "run"]
          /\ UNCHANGED <<masks, saved, moved, usedPx>>
       \/ /\ IsNT /\ Kind(t) # "plain"
          /\ Mask(t) = {} \/ (Kind(t) = "Tx" /\ ~ Mask(t) \subseteq processMask)
          /\ pc' = [pc EXCEPT ![t] = "returned"]
          /\ UNCHANGED <<masks, saved, moved, usedPx>>
       \/ /\ IsNT /\ Kind(t) = "Tx"
          /\ Mask(t) # {} /\ Mask(t) \subseteq processMask
          /\ threadMask' = [threadMask EXCEPT ![t] = Mask(t)]
          /\ saved' = [saved EXCEPT ![t] = threadMask[t]]
          /\ pc' = [pc EXCEPT ![t] = "run"]
          /\ UNCHANGED <<processMask, moved, usedPx>>
       \/ /\ IsNT /\ Kind(t) = "Px" /\ Mask(t) # {}
          /\ processMask' = Mask(t)
          /\ threadMask' = [u \in Thread |-> Mask(t)]
          /\ pc' = [pc EXCEPT ![t] = "run"]
          /\ moved' = moved \cup {u \in Thread \ {t} : InFlight(u)}
          /\ usedPx' = TRUE
          /\ UNCHANGED saved
    /\ UNCHANGED <<machine, maxBus, call, bus, count, found, done, ran, ok,
                   calls, overlapped, steady>>

-----------------------------------------------------------------------------
(* The call itself, on one of the thread's processors.                     *)

Refuse(t) == /\ pc' = [pc EXCEPT ![t] = "restore"]
             /\ UNCHANGED <<done, ran, ok>>

(* Processors a call without a mask is free to use are not told apart.     *)
Where(t) == IF Kind(t) = "plain" THEN {Nobody} ELSE threadMask[t]

Reach(t) ==
    /\ pc' = [pc EXCEPT ![t] = "restore"]
    /\ done' = [done EXCEPT ![t] =
                   IF IsPci(call[t].f)
                   THEN call[t].f.at .. call[t].f.at + Span(call[t].f) - 1
                   ELSE {0}]
    /\ ok' = [ok EXCEPT ![t] = TRUE]
    /\ \E c \in Where(t) : ran' = [ran EXCEPT ![t] = c]

Gated(f) == f.gate \subseteq able /\ (IsPci(f) => Aligned(f.at, Span(f)))

Run(t) ==
    /\ pc[t] = "run"
    /\ LET f == call[t].f
       IN \/ /\ ~ Gated(f) \/ (IsIoctl(f) /\ ~ Served(f))
             /\ Refuse(t)
          \/ /\ Gated(f) /\ f.code = "none"
             /\ Reach(t)
          \/ /\ Gated(f) /\ IsSearch(f)
             /\ pc' = [pc EXCEPT ![t] = "search"]
             /\ UNCHANGED <<done, ran, ok>>
          \/ /\ Gated(f) /\ IsIoctl(f) /\ Served(f) /\ ~ (IsPci(f) /\ ~ IsNT)
             /\ Reach(t) \/ (MayFault(f) /\ Refuse(t))
          \/ /\ Gated(f) /\ Served(f) /\ IsPci(f) /\ ~ IsNT
             /\ pc' = [pc EXCEPT ![t] = "pieces"]
             /\ UNCHANGED <<done, ran, ok>>
    /\ UNCHANGED <<machine, maxBus, masks, call, saved, bus, count, found, calls,
                   hist>>

(* The size of the next call of the PCI BIOS. *)
Piece(at, left) == IF left >= 4 /\ at % 4 = 0 THEN 4
                   ELSE IF left >= 2 /\ at % 2 = 0 THEN 2
                   ELSE 1

(* pciConfigRead and pciConfigWrite on Windows 9x: a piece at a time until *)
(* one fails or nothing is left.                                           *)
Pieces(t) ==
    /\ pc[t] = "pieces"
    /\ LET f    == call[t].f
           at   == f.at + Cardinality(done[t])
           left == Span(f) - Cardinality(done[t])
       IN \/ /\ left > 0
             /\ done' = [done EXCEPT ![t] = @ \cup (at .. at + Piece(at, left) - 1)]
             /\ UNCHANGED <<pc, ok>>
          \/ /\ left > 0
             /\ pc' = [pc EXCEPT ![t] = "restore"]
             /\ UNCHANGED <<done, ok>>
          \/ /\ left = 0
             /\ pc' = [pc EXCEPT ![t] = "restore"]
             /\ ok' = [ok EXCEPT ![t] = TRUE]
             /\ UNCHANGED done
    /\ UNCHANGED <<machine, maxBus, masks, call, saved, bus, count, found, ran,
                   calls, hist>>

-----------------------------------------------------------------------------
(* The searches.                                                           *)

Before(r, s) == \/ r[1] < s[1]
                \/ r[1] = s[1] /\ r[2] < s[2]
                \/ r[1] = s[1] /\ r[2] = s[2] /\ r[3] < s[3]

(* The k-th of a set of functions, counted from 0. *)
At(S, k) == CHOOSE s \in S : Cardinality({r \in S : Before(r, s)}) = k

(* Functions the loops over devices and functions look at: beyond the      *)
(* first only if its header type, one byte, could be read and says so.     *)
LookedAt(b, size) ==
    {s \in Slot : /\ s[1] = b /\ CanRead(size)
                  /\ s[3] = 0 \/ (<<s[1], s[2]>> \in multi /\ CanRead(1))}

(* By number, the 8 bytes read are compared with the 4 of the number; by   *)
(* class, 12 are read and the class is compared.                           *)
Hits(f, b) == IF f.code = "FIND_BY_ID" THEN LookedAt(b, 8) \cap quiet
                                       ELSE LookedAt(b, 12) \cap matches

(* Mutant: the search by class counts buses in a byte, too. *)
NextBusMutant(f, b) == (b + 1) % BusWidth

(* The bus is a byte in the search by number, and a DWORD by class.        *)
NextBus(f, b) == IF f.code = "FIND_BY_ID" THEN (b + 1) % BusWidth ELSE b + 1

EndSearch(t, s) ==
    /\ found' = [found EXCEPT ![t] = s]
    /\ pc' = [pc EXCEPT ![t] = "restore"]

(* Mutant: each bus is counted from 0. *)
FindBusMutant(t) ==
    /\ pc[t] = "search"
    /\ LET f == call[t].f
           h == Hits(f, bus[t])
       IN IF bus[t] > maxBus
          THEN EndSearch(t, Unfound) /\ UNCHANGED <<bus, count>>
          ELSE IF f.at < Cardinality(h)
          THEN EndSearch(t, At(h, f.at)) /\ UNCHANGED <<bus, count>>
          ELSE /\ bus' = [bus EXCEPT ![t] = NextBus(f, @)]
               /\ UNCHANGED <<pc, found, count>>
    /\ UNCHANGED <<machine, maxBus, masks, call, saved, done, ran, ok, calls, hist>>

(* One bus of FindPciDeviceById or FindPciDeviceByClass. *)
FindBus(t) ==
    /\ pc[t] = "search"
    /\ LET f == call[t].f
           h == Hits(f, bus[t])
       IN IF bus[t] > maxBus
          THEN EndSearch(t, Unfound) /\ UNCHANGED <<bus, count>>
          ELSE IF f.at < count[t] + Cardinality(h)
          THEN EndSearch(t, At(h, f.at - count[t])) /\ UNCHANGED <<bus, count>>
          ELSE /\ bus' = [bus EXCEPT ![t] = NextBus(f, @)]
               /\ count' = [count EXCEPT ![t] = @ + Cardinality(h)]
               /\ UNCHANGED <<pc, found>>
    /\ UNCHANGED <<machine, maxBus, masks, call, saved, done, ran, ok, calls, hist>>

SetPciMaxBusIndex(t) ==
    /\ pc[t] = "idle"
    /\ calls < MaxCalls
    /\ calls' = calls + 1
    /\ \E max \in (0..BusWidth - 1) \ {maxBus} : maxBus' = max
    /\ steady' = {}
    /\ UNCHANGED <<machine, masks, pc, call, saved, bus, count, found, done, ran,
                   ok, moved, usedPx, overlapped>>

-----------------------------------------------------------------------------
(* The masks are put back and the call returns.                            *)

(* Mutant: a call that failed returns without putting anything back. *)
RestoreMutant(t) ==
    /\ pc[t] = "restore"
    /\ IF IsNT /\ ok[t] /\ Kind(t) = "Tx"
       THEN /\ threadMask' = ThreadMaskSet(t, saved[t], threadMask)
            /\ UNCHANGED <<processMask, moved>>
       ELSE IF IsNT /\ ok[t] /\ Kind(t) = "Px"
       THEN /\ processMask' = saved[t]
            /\ threadMask' = [u \in Thread |-> saved[t]]
            /\ moved' = moved \cup {u \in Thread \ {t} : InFlight(u)}
       ELSE UNCHANGED <<masks, moved>>
    /\ pc' = [pc EXCEPT ![t] = "returned"]
    /\ UNCHANGED <<machine, maxBus, call, saved, bus, count, found, done, ran, ok,
                   calls, usedPx, overlapped, steady>>

Restore(t) ==
    /\ pc[t] = "restore"
    /\ IF IsNT /\ Kind(t) = "Tx"
       THEN /\ threadMask' = ThreadMaskSet(t, saved[t], threadMask)
            /\ UNCHANGED <<processMask, moved>>
       ELSE IF IsNT /\ Kind(t) = "Px"
       THEN /\ processMask' = saved[t]
            /\ threadMask' = [u \in Thread |-> saved[t]]
            /\ moved' = moved \cup {u \in Thread \ {t} : InFlight(u)}
       ELSE UNCHANGED <<masks, moved>>
    /\ pc' = [pc EXCEPT ![t] = "returned"]
    /\ UNCHANGED <<machine, maxBus, call, saved, bus, count, found, done, ran, ok,
                   calls, usedPx, overlapped, steady>>

(* The caller has its result. *)
Return(t) ==
    /\ pc[t] = "returned"
    /\ pc' = [pc EXCEPT ![t] = "idle"]
    /\ call' = [call EXCEPT ![t] = NoCall]
    /\ saved' = [saved EXCEPT ![t] = {}]
    /\ bus' = [bus EXCEPT ![t] = 0]
    /\ count' = [count EXCEPT ![t] = 0]
    /\ found' = [found EXCEPT ![t] = Unfound]
    /\ done' = [done EXCEPT ![t] = {}]
    /\ ran' = [ran EXCEPT ![t] = Nobody]
    /\ ok' = [ok EXCEPT ![t] = FALSE]
    /\ moved' = moved \ {t}
    /\ steady' = steady \ {t}
    /\ UNCHANGED <<machine, maxBus, masks, calls, usedPx, overlapped>>

-----------------------------------------------------------------------------
Step(t) == Pin(t) \/ Run(t) \/ Pieces(t) \/ FindBus(t) \/ Restore(t) \/ Return(t)

Next == \E t \in Thread : Call(t) \/ SetPciMaxBusIndex(t) \/ Step(t)

Spec == Init /\ [][Next]_vars

FairSpec == Spec /\ \A t \in Thread : WF_vars(Step(t))

-----------------------------------------------------------------------------
(* A call that asks for processors runs on one of them, unless a ...Px     *)
(* call of another thread came in between; a mask that Windows refuses     *)
(* never lets the call run elsewhere.                                      *)
RunsWhereAsked ==
    \A t \in Thread :
        IsNT /\ Kind(t) # "plain" /\ ran[t] # Nobody /\ t \notin moved
            => ran[t] \in Mask(t)

(* When no call is in progress, the process may use every processor again, *)
(* and each thread the ones it had, unless a ...Px call overlapped with    *)
(* another call that changes masks; for the threads, no ...Px call at all, *)
(* since it widens every thread of the process.                            *)
MasksComeBack ==
    (\A t \in Thread : ~ InFlight(t)) /\ ~ overlapped =>
        /\ processMask = Cpu
        /\ ~ usedPx => threadMask = Home

(* A call that returns TRUE has touched all the bytes it was asked for,    *)
(* one that returns FALSE none of them: no write of configuration space is *)
(* left half done, although Windows 9x does it in pieces.                  *)
EffectIffTrue ==
    \A t \in Thread :
        pc[t] = "returned" /\ ~ IsSearch(call[t].f) =>
            LET f == call[t].f
            IN done[t] = IF ~ ok[t] THEN {}
                         ELSE IF IsPci(f) THEN f.at .. f.at + Span(f) - 1
                         ELSE {0}

(* Functions of the machine a search can tell: the driver for Windows NT   *)
(* does not let it read a header type.                                     *)
Tellable == {s \in Slot : /\ s[1] <= maxBus
                          /\ s[3] = 0 \/ (~ IsNT /\ <<s[1], s[2]>> \in multi)}

(* A search with the index i returns the i-th function, in the order of    *)
(* the bus, that has the class, or that has the number and registers of 0  *)
(* behind it, and fails if there are not so many; for a search by number,  *)
(* only if the last bus is not the highest there is.                       *)
FindIsIndexth ==
    \A t \in steady :
        LET f == call[t].f
            S == Tellable \cap IF f.code = "FIND_BY_ID" THEN quiet ELSE matches
        IN /\ pc[t] = "returned"
           /\ "handle" \in able
           /\ f.code = "FIND_BY_CLASS" \/ (f.code = "FIND_BY_ID" /\ maxBus < BusWidth - 1)
           => found[t] = IF f.at < Cardinality(S) THEN At(S, f.at) ELSE Unfound

(* Every call returns, except a search by number over all the buses there  *)
(* are, when no function answers to it.                                    *)
CallsReturn ==
    \A t \in Thread :
        InFlight(t) ~> \/ ~ InFlight(t)
                       \/ /\ pc[t] = "search" /\ call[t].f.code = "FIND_BY_ID"
                          /\ maxBus = BusWidth - 1
                          /\ Tellable \cap quiet = {}
=============================================================================
