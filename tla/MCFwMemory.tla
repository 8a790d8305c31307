------------------------------ MODULE MCFwMemory -------------------------------
(***************************************************************************)
(* Machines for the model-checked instance: the card on every kind of bus  *)
(* number, at either layout of addresses, with the root bridges there are; *)
(* dates at every month's ends; memory with room above 4 GiB, at the fixed *)
(* places, below, or nowhere.                                              *)
(***************************************************************************)
EXTENDS FwMemory

CONSTANT CardBuses

Fn(a, kind, multi, sec, window) ==
    [at |-> a, kind |-> kind, multi |-> multi, sec |-> sec, window |-> window,
     decodes |-> TRUE, bar0 |-> "low"]

(* Bus 0: a device with two root ports, to the card and to a disk, a sound *)
(* card, and an empty slot whose bridge is off, with the window it had;    *)
(* optionally a switch above the card, and a second root bus.              *)
Disk == 23
PciBus(c, switch, second) ==
    {Fn(At(0, 0, 0), "other", FALSE, 0, {}),
     [Fn(At(0, 2, 0), "bridge", FALSE, 14, {20, 21, 40}) EXCEPT !.decodes = FALSE],
     Fn(At(0, 1, 0), "bridge", TRUE, Disk, {10, 11}),
     Fn(At(Disk, 0, 0), "other", FALSE, 0, {})}
    \cup
    (IF c = 0 THEN {Fn(At(0, 4, 0), "gpu", FALSE, 0, {})}
     ELSE IF ~ switch
     THEN {Fn(At(0, 1, 1), "bridge", TRUE, c, {20, 21}),
           Fn(At(c, 0, 0), "gpu", FALSE, 0, {})}
     ELSE {Fn(At(0, 1, 1), "bridge", TRUE, c - 1, {20, 21, 22}),
           Fn(At(c - 1, 0, 0), "bridge", TRUE, c, {20, 21}),
           Fn(At(c - 1, 0, 1), "bridge", TRUE, c + 1, {22}),
           Fn(At(c, 0, 0), "gpu", FALSE, 0, {}),
           Fn(At(c + 1, 0, 0), "other", FALSE, 0, {})})
    \cup
    (IF second = 0 THEN {}
     ELSE {Fn(At(second, 2, 0), "bridge", FALSE, second + 1, {30})})

AllBuses == 0 .. 23
RootBridges(layout) ==
    LET rb(buses) == [layout |-> layout, buses |-> buses]
    IN {<< >>, <<rb(AllBuses)>>, <<rb(0 .. 7)>>, <<rb(0 .. 7), rb(8 .. 23)>>,
        <<rb(0 .. 7), rb(16 .. 23), rb(8 .. 15)>>,
        <<rb(16 .. 23), rb(8 .. 15), rb(0 .. 7)>>}

Machine(functions, roots) == [functions |-> functions, roots |-> roots]

MCPlatforms ==
    {Machine(PciBus(x[1], x[2], x[3]), r) :
        x \in {y \in CardBuses \X BOOLEAN \X {0, 10, 18} : y[2] => y[1] > 1},
        r \in RootBridges("canonical") \cup RootBridges("compact")}
    \cup
    {Machine({f \in PciBus(1, FALSE, 0) : f.kind # "gpu"}, r) :
        r \in RootBridges("canonical")}

MCFastList == <<2, 1, 3, 0, 4, 5>>

Time(y, m, d) == [year |-> y, month |-> m, day |-> d, secs |-> 43200]
MCClockTimes ==
    {Time(y, m, d) : y \in {1980, 2015, 2016, 2024, 2026, 2099, 2100},
                     m \in 1 .. 12, d \in {1, 28}}
    \cup {Time(2024, 2, 29), Time(2027, 12, 31), Time(2028, 1, 31)}

Region(lo, hi) == [lo |-> lo, hi |-> hi]
Below == Region(65536, 524287)
MCMemoryMaps ==
    {{Below, Region(1048576, 2097151)},
     {Below, Region(1048576, 1120000)},
     {Below, Region(1048576, 1122000), Region(1128000, 1200000)},
     {Below, Region(1703936, 1710000), Region(1835008, 1850000)},
     {Below}, {Region(65536, 65600), Region(1114112, 1125000)}, {}}

MCLowPlaces == {65536, 110000, 300000, 500000}

UsualMachine == platform = Machine(PciBus(5, FALSE, 0),
                    <<[layout |-> "canonical", buses |-> AllBuses]>>)
UsualClock == rtc = Time(2026, 9, 1)
UsualMemory == free = {Below, Region(1048576, 2097151)} /\ image = 513

(* One of the three varies.                                                *)
MCInit ==
    /\ FwInit
    /\ \/ UsualClock /\ UsualMemory
       \/ UsualMachine /\ UsualMemory
       \/ UsualMachine /\ UsualClock

MCSpec == MCInit /\ [][FwNext]_fwVars
=============================================================================
