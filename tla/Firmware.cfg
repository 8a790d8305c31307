CONSTANTS
    Platforms <- MCPlatforms
    FastList <- MCFastList
    SweepBuses = 17
    PortBuses = 24
    MaxRoots = 2
    Devices = 17
    Functions = 2
    CardBuses = {0, 1, 2, 5, 8, 16, 21}
    ClockTimes <- MCClockTimes
    MemoryMaps <- MCMemoryMaps
    LowPlaces <- MCLowPlaces
    ImageSizes = {1, 512, 513, 7163}
    Entries = 512
SPECIFICATION MCSpec
INVARIANTS
    FindsTheCard
    ParentIsFound
    WindowsAreSeen
    ClockNeverAhead
    TablesReachData
    LayoutFits
CHECK_DEADLOCK FALSE
