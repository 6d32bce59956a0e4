SPECIFICATION CopiesSpec
CONSTANTS
    p1 = p1
    p2 = p2
    None = none
    Torn = torn
    ChartWindow = 4
    CurveWindow = 3
    SleepGap = 1
    BriefWake = 2
    SleepLengths = {1, 3}
    ChartHorizon = 4
    ChartSleeps = 2
    ChartSets = 1
    Pids = {p1, p2}
    Wait = 2
    LongWait = 3
    WaitSlack = 1
    MinWindow = 1
    AgeSlack = 0
    MaxBytes = 1
    TrafficHorizon = 3
    LoadBar = 1
    Afters = {2, 4}
    Grace = 1
    LoadBurn = 3
    LoadHorizon = 6
    Slots = 3
    NewMinutes = 1
    BaselineMin = 1
    ClimbMin = 2
    Rearm = 3
    CreepBar = 1
    MaxValue = 1
    TrendHorizon = 5
    TrendSleeps = 1
    TrendSetBacks = 1
    Dirs = {1, 2, 3, 4}
    Above <- Lies
    Finds <- Found
    Week = 2
    KeepDays = 3
    RecordFloor = 1
    GrowthFloor = 2
    NotifyBytes = 5
    MaxRows = 3
    GrowthHorizon = 8
    MaxWalks = 3
    MaxErrors = 1
    Lengths = {2, 3}
    Naps = {1, 3}
    AwakeHorizon = 6
    MaxTakes = 3
    MaxBack = 2
    Keys = {p1}
    ShortSpan = 2
    BurstRatio = 3
    BurstFloor = 1
    SpenderBurn = 2
    MaxLives = 1
    SpenderHorizon = 5
    LinkedClones = TRUE
    Paths = {1, 2, 3, 4}
    Entries = {1, 2, 3}
    Shows <- EntryShown
    Files = {1, 2, 3}
    Contents <- Kinds
    HeadBytes = 1
    Bytes <- StoreBytes
    Gone = gone
    Unread = unread
    Worlds <- Disks
    MaxEdits = 1
CHECK_DEADLOCK FALSE
INVARIANT FreedIsFreed
