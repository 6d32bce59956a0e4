SPECIFICATION PartsSpec
CONSTANTS
    Episodes = {e1, e2, e3}
    MaxAlerts = 2
    LastDay = 1
    MaxReports = 3
    MaxRestarts = 1
    MaxErrors = 1
    None = none
    Sources = {a, b}
    Window = 2
    NoisyAfter = 2
    SnoozeChoices = {2, 6}
    HalfHours = 5
    Tables = {a, b}
    Broken = broken
    Unusable = unusable
    Jobs = {j1, j2}
    Readers = {r1}
    MaxEvents = 2
    Hungry = {p1}
    Volumes = {v1}
    Doubtful = {"pressure", v1}
    Recover = 2
    Ticks = 4
    Apps = {a, b, p1}
    UnusedAfter = 2
    MaxTracked = 2
    Hours = 4
CHECK_DEADLOCK FALSE
SYMMETRY EpisodeSymmetry
INVARIANTS
    RestoredCardsWait
    TodayIsMirrored
    ShownIsSeen
    TableIsTold
    ClaimIsProven
PROPERTIES
    DismissHitsItsCard
    FollowUpsAreQuiet
    GatesAreTold
    FaceIsNow
