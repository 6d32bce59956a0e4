SPECIFICATION PartsSpec
CONSTANTS
    Procs = {a, b, c}
    NoOne = none
    Here = a
    Urls = {one, other}
    Off = off
    BannerDepth = 2
    HookDepth = 1
    MaxNotices = 3
    MaxEdits = 1
    MaxTests = 2
CHECK_DEADLOCK FALSE
INVARIANTS
    UncontestedSocketStays
    RoadsAreKept
PROPERTIES
    WordsAreActedOn
    LookAwayCloses
    HooksGoOut
