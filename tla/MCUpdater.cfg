SPECIFICATION FairSpec
CONSTANTS
    MaxVersion = 2
    NoVersion = none
    Half = half
    MaxDay = 4
    MaxLaunches = 2
CHECK_DEADLOCK FALSE
INVARIANTS
    OffersAreTrue
    BusyIsItsJob
    InstallsLoseNothing
PROPERTIES
    AnswersAreRecorded
    RowComesBack
