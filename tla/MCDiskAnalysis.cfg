SPECIFICATION FairSpec
CONSTANTS
    Scopes = {home, folder}
    Home = home
    Rows = {r1}
    None = none
    MaxWalks = 3
    MaxCuts = 1
    MaxErrors = 1
    MaxRestarts = 1
INVARIANTS
    RunsAreReal
    UnderWhatItWasFound
    FilesFollowTheScreen
PROPERTIES
    CardsAnswer
