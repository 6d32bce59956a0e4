SPECIFICATION FairSpec
CONSTANTS
    Channels = {gpu}
    MaxWrites = 2
    MaxErrors = 1
INVARIANTS
    NoRequestSwallowed
    NoWakeMissed
PROPERTIES
    RegistryOnlyOnScreen
    AskedIsRun
