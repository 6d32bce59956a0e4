SPECIFICATION FairSpec
CONSTANTS
    Workers = {w1, w2}
    Main = main
    Engines = {panel}
    Panel = panel
    MaxUpdates = 2
INVARIANTS
    NoLostWakeUp
    HeightFollowsRow
PROPERTY PanelCatchesUp
