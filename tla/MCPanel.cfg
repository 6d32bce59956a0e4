SPECIFICATION FairSpec
CONSTANTS
    Lists = {l1}
    Ranges = {r1, r2}
    NoRows = none
    Tabs = {"net", "apps", "history"}
    MaxJobs = 1
INVARIANTS
    WaitingIsServed
    HistoryMatchesTitle
PROPERTY VisitIsAnswered
