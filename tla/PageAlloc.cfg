\* Eight pages, the first one reserved, runs of one, two and four pages.
CONSTANTS
    NR_PAGES = 8
    FirstPage = 1
    LastPage = 7
    MaxOrder = 2
SPECIFICATION Spec
INVARIANTS
    TypeOK
    RunsDisjoint
    MapCountsRuns
    ScanIsFirstFit
