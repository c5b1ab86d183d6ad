\* Three pages to allocate from; caches with one and with three objects a slab.
CONSTANTS
    NR_PAGES = 4
    FirstPage = 0
    LastPage = 2
    MaxOrder = 0
    Root = Root
    RootCnt = 2
    Counts = {1, 3}
    NoSlab = NoSlab
    NoCache = NoCache
SPECIFICATION Spec
INVARIANTS
    FreeListExact
    OnRightList
    PagesOwned
PROPERTY
    UsesPageAlloc
