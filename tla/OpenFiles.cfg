\* Two tasks with two slots each, two names, three objects to hand out again.
CONSTANTS
    Task = {t0, t1}
    init = t0
    Name = {a, b}
    NR_MAX_OPEN = 2
    FileObj = {f1, f2, f3}
    DentryObj = {d1, d2, d3}
    Root = Root
    Null = Null
    MaxSize = 2
    Usage = {"path"}
SPECIFICATION Spec
INVARIANTS
    DescriptorsKeepTheirFile
    CachesHoldOpenFiles
    PositionsInFile
SYMMETRY Symmetry
CHECK_DEADLOCK FALSE
