\* The same, and a file that several descriptors lead to is closed by one of them.
CONSTANTS
    Task = {t0, t1}
    init = t0
    Name = {a, b}
    NR_MAX_OPEN = 2
    FileObj = {f1, f2, f3}
    DentryObj = {d1, d2, d3}
    Root = Root
    Null = Null
    MaxSize = 2
    Usage = {"shared"}
SPECIFICATION Spec
INVARIANT
    DescriptorsKeepTheirFile
CHECK_DEADLOCK FALSE
