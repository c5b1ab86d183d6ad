\* The same disk: a file that a crash in its create left without a link is closed.
CONSTANTS
    Name = {a, b}
    Value = {v, w}
    Zero = Zero
    BS = 2
    NR_DIRECT = 2
    NR_INODES = 3
    NR_ZONES = 3
    MaxCount = 1
    MaxCrash = 1
SPECIFICATION Spec
INVARIANT
    DeletedInodeHasNoDentry
CHECK_DEADLOCK FALSE
