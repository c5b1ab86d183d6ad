\* Two files of up to two zones and three data blocks: directory and files fill
\* the zone bitmap; writes of one to three cells cross a block boundary.
CONSTANTS
    Name = {a, b}
    Value = {v, w}
    Zero = Zero
    BS = 2
    NR_DIRECT = 2
    NR_INODES = 3
    NR_ZONES = 3
    MaxCount = 3
    MaxCrash = 1
SPECIFICATION Spec
INVARIANTS
    TypeOK
    NamesHaveInodes
    ReturnedCallsAreDurable
    ZonesHaveOneOwner
    NothingLeaks
PROPERTY
    ImplementsFileStore
SYMMETRY Symmetry
CHECK_DEADLOCK FALSE
