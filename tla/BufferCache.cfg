CONSTANTS
    NR_BUFFERS = 2
    NR_REQUEST = 5
    Blk = {k1, k2, k3}
    Val = {v1, v2}
    Handle = {h1, h2, h3}
    NoBlk = NoBlk
    NoBuf = NoBuf
    Junk = Junk
    Outcomes = {"ok", "dead"}
    BootWords = {0, 1}
SPECIFICATION CSpec
INVARIANTS
    TypeOK
    CountIsHolders
    HeldBufferKeepsBlock
    OneBufferPerBlock
    CleanMatchesDisk
    DirtyOnlyWhileHeld
    ListsPartition
PROPERTY
    ImplementsBlockStore
