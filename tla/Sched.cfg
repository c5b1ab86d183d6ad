\* Four slots: forks fill the table, fork fails after that, and every slot
\* goes through several resets.
CONSTANTS
    NR_TASK = 4
    Quantum = 3
    Ptr = Ptr
    NoFork = NoFork
SPECIFICATION Spec
INVARIANTS
    TypeOK
    EpochShare
    BoundedWait
    OnlyChildSeesZero
PROPERTY
    EveryTaskRuns
