\* What the parent of a fork gets back.
CONSTANTS
    NR_TASK = 3
    Quantum = 2
    Ptr = Ptr
    NoFork = NoFork
SPECIFICATION Spec
INVARIANT ParentGetsChildPid
