\* The same tasks: the parent of a fork keeps its write bits.
CONSTANTS
    NR_TASK = 3
    Low = {16, 144, 256, 259}
    Far = {263, 1024}
    Screen = 144
    LOW_MEM = 256
    HIGH_MEMORY = 263
    Value = {0, 1}
    Junk = 0
SPECIFICATION Spec
INVARIANT
    SharedIsProtected
