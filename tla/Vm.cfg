\* Three tasks; an ordinary page of low memory and the screen's, two pages of the
\* first table and one of a later one that are frames, one above all of memory.
CONSTANTS
    NR_TASK = 3
    Low = {16, 144, 256, 259}
    Far = {263, 1024}
    Screen = 144
    LOW_MEM = 256
    HIGH_MEMORY = 263
    Value = {0, 1}
    Junk = 0
SPECIFICATION Spec
INVARIANTS
    OneWriter
    WritersAreAncestors
    FramesHaveOneUse
PROPERTY
    FaultsInvisible
