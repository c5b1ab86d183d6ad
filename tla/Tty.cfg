\* Rings of three cells; prefix, shift down and up, 'j' down, 'k' up.
CONSTANTS
    QUEUE_BUF_SZ = 3
    ScanCode = {224, 42, 170, 36, 165}
    Prefix = 224
    Modifier = {42, 29, 56}
    Shift = 42
    Printable = {36, 37}
    Down = {72, 73}
    Up = {74, 75}
    NR_LINES = 4
SPECIFICATION Spec
INVARIANTS
    TypeOK
    RingsAgree
    QueuesAtRest
    KeyboardNeverPanics
PROPERTIES
    HandlerReturns
    ImplementsDecoder
