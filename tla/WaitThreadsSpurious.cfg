CONSTANTS
    LongSleep = 10
    ShortSleep = 2
    Latency = 3
    Spurious = TRUE
SPECIFICATION Spec
INVARIANT AssertionsHold
CHECK_DEADLOCK FALSE
