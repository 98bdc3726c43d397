CONSTANTS
    kMutexThreadsNumber = 3
    N = 4
    MaxLockFailures = 2
    MaxUnlockFailures = 2
    LongSleep = 10
    ShortSleep = 2
    Latency = 3
    Spurious = TRUE
    Latencies = {3, 4, 5}
SPECIFICATION ThreadsSpec
INVARIANTS
    TypeOK
    SleepTypeOK
    CounterIsExact
    MutualExclusion
    NoRace
    EachElementOnce
    AllReadAtTheEnd
    FirstAssertionHolds
    CancelsAnExistingThread
    CancellationIsSeen
PROPERTIES
    ThreadsAreJoined
CHECK_DEADLOCK FALSE
