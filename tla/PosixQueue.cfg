CONSTANTS
    MaxRuns = 2
    Programs = {"posix_msg_queue"}
    kFifoBuffer = 2
    FifoSize = 3
    MaxWritten = 4
    MaxTokens = 5
    Limits = {4, 5}
    PipeSize = 2
    MaxOutput = 3
    Clients = {c1, c2}
    MaxAddrs = 2
SPECIFICATION Spec
INVARIANT ErrorInChildIsSeen
CHECK_DEADLOCK FALSE
