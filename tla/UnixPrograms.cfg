CONSTANTS
    MaxRuns = 2
    Programs = {"socketpair", "sysv_msg_queue", "posix_msg_queue",
                "simple_fork", "fifo_channel", "bash_commands", "tcp_server"}
    kFifoBuffer = 2
    FifoSize = 3
    MaxWritten = 4
    MaxTokens = 5
    Limits = {4, 5}
    PipeSize = 2
    MaxOutput = 3
    Clients = {c1, c2}
    MaxAddrs = 2
SPECIFICATION Spec
INVARIANTS TypeOK SentIsReceived NothingLeftBehind  ErrnoKept
PROPERTIES MainEnds ConnectionsAreReleased
CHECK_DEADLOCK FALSE
