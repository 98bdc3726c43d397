CONSTANTS
    Clients = {c1}
    NFds = 1
    kBufferSize = 1
    SndBuf = 1
    MaxSent = 1
    kEventsSize = 1
    Nobody = nobody
    Servers = {"select", "poll", "epoll", "kqueue", "kqueue_single"}
    MaxAddrs = 2
SPECIFICATION Spec
INVARIANT SurvivesClients
CHECK_DEADLOCK FALSE
