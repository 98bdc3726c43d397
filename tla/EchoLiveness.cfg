CONSTANTS
    Clients = {c1, c2}
    NFds = 2
    kBufferSize = 2
    SndBuf = 1
    MaxSent = 1
    kEventsSize = 2
    Nobody = nobody
    Servers = {"select", "poll", "epoll", "kqueue",
               "kqueue_single", "libevent"}
    MaxAddrs = 2
SPECIFICATION Spec
PROPERTIES EndedIsClosed BytesAreTaken
CHECK_DEADLOCK FALSE
