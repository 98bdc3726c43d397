CONSTANTS
    Clients = {c1, c2}
    NFds = 2
    kBufferSize = 2
    SndBuf = 2
    MaxSent = 2
    kEventsSize = 2
    Nobody = nobody
    Servers = {"select", "poll", "epoll", "kqueue",
               "kqueue_single", "asio", "libev", "libevent"}
    MaxAddrs = 2
SPECIFICATION Spec
INVARIANTS TypeOK ListensWhereBound OwnBytesInOrder SocketsTracked EventsAreCurrent
PROPERTY ImplementsService
CHECK_DEADLOCK FALSE
