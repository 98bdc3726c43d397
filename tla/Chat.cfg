CONSTANTS
    Clients = {c1, c2}
    NFds = 2
    kBufferSize = 2
    SndBuf = 1
    MaxSent = 2
    kEventsSize = 2
    Nobody = nobody
SPECIFICATION Spec
INVARIANTS TypeOK MembersAreConnections TextIsGenuine
PROPERTY LeaversAreClosed
CHECK_DEADLOCK FALSE
