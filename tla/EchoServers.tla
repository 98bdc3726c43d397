---------------------------- MODULE EchoServers -----------------------------
(***************************************************************************)
(* The eight echo servers side by side: the five of sockets_multiplexing/  *)
(* and three of asynchronous_network/.  Which of them is started is chosen *)
(* in the initial state (server) and never changes; its start-up comes     *)
(* first, and the variables of the others keep their initial values.  They *)
(* are eight implementations of one promise, so their properties are stated *)
(* here once for all of them.                                              *)
(***************************************************************************)
EXTENDS EchoSockets

CONSTANTS
    Servers,        (* the servers to be started, of the eight below       *)
    MaxAddrs        (* SocketSetup: addresses that getaddrinfo returns     *)

ASSUME ServersAssumption ==
    /\ Servers \subseteq {"select", "poll", "epoll", "kqueue",
                         "kqueue_single", "asio", "libev", "libevent"}
    /\ MaxAddrs \in Nat \ {0}

VARIABLES
    stage, left, socket_fd, files,      (* SocketSetup                     *)
    open_sockets, closed_sockets, set,  (* EchoSelect                      *)
    entries, revents, i,                (* EchoPoll                        *)
    watched, events, unwatched,         (* EchoEpoll                       *)
    queue, event_list, new_sockets,     (* EchoKqueue, EchoKqueueSingle    *)
    sessions, output, accepting         (* EchoAsync                       *)

startVars  == <<stage, left, socket_fd, files>>
setVars    == <<open_sockets, closed_sockets>>
arrayVars  == <<entries, revents, i>>
epollVars  == <<watched, events, unwatched>>
kqueueVars == <<queue, event_list, new_sockets>>
asyncVars  == <<sessions, output, accepting>>
loopVars   == <<setVars, set, arrayVars, epollVars, kqueueVars, asyncVars>>

Setup        == INSTANCE SocketSetup

Select       == INSTANCE EchoSelect
Poll         == INSTANCE EchoPoll WITH set <- entries
Epoll        == INSTANCE EchoEpoll
Kqueue       == INSTANCE EchoKqueue
KqueueSingle == INSTANCE EchoKqueueSingle
Async        == INSTANCE EchoAsync

AsyncServers == {"asio", "libev", "libevent"}

allVars == <<vars, startVars, loopVars>>

Init ==
    /\ server \in Servers
    /\ Setup!SetupInit
    /\ EchoInit
    /\ Select!LoopInit
    /\ Poll!LoopInit
    /\ Epoll!LoopInit
    /\ Kqueue!LoopInit
    /\ Async!LoopInit

\* main's start-up: clients cannot connect yet.
StartUp ==
    /\ \/ server \notin AsyncServers /\ Setup!SetupNext
       \/ server \in AsyncServers /\ Async!Start /\ UNCHANGED <<server, left>>
    /\ UNCHANGED <<kernelVars, pc, echoVars, loopVars>>

\* The loop is reached and the start-up is over.
Serving == stage = "serve" /\ UNCHANGED startVars

\* One step of each server, with the variables that it does not have.
SelectRuns(A) ==
    /\ server = "select" /\ Serving /\ A
    /\ UNCHANGED <<server, arrayVars, epollVars, kqueueVars, asyncVars>>
PollRuns(A) ==
    /\ server = "poll" /\ Serving /\ A
    /\ UNCHANGED <<server, set, epollVars, kqueueVars, asyncVars>>
EpollRuns(A) ==
    /\ server = "epoll" /\ Serving /\ A
    /\ UNCHANGED <<server, setVars, set, arrayVars, kqueueVars, asyncVars>>
KqueueRuns(A) ==
    /\ server = "kqueue" /\ Serving /\ A
    /\ UNCHANGED <<server, setVars, set, arrayVars, epollVars, asyncVars>>
KqueueSingleRuns(A) ==
    /\ server = "kqueue_single" /\ Serving /\ A
    /\ UNCHANGED <<server, setVars, set, arrayVars, epollVars, event_list,
                   new_sockets, asyncVars>>
AsyncRuns(A) ==
    /\ server \in AsyncServers /\ Serving /\ A
    /\ UNCHANGED <<server, setVars, set, arrayVars, epollVars, kqueueVars>>

Next ==
    \/ StartUp
    \/ SelectRuns(Select!Next)
    \/ PollRuns(Poll!Next)
    \/ EpollRuns(Epoll!Next)
    \/ KqueueRuns(Kqueue!Next)
    \/ KqueueSingleRuns(KqueueSingle!Next)
    \/ AsyncRuns(Async!Next)

ServerStep ==
    \/ SelectRuns(Select!ServerStep)
    \/ PollRuns(Poll!ServerStep)
    \/ EpollRuns(Epoll!ServerStep)
    \/ KqueueRuns(Kqueue!ServerStep)
    \/ KqueueSingleRuns(KqueueSingle!ServerStep)
    \/ AsyncRuns(Async!ServerStep)

\* epoll or kqueue reports descriptor s, also on behalf of a library.
Turn(s) ==
    \/ EpollRuns(Epoll!epoll_wait /\ Epoll!Reports(s))
    \/ KqueueRuns(Kqueue!kevent /\ Kqueue!Reports(s))
    \/ KqueueSingleRuns(KqueueSingle!Serve(s) \/ KqueueSingle!ServeEof(s))
    \/ AsyncRuns(Async!Take(s) \/ Async!End(s))

\* The server is scheduled.  epoll and kqueue move the descriptors that they
\* have reported to the end of their lists, so that each one gets its turn;
\* select and poll report all ready descriptors.
Spec ==
    /\ Init /\ [][Next]_allVars
    /\ WF_allVars(ServerStep)
    /\ \A s \in Fds : SF_allVars(Turn(s))
-----------------------------------------------------------------------------
(***************************************************************************)
(* The promise of every server, and how its state maps to it               *)
(***************************************************************************)
\* Bytes taken from the socket and not yet sent back.
Held(c) ==
    IF received > 0 /\ socket \in Open /\ owner[socket] = c
    THEN SubSeq(buffer, 1, received)
    ELSE IF \E s \in Open : owner[s] = c
    THEN output[CHOOSE s \in Open : owner[s] = c]
    ELSE <<>>

Service == INSTANCE EchoService WITH
    status   <- [c \in Clients |-> IF conn[c] \in {"queued", "accepted"}
                                   THEN "open" ELSE conn[c]],
    ended    <- [c \in Clients |-> link[c] # "up"],
    pending  <- [c \in Clients |-> Held(c) \o rx[c]],
    reliable <- server \in AsyncServers,
    up       <- ~Down

\* Each server implements an echo service: it echoes what a client wrote, in
\* order, and closes only connections the client ended.  The servers with a
\* library lose no byte of an open connection, the others may.
ImplementsService == Service!Spec
-----------------------------------------------------------------------------
TypeOK ==
    /\ server \in Servers
    /\ Setup!SetupTypeOK \/ stage = "deaf"
    /\ server = "select" => Select!TypeOK
    /\ server = "poll" => Poll!TypeOK
    /\ server = "epoll" => Epoll!TypeOK
    /\ server = "kqueue" => Kqueue!TypeOK
    /\ server = "kqueue_single" => KqueueSingle!TypeOK
    /\ server \in AsyncServers => Async!TypeOK

\* A server that gets to its loop listens on a socket that is bound to its own
\* port and has nothing else open, whichever calls of the start-up failed.
ListensWhereBound == Setup!ListensWhereBound

\* What a server keeps about its sockets agrees with the descriptor table, at
\* every point of its loop: it never waits on or serves a closed descriptor and
\* forgets no open one (but for those whose registration with epoll failed, and
\* libev's of clients that have left).
SocketsTracked ==
    /\ server = "select" => Select!SocketsTracked
    /\ server = "poll" => Poll!SocketsTracked
    /\ server = "epoll" => Epoll!SocketsTracked
    /\ server = "kqueue" => Kqueue!SocketsTracked
    /\ server = "kqueue_single" => KqueueSingle!SocketsTracked
    /\ server \in AsyncServers => Async!SocketsTracked

\* An event of epoll or kqueue is served on the connection it was reported for:
\* no descriptor of the batch is closed, or closed and given to a connection
\* accepted in the same batch, before its turn.
EventsAreCurrent ==
    /\ server = "epoll" => Epoll!EventsAreCurrent
    /\ server = "kqueue" => Kqueue!EventsAreCurrent

\* A connection the client has ended is closed, unless the server goes down, or
\* epoll could not be told of it, or echo() keeps finding EAGAIN in errno: recv
\* returning 0 does not set errno, so what an earlier failed call left decides.
EndedIsClosed ==
    (<>[](errno # "EAGAIN")) =>
        \A s \in Fds :
            (s \in Open \ unwatched /\ link[owner[s]] # "up")
                ~> (s \notin Open \/ Down)

\* Bytes that have arrived at an accepted connection are taken up, however busy
\* the other connections are, unless epoll could not be told of it.
BytesAreTaken ==
    \A s \in Fds :
        (s \in Open \ unwatched /\ rx[owner[s]] # <<>>)
            ~> (s \notin Open \/ rx[owner[s]] = <<>> \/ Down)
=============================================================================
