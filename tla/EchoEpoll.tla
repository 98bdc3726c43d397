------------------------------ MODULE EchoEpoll -----------------------------
(***************************************************************************)
(* sockets_multiplexing/echo_server_epoll.cpp: level-triggered epoll.  One *)
(* epoll_wait returns a batch of events that is served while clients go    *)
(* on, sockets are closed and their descriptors are given to connections   *)
(* accepted in the middle of the batch.                                    *)
(*                                                                         *)
(* An event carries, besides data.fd and whether EPOLLERR or EPOLLHUP is   *)
(* set, the client it was reported for (who), which the code does not see. *)
(***************************************************************************)
EXTENDS EchoSockets

VARIABLES
    watched,    (* the descriptors added to epoll                          *)
    events,     (* main: the events of the batch still to be served        *)
    unwatched   (* open descriptors that could not be added to epoll       *)

loopVars  == <<watched, events, unwatched>>
epollVars == <<vars, loopVars>>

Event == [fd : Fds \union {ServerFd}, hup : BOOLEAN,
          who : Clients \union {Nobody}]

LoopInit ==
    /\ watched = {ServerFd}
    /\ events = {}
    /\ unwatched = {}

Init == server = "epoll" /\ EchoInit /\ LoopInit

\* The events epoll could report now; err: the listening socket has an error.
Reportable(err) ==
    {[fd |-> s, hup |-> HungUp(s), who |-> owner[s]] :
        s \in {t \in watched \ {ServerFd} : Readable(t)}} \union
    (IF backlog # <<>> \/ err
     THEN {[fd |-> ServerFd, hup |-> err, who |-> Nobody]} ELSE {})

epoll_wait ==
    /\ pc = "wait"
    /\ \E err \in BOOLEAN :
          /\ events' \in SUBSET Reportable(err)
          /\ Cardinality(events') =
                 Least(kEventsSize, Cardinality(Reportable(err)))
    /\ events' # {}
    /\ pc' = "serve"
    /\ UNCHANGED <<kernelVars, echoVars, watched, unwatched>>

\* epoll_wait fails and the loop ends.
EpollWaitFails ==
    /\ WaitError("other")
    /\ pc' = "exited"
    /\ UNCHANGED loopVars

\* Seeded fault: the event of a connection is gone over twice.
DoneStays(e) == IF e.fd = ServerFd THEN events \ {e} ELSE events

\* The events left once e is served.
Done(e) == events \ {e}

Serve(e) ==
    /\ pc = "serve"
    /\ e.fd # ServerFd /\ ~e.hup
    /\ EchoRecv(e.fd) \/ EchoRecvFails(e.fd)
    /\ events' = Done(e)
    /\ UNCHANGED <<watched, unwatched>>

\* recv returned 0.  Closing a descriptor also takes it out of epoll.
ServeEof(e) ==
    /\ pc = "serve"
    /\ e.fd # ServerFd /\ ~e.hup
    /\ Eof(e.fd)
    /\ IF EchoOfEof THEN UNCHANGED <<kernelVars, watched>>
                    ELSE Close(e.fd) /\ watched' = watched \ {e.fd}
    /\ events' = Done(e)
    /\ UNCHANGED <<pc, echoVars, unwatched>>

\* EPOLLERR or EPOLLHUP: the socket is closed, and then still passed to echo().
HangUp(e) ==
    /\ pc = "serve"
    /\ e.fd # ServerFd /\ e.hup
    /\ Close(e.fd)
    /\ watched' = watched \ {e.fd}
    /\ socket' = e.fd
    /\ pc' = "echo_closed"
    /\ events' = Done(e)
    /\ UNCHANGED <<errno, buffer, received, unwatched>>

EchoClosed ==
    /\ pc = "echo_closed"
    /\ EchoRecvFails(socket)
    /\ UNCHANGED loopVars

Send ==
    /\ EchoSend("serve") \/ SendKills
    /\ UNCHANGED loopVars

\* add_new_connection
AddNewConnection(s) == watched' = watched \union {s}

\* accept_new_connection: a socket that cannot be added stays open, unwatched.
AcceptNewConnection(e) ==
    /\ pc = "serve"
    /\ e.fd = ServerFd /\ ~e.hup
    /\ \/ \E s \in Fds : /\ Accept(s)
                         /\ AddNewConnection(s)
                         /\ UNCHANGED <<unwatched, errno>>
       \/ \E s \in Fds : /\ Accept(s)
                         /\ unwatched' = unwatched \union {s}
                         /\ errno' = "other"
                         /\ UNCHANGED watched
       \/ AcceptFails /\ UNCHANGED <<watched, unwatched>>
    /\ events' = Done(e)
    /\ UNCHANGED <<pc, buffer, received, socket>>

\* EPOLLERR or EPOLLHUP on the listening socket: main returns.
ServerSocketClosed(e) ==
    /\ pc = "serve"
    /\ e.fd = ServerFd /\ e.hup
    /\ pc' = "exited"
    /\ UNCHANGED <<kernelVars, echoVars, loopVars>>

Finish ==
    /\ pc = "serve"
    /\ events = {}
    /\ pc' = "wait"
    /\ UNCHANGED <<kernelVars, echoVars, loopVars>>

ServerStep ==
    \/ epoll_wait
    \/ \E e \in events : \/ Serve(e) \/ ServeEof(e) \/ HangUp(e)
                         \/ AcceptNewConnection(e) \/ ServerSocketClosed(e)
    \/ EchoClosed
    \/ Send
    \/ Finish

Next ==
    /\ ServerStep \/ EpollWaitFails \/ (ClientStep /\ UNCHANGED loopVars)
    /\ UNCHANGED server

Reports(s) == \E e \in events' : e.fd = s

Spec == Init /\ [][Next]_epollVars
-----------------------------------------------------------------------------
TypeOK ==
    /\ EchoTypeOK
    /\ pc \in {"wait", "serve", "echo_closed", "send", "exited", "killed"}
    /\ watched \subseteq Fds \union {ServerFd}
    /\ events \subseteq Event
    /\ unwatched \subseteq Fds

\* Every open socket is watched by epoll, but for those whose addition failed,
\* and the listening socket always is.
SocketsTracked ==
    /\ watched = (Open \ unwatched) \union {ServerFd}
    /\ unwatched \subseteq Open

\* An event is served on the connection it was reported for: no descriptor of
\* the batch is closed, or closed and given to a new connection, before its turn.
EventsAreCurrent ==
    \A e \in events :
        e.fd # ServerFd => e.fd \in Open /\ owner[e.fd] = e.who
=============================================================================
