----------------------------- MODULE EchoKqueue -----------------------------
(***************************************************************************)
(* sockets_multiplexing/echo_server_kqueue.cpp: level-triggered kqueue.    *)
(* A batch of events is served; a connection accepted in the middle of it  *)
(* is only collected in new_sockets and registered when the batch is over. *)
(*                                                                         *)
(* An event is [fd, who]: its ident, and the client it was reported for,   *)
(* which the code does not see.  Only EVFILT_READ is registered, so the    *)
(* test of event.filter never skips an event.                              *)
(***************************************************************************)
EXTENDS EchoSockets

VARIABLES
    queue,          (* the descriptors registered with the kqueue          *)
    event_list,     (* main: the events of the batch still to be served    *)
    new_sockets     (* main: accepted and not yet registered               *)

loopVars   == <<queue, event_list, new_sockets>>
kqueueVars == <<vars, loopVars>>

Event == [fd : Fds \union {ServerFd}, who : Clients \union {Nobody}]

LoopInit ==
    /\ queue = {ServerFd}
    /\ event_list = {}
    /\ new_sockets = {}

Init == server = "kqueue" /\ EchoInit /\ LoopInit

\* The events kqueue could report now.
Reportable ==
    {[fd |-> s, who |-> owner[s]] :
        s \in {t \in queue \ {ServerFd} : Readable(t)}} \union
    (IF backlog # <<>> THEN {[fd |-> ServerFd, who |-> Nobody]} ELSE {})

kevent ==
    /\ pc = "wait"
    /\ event_list' \in SUBSET Reportable
    /\ Cardinality(event_list') =
           Least(kEventsSize, Cardinality(Reportable))
    /\ event_list' # {}
    /\ new_sockets' = {}
    /\ pc' = "serve"
    /\ UNCHANGED <<kernelVars, echoVars, queue>>

\* kevent fails and the loop ends.
KeventFails ==
    /\ WaitError("other")
    /\ pc' = "exited"
    /\ UNCHANGED loopVars

\* The events left once e is served.
Done(e) == event_list \ {e}

Serve(e) ==
    /\ pc = "serve"
    /\ e.fd # ServerFd
    /\ EchoRecv(e.fd) \/ EchoRecvFails(e.fd)
    /\ event_list' = Done(e)
    /\ UNCHANGED <<queue, new_sockets>>

\* recv returned 0.  Closing a descriptor also takes it out of the kqueue.
ServeEof(e) ==
    /\ pc = "serve"
    /\ e.fd # ServerFd
    /\ Eof(e.fd)
    /\ IF EchoOfEof THEN UNCHANGED <<kernelVars, queue>>
                    ELSE Close(e.fd) /\ queue' = queue \ {e.fd}
    /\ event_list' = Done(e)
    /\ UNCHANGED <<pc, echoVars, new_sockets>>

Send ==
    /\ EchoSend("serve") \/ SendKills
    /\ UNCHANGED loopVars

\* accept_new_connection: a failure is reported and otherwise ignored.
AcceptNewConnection(e) ==
    /\ pc = "serve"
    /\ e.fd = ServerFd
    /\ \/ /\ \E s \in Fds : Accept(s) /\ new_sockets' = new_sockets \union {s}
          /\ UNCHANGED errno
       \/ AcceptFails /\ UNCHANGED new_sockets
    /\ event_list' = Done(e)
    /\ UNCHANGED <<pc, buffer, received, socket, queue>>

\* Seeded fault: the new sockets are dropped instead of registered.
RegisteredNone == queue

\* What add_new_sockets registers.
Registered == queue \union new_sockets

\* The batch is over: add_new_sockets, whose failure ends the loop.
Finish ==
    /\ pc = "serve"
    /\ event_list = {}
    /\ \/ queue' = Registered /\ pc' = "wait" /\ UNCHANGED errno
       \/ /\ new_sockets # {}
          /\ queue' = queue /\ pc' = "exited" /\ errno' = "other"
    /\ new_sockets' = {}
    /\ UNCHANGED <<kernelVars, buffer, received, socket, event_list>>

ServerStep ==
    \/ kevent
    \/ \E e \in event_list : Serve(e) \/ ServeEof(e) \/ AcceptNewConnection(e)
    \/ Send
    \/ Finish

Next ==
    /\ ServerStep \/ KeventFails \/ (ClientStep /\ UNCHANGED loopVars)
    /\ UNCHANGED server

Reports(s) == \E e \in event_list' : e.fd = s

Spec == Init /\ [][Next]_kqueueVars
-----------------------------------------------------------------------------
TypeOK ==
    /\ EchoTypeOK
    /\ pc \in {"wait", "serve", "send", "exited", "killed"}
    /\ queue \subseteq Fds \union {ServerFd}
    /\ event_list \subseteq Event
    /\ new_sockets \subseteq Fds

\* Whenever the server waits, every open socket is registered and nothing else
\* is; inside a batch the difference is exactly the sockets just accepted, even
\* if one of them has got the number of a socket closed in the same batch.
SocketsTracked ==
    ~Down => /\ Open \union {ServerFd} = queue \union new_sockets
             /\ queue \intersect new_sockets = {}
             /\ pc = "wait" => new_sockets = {}

\* An event is served on the connection it was reported for.
EventsAreCurrent ==
    \A e \in event_list :
        e.fd # ServerFd => e.fd \in Open /\ owner[e.fd] = e.who
=============================================================================
