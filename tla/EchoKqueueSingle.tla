-------------------------- MODULE EchoKqueueSingle --------------------------
(***************************************************************************)
(* sockets_multiplexing/echo_server_kqueue_single_socket.cpp: kqueue, one  *)
(* event per call of kevent.  A failure to accept or to register a         *)
(* connection ends the server.                                             *)
(***************************************************************************)
EXTENDS EchoSockets

VARIABLE queue      (* the descriptors registered with the kqueue          *)

singleVars == <<vars, queue>>

LoopInit ==
    /\ queue = {ServerFd}

Init == server = "kqueue_single" /\ EchoInit /\ LoopInit

\* kevent returns one event, which is served at once: recv is the next call.
Serve(s) ==
    /\ pc = "wait"
    /\ s \in queue \ {ServerFd}
    /\ Readable(s)
    /\ EchoRecv(s) \/ EchoRecvFails(s)
    /\ UNCHANGED queue

ServeEof(s) ==
    /\ pc = "wait"
    /\ s \in queue \ {ServerFd}
    /\ Eof(s)
    /\ IF EchoOfEof THEN UNCHANGED <<kernelVars, queue>>
                    ELSE Close(s) /\ queue' = queue \ {s}
    /\ UNCHANGED <<pc, echoVars>>

Send ==
    /\ EchoSend("wait") \/ SendKills
    /\ UNCHANGED queue

\* kevent reports the listening socket.
AcceptEvent ==
    /\ pc = "wait"
    /\ backlog # <<>>
    /\ pc' = "accept"
    /\ UNCHANGED <<kernelVars, echoVars, queue>>

\* add_new_connection
AddNewConnection(s) == queue' = queue \union {s}

\* accept_new_connection
AcceptNewConnection ==
    /\ pc = "accept"
    /\ \/ \E s \in Fds : /\ Accept(s)
                         /\ AddNewConnection(s)
                         /\ pc' = "wait"
                         /\ UNCHANGED errno
       \/ \E s \in Fds : /\ Accept(s)
                         /\ errno' = "other"
                         /\ UNCHANGED queue
                         /\ pc' = "exited"
       \/ AcceptFails /\ UNCHANGED queue /\ pc' = "exited"
    /\ UNCHANGED <<buffer, received, socket>>

\* kevent fails and the loop ends.
KeventFails ==
    /\ WaitError("other")
    /\ pc' = "exited"
    /\ UNCHANGED queue

ServerStep ==
    \/ \E s \in Fds : Serve(s) \/ ServeEof(s)
    \/ Send
    \/ AcceptEvent
    \/ AcceptNewConnection

Next ==
    /\ ServerStep \/ KeventFails \/ (ClientStep /\ UNCHANGED queue)
    /\ UNCHANGED server

Spec == Init /\ [][Next]_singleVars
-----------------------------------------------------------------------------
TypeOK ==
    /\ EchoTypeOK
    /\ pc \in {"wait", "send", "accept", "exited", "killed"}
    /\ queue \subseteq Fds \union {ServerFd}

\* As long as the server runs, exactly the open sockets are registered.
SocketsTracked == ~Down => queue = Open \union {ServerFd}
=============================================================================
