----------------------------- MODULE EchoAsync ------------------------------
(***************************************************************************)
(* The echo servers of asynchronous_network/: with Boost.Asio ("asio"),    *)
(* libev and libevent.  The library waits and calls back; a callback runs  *)
(* to its end before the next one, but for the send of libev's read_cb,    *)
(* which blocks until the client has made room.                            *)
(*                                                                         *)
(*   asio      a Session reads, then writes all of it, then reads again    *)
(*   libev     read_cb reads and sends; at the end of a connection its     *)
(*             watcher is stopped and its socket stays open                *)
(*   libevent  echo_read_cb moves the input to the output, which grows     *)
(***************************************************************************)
EXTENDS EchoSockets

VARIABLES
    stage, socket_fd, files,    (* SocketSetup                             *)
    sessions,   (* descriptors with a Session, a watcher or a bufferevent  *)
    output,     (* [Fds -> bytes taken by the library and not yet written] *)
    accepting   (* an accept is under way                                  *)

asyncVars == <<sessions, output, accepting>>

LoopInit ==
    /\ sessions = {}
    /\ output = [s \in Fds |-> <<>>]
    /\ accepting = TRUE

\* The start-up.  When the port or the path cannot be had, Asio throws, libevent
\* returns a null listener that main goes on to use, and libev's main does not
\* notice: it waits for connections that cannot come ("deaf").
Start ==
    /\ stage = "getaddrinfo"
    /\ \/ /\ stage' = "serve"
          /\ socket_fd' = 0
          /\ files' = [fd \in {0} |-> "listening"]
       \/ /\ stage' = CASE server = "asio"     -> "failed"
                        [] server = "libev"    -> "deaf"
                        [] server = "libevent" -> "crashed"
          /\ UNCHANGED <<socket_fd, files>>

\* HandleAccept, accept_cb, accept_conn_cb: the new socket is read from.
AcceptNew ==
    /\ pc = "wait" /\ accepting
    /\ \E s \in Fds : Accept(s) /\ sessions' = sessions \union {s}
    /\ UNCHANGED <<pc, echoVars, output, accepting>>

\* No descriptor is left in the process or the system.  HandleAccept does not
\* accept again, libev gets a watcher of -1, accept_error_cb ends the loop.
AcceptError ==
    /\ pc = "wait" /\ accepting
    /\ backlog # <<>>
    /\ \/ server = "asio" /\ accepting' = FALSE /\ UNCHANGED pc
       \/ server \in {"libev", "libevent"} /\ pc' = "exited" /\ UNCHANGED accepting
    /\ UNCHANGED <<kernelVars, echoVars, sessions, output>>

\* io_service.run() returns when nothing is under way any more.
RunReturns ==
    /\ server = "asio" /\ pc = "wait"
    /\ ~accepting /\ sessions = {}
    /\ pc' = "exited"
    /\ UNCHANGED <<kernelVars, echoVars, asyncVars>>

Buffered(s) == server \in {"asio", "libevent"} /\ pc = "wait" /\ s \in sessions

\* A Session reads only after HandleWrite.
Reading(s) == Buffered(s) /\ (server = "asio" => output[s] = <<>>)

\* HandleRead without an error, echo_read_cb.
Take(s) ==
    /\ Reading(s)
    /\ LET c == owner[s]
           n == Least(kBufferSize, Len(rx[c]))
       IN  /\ n > 0
           /\ output' = [output EXCEPT ![s] = @ \o SubSeq(rx[c], 1, n)]
           /\ rx' = [rx EXCEPT ![c] = SubSeq(@, n + 1, Len(@))]
    /\ UNCHANGED <<conn, link, sent, echoed, unread, backlog, owner, pc, echoVars,
                   sessions, accepting>>

\* Seeded fault: a short write is taken for the whole.
RestForgotten(s, n) == <<>>

Rest(s, n) == SubSeq(output[s], n + 1, Len(output[s]))

\* The library writes what the kernel takes, until all is written.
Flush(s) ==
    /\ Buffered(s)
    /\ LET c == owner[s]
       IN  /\ link[c] \in {"up", "fin"}
           /\ \E n \in 1..Least(Len(output[s]), Room(c)) :
                 /\ echoed' = [echoed EXCEPT ![c] = @ \o SubSeq(output[s], 1, n)]
                 /\ unread' = [unread EXCEPT ![c] = @ + n]
                 /\ output' = [output EXCEPT ![s] = Rest(s, n)]
    /\ UNCHANGED <<conn, link, sent, rx, backlog, owner, pc, echoVars, sessions,
                   accepting>>

\* libevent writes with writev, and libevent_server.c does not ignore SIGPIPE.  Asio
\* asks for no signal.
Piped(s) == server = "libevent" /\ link[owner[s]] = "dead"

\* HandleRead or HandleWrite with an error, echo_event_cb: the socket is closed,
\* and output that is left is dropped.
End(s) ==
    /\ \/ Reading(s) /\ rx[owner[s]] = <<>> /\ link[owner[s]] # "up"
       \/ Buffered(s) /\ output[s] # <<>> /\ HungUp(s) /\ ~Piped(s)
    /\ Close(s)
    /\ sessions' = sessions \ {s}
    /\ output' = [output EXCEPT ![s] = <<>>]
    /\ UNCHANGED <<pc, echoVars, accepting>>

\* Output for a client that is gone ends the process, as in SendKills.
WriteKills(s) ==
    /\ Buffered(s) /\ output[s] # <<>> /\ Piped(s)
    /\ pc' = "killed"
    /\ UNCHANGED <<kernelVars, echoVars, asyncVars>>

Watched(s) == server = "libev" /\ pc = "wait" /\ s \in sessions

\* read_cb: recv returns bytes.
ReadCb(s) == Watched(s) /\ EchoRecv(s) /\ UNCHANGED asyncVars

\* recv returns -1: the watcher stays.
ReadCbFails(s) ==
    /\ Watched(s)
    /\ rx[owner[s]] = <<>> /\ link[owner[s]] = "reset"
    /\ link' = [link EXCEPT ![owner[s]] = "dead"]
    /\ UNCHANGED <<conn, sent, rx, echoed, unread, backlog, owner, pc, echoVars,
                   asyncVars>>

\* recv returns 0: the watcher is stopped and freed.
ReadCbEof(s) ==
    /\ Watched(s)
    /\ Eof(s)
    /\ sessions' = sessions \ {s}
    /\ UNCHANGED <<kernelVars, pc, echoVars, output, accepting>>

\* send blocks until it has sent all, or fails; no signal is raised.
BlockingSend ==
    /\ server = "libev" /\ pc = "send"
    /\ LET c == owner[socket]
       IN  \/ /\ link[c] \in {"up", "fin"}
              /\ \E n \in 1..Least(received, Room(c)) :
                    /\ echoed' = [echoed EXCEPT ![c] = @ \o SubSeq(buffer, 1, n)]
                    /\ unread' = [unread EXCEPT ![c] = @ + n]
                    /\ received' = received - n
                    /\ buffer' = SubSeq(buffer, n + 1, received)
              /\ UNCHANGED link
           \/ /\ link[c] \in {"reset", "dead"}
              /\ link' = [link EXCEPT ![c] = "dead"]
              /\ received' = 0
              /\ buffer' = <<>>
              /\ UNCHANGED <<echoed, unread>>
    /\ IF received' = 0 THEN pc' = "wait" /\ socket' = ServerFd
                        ELSE UNCHANGED <<pc, socket>>
    /\ UNCHANGED <<conn, sent, rx, backlog, owner, errno, asyncVars>>

SessionStep(s) ==
    \/ Take(s) \/ Flush(s) \/ End(s) \/ WriteKills(s)
    \/ ReadCb(s) \/ ReadCbFails(s) \/ ReadCbEof(s)

ServerStep ==
    \/ AcceptNew \/ RunReturns \/ BlockingSend
    \/ \E s \in Fds : SessionStep(s)

Next == ServerStep \/ AcceptError \/ (ClientStep /\ UNCHANGED asyncVars)
-----------------------------------------------------------------------------
TypeOK ==
    /\ EchoTypeOK
    /\ pc \in {"wait", "send", "exited", "killed"}
    /\ sessions \subseteq Fds
    /\ output \in [Fds -> Seq(Byte)]
    /\ accepting \in BOOLEAN

\* Every open socket has its session, and a session its open socket; libev keeps
\* the sockets of clients that have ended.  Only a socket with a session has
\* output, and that of a Session fits its data_.
SocketsTracked ==
    /\ sessions \subseteq Open
    /\ \A s \in Open \ sessions : server = "libev" /\ link[owner[s]] # "up"
    /\ \A s \in Fds : output[s] # <<>> => s \in sessions
    /\ server = "asio" => \A s \in Fds : Len(output[s]) <= kBufferSize
=============================================================================
