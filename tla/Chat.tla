-------------------------------- MODULE Chat --------------------------------
(***************************************************************************)
(* sockets_multiplexing/chat.cpp: what one client writes is sent to all of *)
(* them.  The sockets, the clients and the kernel are those of             *)
(* EchoSockets; unread counts messages here, and echoed is not used.  The  *)
(* messages differ in their wording only, so one is the text it carries:   *)
(* none for " connected!", " disconnected!" and the bare address.          *)
(*                                                                         *)
(* Clients write less text than fills the static buffer and message.       *)
(***************************************************************************)
EXTENDS EchoSockets

VARIABLES
    reach,          (* where the master socket listens                     *)
    slave_sockets,  (* slave_sockets                                       *)
    watched,        (* the descriptors added to epoll                      *)
    events,         (* main: descriptors of the batch, still to be served  *)
    unwatched,      (* open descriptors that could not be added to epoll   *)
    message         (* main: the text in message, during SendToAll         *)

loopVars == <<reach, slave_sockets, watched, events, unwatched, message>>
chatVars == <<vars, loopVars>>

NoSocket == -1

\* main begins; its sockets are as in the echo servers.
Init ==
    /\ server = "chat"
    /\ EchoInit
    /\ reach = "unknown"
    /\ slave_sockets = {}
    /\ watched = {}
    /\ events = {}
    /\ unwatched = {}
    /\ message = <<>>

\* No call of the start-up is checked.  If bind fails listen picks another port,
\* if socket, listen or epoll fail nobody is ever served.
StartUp ==
    /\ reach = "unknown"
    /\ reach' \in {"port", "elsewhere", "nowhere"}
    /\ watched' = IF reach' = "nowhere" THEN {} ELSE {ServerFd}
    /\ UNCHANGED <<kernelVars, pc, echoVars, slave_sockets, events, unwatched,
                   message>>

\* epoll reports what is readable, at most MAX_EVENTS of it.
epoll_wait ==
    /\ pc = "wait" /\ reach = "port"
    /\ LET ready == {s \in watched : IF s = ServerFd THEN backlog # <<>>
                                                     ELSE Readable(s)}
       IN  /\ ready # {}
           /\ events' \in SUBSET ready
           /\ Cardinality(events') = Least(kEventsSize, Cardinality(ready))
    /\ pc' = "serve"
    /\ UNCHANGED <<kernelVars, echoVars, reach, slave_sockets, watched,
                   unwatched, message>>

\* epoll_wait fails: the loop compares n = -1 as an unsigned number and runs
\* out of the array events until it meets the end of the stack.
EpollWaitFails ==
    /\ reach # "unknown"
    /\ WaitError("other")
    /\ pc' = "killed"
    /\ UNCHANGED loopVars

\* errno after getpeername, which fails for the master socket and for a
\* connection that was reset.
AfterGetPeerName(s) ==
    IF s = ServerFd \/ link[owner[s]] \in {"reset", "dead"} THEN "other" ELSE errno

\* The event of s is dealt with, and SendToAll sends text to the members.
SendsToAll(s, members, text) ==
    /\ slave_sockets' = members
    /\ message' = text
    /\ events' = events \ {s}
    /\ pc' = "send_to_all"
    /\ UNCHANGED <<received, socket, reach>>

\* Seeded fault: the master socket is inserted.
InsertedMaster(s) == slave_sockets \union {ServerFd}

Inserted(s) == slave_sockets \union {s}

\* A failed accept puts -1 into slave_sockets, a failed epoll_ctl is ignored;
\* both are announced.
Accepts ==
    /\ pc = "serve"
    /\ ServerFd \in events
    /\ \/ \E s \in Fds :
             /\ Accept(s)
             /\ SendsToAll(ServerFd, Inserted(s), <<>>)
             /\ \/ watched' = watched \union {s} /\ UNCHANGED unwatched
                \/ unwatched' = unwatched \union {s} /\ UNCHANGED watched
       \/ /\ SendsToAll(ServerFd, Inserted(NoSocket), <<>>)
          /\ UNCHANGED <<kernelVars, watched, unwatched>>
    /\ errno' = AfterGetPeerName(ServerFd)
    /\ UNCHANGED buffer

\* Seeded fault: buffer[recv_size] = 0 is missing, so that what earlier messages
\* left behind it is sent as well.
TextUnterminated(n, c) == Filled(n, c)

\* What strcat appends to message after recv has put n bytes into the buffer.
Text(n, c) == SubSeq(Filled(n, c), 1, n)

\* recv_size > 0
Receives(s) ==
    /\ pc = "serve"
    /\ s \in events \ {ServerFd}
    /\ LET c == owner[s]
           n == Least(kBufferSize, Len(rx[c]))
       IN  /\ n > 0
           /\ buffer' = Filled(n, c)
           /\ rx' = [rx EXCEPT ![c] = SubSeq(@, n + 1, Len(@))]
           /\ SendsToAll(s, slave_sockets, Text(n, c))
    /\ errno' = AfterGetPeerName(s)
    /\ UNCHANGED <<conn, link, sent, echoed, unread, backlog, owner, watched,
                   unwatched>>

\* recv_size < 0: the address alone is sent to all.
ReceiveFails(s) ==
    /\ pc = "serve"
    /\ s \in events \ {ServerFd}
    /\ rx[owner[s]] = <<>> /\ link[owner[s]] = "reset"
    /\ link' = [link EXCEPT ![owner[s]] = "dead"]
    /\ errno' = "other"
    /\ SendsToAll(s, slave_sockets, <<>>)
    /\ UNCHANGED <<conn, sent, rx, echoed, unread, backlog, owner, buffer,
                   watched, unwatched>>

\* Seeded faults: a client that has left stays in slave_sockets; the test asks
\* for the opposite of what it means.
ErasedNot(s)        == slave_sockets
TakesLeaveEagain(s) == AfterGetPeerName(s) = "EAGAIN"

Erased(s) == slave_sockets \ {s}

\* recv has returned 0; it leaves errno alone.
TakesLeave(s) == AfterGetPeerName(s) # "EAGAIN"

\* recv_size = 0: the socket is closed, unless errno is still EAGAIN from a send;
\* in that case the address alone is sent to all.
Leaves(s) ==
    /\ pc = "serve"
    /\ s \in events \ {ServerFd}
    /\ Eof(s)
    /\ IF TakesLeave(s)
       THEN /\ Close(s)
            /\ SendsToAll(s, Erased(s), <<>>)
            /\ watched' = watched \ {s}
       ELSE /\ SendsToAll(s, slave_sockets, <<>>)
            /\ UNCHANGED <<kernelVars, watched>>
    /\ errno' = AfterGetPeerName(s)
    /\ UNCHANGED <<buffer, unwatched>>

\* The send to an open socket s takes nothing: the connection is gone, or the
\* send buffer is too full (EAGAIN).
MayFail(s) == link[owner[s]] \in {"reset", "dead"} \/ unread[owner[s]] > 0

MayTake(s) == link[owner[s]] \in {"up", "fin"} /\ Room(owner[s]) > 0

\* errno after the sends to the sockets in failed, in ascending order.
AfterSends(failed) ==
    IF failed = {} THEN errno
    ELSE LET last == CHOOSE s \in failed : \A t \in failed : t <= s
         IN  IF last # NoSocket /\ link[owner[last]] \in {"up", "fin"}
             THEN "EAGAIN" ELSE "other"

\* SendToAll.  The results of send are not looked at: a message, or the end of
\* one, that does not fit into a send buffer is lost.  Each send touches one
\* connection only, so the clients' steps in between are covered by those before
\* and after.
SendToAll ==
    /\ pc = "send_to_all"
    /\ \E taken \in SUBSET Open :
          LET failed == slave_sockets \ taken
              Took(c) == \E s \in taken : owner[s] = c
          IN  /\ \A s \in taken : MayTake(s)
              /\ \A s \in failed \ {NoSocket} : MayFail(s)
              /\ unread' = [c \in Clients |->
                               unread[c] + IF Took(c) THEN 1 ELSE 0]
              /\ link' = [c \in Clients |->
                             IF link[c] = "reset" /\ \E s \in failed \ {NoSocket} :
                                                       owner[s] = c
                             THEN "dead" ELSE link[c]]
              /\ errno' = AfterSends(failed)
    /\ message' = <<>>
    /\ pc' = IF events = {} THEN "wait" ELSE "serve"
    /\ UNCHANGED <<conn, sent, rx, echoed, backlog, owner, buffer, received,
                   socket, reach, slave_sockets, watched, events, unwatched>>

ServerStep ==
    /\ \/ StartUp
       \/ epoll_wait
       \/ Accepts
       \/ \E s \in Fds : Receives(s) \/ ReceiveFails(s) \/ Leaves(s)
       \/ SendToAll
    /\ UNCHANGED server

Next ==
    \/ ServerStep
    \/ EpollWaitFails /\ UNCHANGED server
    \/ reach = "port" /\ ClientStep /\ UNCHANGED <<server, loopVars>>

\* epoll reports descriptor s.
Turn(s) == epoll_wait /\ s \in events' /\ UNCHANGED server

\* The server is scheduled, and epoll moves the descriptors that it has reported
\* to the end of its list.
Spec ==
    /\ Init /\ [][Next]_chatVars
    /\ WF_chatVars(ServerStep)
    /\ \A s \in Fds : SF_chatVars(Turn(s))
-----------------------------------------------------------------------------
TypeOK ==
    /\ EchoTypeOK
    /\ pc \in {"wait", "serve", "send_to_all", "killed"}
    /\ reach \in {"unknown", "port", "elsewhere", "nowhere"}
    /\ slave_sockets \subseteq Fds \union {NoSocket}
    /\ watched \subseteq Fds \union {ServerFd}
    /\ events \subseteq Fds \union {ServerFd}
    /\ unwatched \subseteq Fds
    /\ message \in Seq(Byte)

\* SendToAll and the loop only ever use descriptors that are open: the members of
\* the chat are exactly the open connections (and perhaps -1), and no descriptor
\* of the batch was closed since epoll_wait.
MembersAreConnections ==
    /\ slave_sockets \ {NoSocket} = Open
    /\ watched \ {ServerFd} = Open \ unwatched
    /\ events \subseteq watched

\* The text that is sent to all is what its author wrote, from the first byte
\* that has not been sent yet, and nothing else: the static buffer still holds
\* the texts of other clients, and descriptors are reused.
TextIsGenuine ==
    message # <<>> =>
        LET c == message[1][1]
            first == sent[c] - Len(rx[c]) - Len(message)
        IN  message = [i \in 1..Len(message) |-> <<c, first + i>>]

\* A client that has left the chat is removed from it, unless epoll could not be
\* told of it or sends to slow clients keep EAGAIN in errno, which recv does not
\* clear.
LeaversAreClosed ==
    (<>[](errno # "EAGAIN")) =>
        \A s \in Fds :
            (s \in Open \ unwatched /\ link[owner[s]] # "up")
                ~> (s \notin Open \/ Down)
=============================================================================
