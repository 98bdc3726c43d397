---------------------------- MODULE EchoSockets -----------------------------
(***************************************************************************)
(* What the five echo servers of sockets_multiplexing/ share: the kernel's *)
(* side of their sockets, the clients, and the function echo().            *)
(*                                                                         *)
(* A connection is identified with the client that opened it.  Byte i that *)
(* client c writes is <<c, i>>, so that a byte shows whose it is and where *)
(* it belongs.  Descriptor ServerFd is the listening socket, 1..NFds are   *)
(* the descriptors the process has left for connections.                   *)
(*                                                                         *)
(* The state of the TCP connection under an accepted socket is in link[c]: *)
(*    "up"     both directions are open                                    *)
(*    "fin"    the client has shut down its direction                      *)
(*    "reset"  the client has reset it and the error is still pending      *)
(*    "dead"   reset, the pending error has been consumed                  *)
(***************************************************************************)
EXTENDS Integers, Sequences, FiniteSets

CONSTANTS
    Clients,        (* the clients, each connects once                     *)
    NFds,           (* descriptors available for accepted sockets          *)
    kBufferSize,    (* kBufferSize of the servers                          *)
    SndBuf,         (* room in a socket's send buffer                      *)
    MaxSent,        (* bound: bytes a client writes                        *)
    kEventsSize,    (* most events one epoll_wait or kevent returns        *)
    Nobody          (* the client of an event of the listening socket      *)

ASSUME EchoAssumption ==
    /\ NFds \in Nat \ {0}
    /\ kBufferSize \in Nat \ {0}
    /\ SndBuf \in Nat \ {0}
    /\ MaxSent \in Nat
    /\ kEventsSize \in Nat \ {0}
    /\ Nobody \notin Clients

VARIABLES
    server,     (* the server that runs: "select", "poll", "epoll", ...    *)
    conn,       (* [Clients -> "new", "queued", "accepted", "closed"]      *)
    link,       (* [Clients -> state of the TCP connection]                *)
    sent,       (* [Clients -> number of bytes written]                    *)
    rx,         (* [Clients -> bytes in the socket's receive queue]        *)
    echoed,     (* [Clients -> bytes the server has sent back]             *)
    unread,     (* [Clients -> how many of them fill the send buffer]      *)
    backlog,    (* the queue of the listening socket                       *)
    owner,      (* the descriptor table: [open descriptors -> Clients]     *)
    pc,         (* where the server is                                     *)
    errno,      (* errno of the server: "EAGAIN" or "other"                  *)
    buffer,     (* net::buffer, shared by all connections                  *)
    received,   (* echo(): received_message_size; -1 stands for SIZE_MAX   *)
    socket      (* echo(): its argument                                    *)

kernelVars == <<conn, link, sent, rx, echoed, unread, backlog, owner>>
echoVars   == <<errno, buffer, received, socket>>
vars       == <<server, kernelVars, pc, echoVars>>

\* The kqueue servers run on a BSD kernel, the others on Linux.
BSD == server \in {"kqueue", "kqueue_single"}

ServerFd == 0
Fds      == 1..NFds
Open     == DOMAIN owner
Byte     == Clients \X (1..MaxSent)
Down     == pc \in {"exited", "killed"}

Least(a, b) == IF a <= b THEN a ELSE b

EchoInit ==
    /\ conn = [c \in Clients |-> "new"]
    /\ link = [c \in Clients |-> "up"]
    /\ sent = [c \in Clients |-> 0]
    /\ rx = [c \in Clients |-> <<>>]
    /\ echoed = [c \in Clients |-> <<>>]
    /\ unread = [c \in Clients |-> 0]
    /\ backlog = <<>>
    /\ owner = [s \in {} |-> ServerFd]
    /\ pc = "wait"
    /\ errno = "other"
    /\ buffer = <<>>
    /\ received = 0
    /\ socket = ServerFd
-----------------------------------------------------------------------------
(***************************************************************************)
(* The clients and the network                                             *)
(***************************************************************************)
Connected(c) == conn[c] \in {"queued", "accepted"}

Connect(c) ==
    /\ conn[c] = "new"
    /\ conn' = [conn EXCEPT ![c] = "queued"]
    /\ backlog' = Append(backlog, c)
    /\ UNCHANGED <<link, sent, rx, echoed, unread, owner>>

Write(c) ==
    /\ Connected(c)
    /\ link[c] = "up"
    /\ sent[c] < MaxSent
    /\ sent' = [sent EXCEPT ![c] = @ + 1]
    /\ rx' = [rx EXCEPT ![c] = Append(@, <<c, sent[c] + 1>>)]
    /\ UNCHANGED <<conn, link, echoed, unread, backlog, owner>>

\* The client takes a byte of the echo, which frees room in the send buffer.
Read(c) ==
    /\ unread[c] > 0
    /\ unread' = [unread EXCEPT ![c] = @ - 1]
    /\ UNCHANGED <<conn, link, sent, rx, echoed, backlog, owner>>

Shutdown(c) ==
    /\ Connected(c)
    /\ link[c] = "up"
    /\ link' = [link EXCEPT ![c] = "fin"]
    /\ UNCHANGED <<conn, sent, rx, echoed, unread, backlog, owner>>

\* A reset arrives.  On Linux one that follows a FIN leaves no error for recv.
Reset(c) ==
    /\ conn[c] = "accepted" \/ (conn[c] = "queued" /\ ~BSD)
    /\ link[c] \in {"up", "fin"}
    /\ link' = [link EXCEPT ![c] = IF @ = "up" \/ BSD THEN "reset" ELSE "dead"]
    /\ UNCHANGED <<conn, sent, rx, echoed, unread, backlog, owner>>

\* A BSD kernel takes a connection that is reset before accept out of the queue.
Abort(c) ==
    /\ BSD
    /\ conn[c] = "queued"
    /\ conn' = [conn EXCEPT ![c] = "closed"]
    /\ link' = [link EXCEPT ![c] = "reset"]
    /\ \E k \in DOMAIN backlog :
          /\ backlog[k] = c
          /\ backlog' = SubSeq(backlog, 1, k - 1) \o
                        SubSeq(backlog, k + 1, Len(backlog))
    /\ UNCHANGED <<sent, rx, echoed, unread, owner>>

\* The server's own state is not touched by the clients.
ClientStep ==
    /\ ~Down
    /\ \E c \in Clients : \/ Connect(c)
                          \/ Write(c)
                          \/ Read(c)
                          \/ Shutdown(c)
                          \/ Reset(c)
                          \/ Abort(c)
    /\ UNCHANGED <<pc, echoVars>>
-----------------------------------------------------------------------------
(***************************************************************************)
(* System calls                                                            *)
(***************************************************************************)
\* select, poll, epoll and kqueue report a socket that recv would not block on.
Readable(s) == rx[owner[s]] # <<>> \/ link[owner[s]] # "up"

\* EPOLLERR or EPOLLHUP: both directions are gone.
HungUp(s) == link[owner[s]] \in {"reset", "dead"}

\* accept succeeds with the lowest free descriptor, in the caller's table.
Accept(s) ==
    /\ backlog # <<>>
    /\ s \in Fds \ Open
    /\ \A t \in Fds \ Open : s <= t
    /\ backlog' = Tail(backlog)
    /\ conn' = [conn EXCEPT ![Head(backlog)] = "accepted"]
    /\ owner' = [t \in Open \union {s} |->
                    IF t = s THEN Head(backlog) ELSE owner[t]]
    /\ UNCHANGED <<link, sent, rx, echoed, unread>>

\* accept fails: the connection is gone again, or descriptors have run out in
\* the process (EMFILE) or, at any time, in the system (ENFILE).
AcceptFails ==
    /\ \/ backlog = <<>> /\ errno' = "EAGAIN"
       \/ backlog # <<>> /\ errno' = "other"
    /\ UNCHANGED kernelVars

Close(s) ==
    /\ conn' = [conn EXCEPT ![owner[s]] = "closed"]
    /\ owner' = [t \in Open \ {s} |-> owner[t]]
    /\ UNCHANGED <<link, sent, rx, echoed, unread, backlog>>

\* The waiting call itself fails (an interrupted call, no memory).
WaitError(e) ==
    /\ pc = "wait"
    /\ errno' = e
    /\ UNCHANGED <<kernelVars, buffer, received, socket>>
-----------------------------------------------------------------------------
(***************************************************************************)
(* bool echo(int socket), split at the system calls: recv (EchoRecv,       *)
(* EchoRecvFails or Eof), then send (pc = "send").  The servers call it    *)
(* only for a socket reported as readable, and nobody else reads from that *)
(* socket, so recv never fails with EAGAIN.                                *)
(***************************************************************************)
\* Seeded fault: the bytes go behind what the last call left in the buffer.
FilledBehind(n, c) == buffer \o SubSeq(rx[c], 1, n)

\* recv overwrites the front of the buffer and leaves the rest as it was.
Filled(n, c) ==
    SubSeq(rx[c], 1, n) \o SubSeq(buffer, n + 1, Len(buffer))

EchoRecv(s) ==
    /\ s \in Open
    /\ LET c == owner[s]
           n == Least(kBufferSize, Len(rx[c]))
       IN  /\ n > 0
           /\ received' = n
           /\ buffer' = Filled(n, c)
           /\ rx' = [rx EXCEPT ![c] = SubSeq(@, n + 1, Len(@))]
    /\ socket' = s
    /\ pc' = "send"
    /\ UNCHANGED <<conn, link, sent, echoed, unread, backlog, owner, errno>>

\* recv returns -1.  received_message_size is a size_t, so the test "<= 0" does
\* not see the error and echo() goes on to send.
EchoRecvFails(s) ==
    /\ \/ /\ s \in Open /\ rx[owner[s]] = <<>> /\ link[owner[s]] = "reset"
          /\ link' = [link EXCEPT ![owner[s]] = "dead"]
       \/ s \notin Open /\ UNCHANGED link
    /\ errno' = "other"
    /\ received' = -1
    /\ socket' = s
    /\ pc' = "send"
    /\ UNCHANGED <<conn, sent, rx, echoed, unread, backlog, owner, buffer>>

\* recv returns 0: the end of the client's bytes.  It leaves errno alone.
Eof(s) == s \in Open /\ rx[owner[s]] = <<>> /\ link[owner[s]] \in {"fin", "dead"}

\* Seeded fault: a closed connection is reported like a successful echo.
EchoOfEofTrue == TRUE

\* What echo() returns then.
EchoOfEof == errno = "EAGAIN"

\* Seeded fault: the whole buffer is sent.
MessageWhole == buffer

\* What send is asked to send; with SIZE_MAX that is at least the whole buffer.
Message == IF received = -1 THEN buffer ELSE SubSeq(buffer, 1, received)

\* The room left in the send buffer.
Room(c) == SndBuf - unread[c]

\* send takes what fits into the send buffer, or less: the kernel accounts for
\* whole packets.  The rest of the message is lost.
SendData ==
    /\ socket \in Open
    /\ received # -1
    /\ LET c == owner[socket]
       IN  /\ link[c] \in {"up", "fin"}
           /\ \E n \in 1..Least(Len(Message), Room(c)) :
                 /\ echoed' = [echoed EXCEPT ![c] = @ \o SubSeq(Message, 1, n)]
                 /\ unread' = [unread EXCEPT ![c] = @ + n]
    /\ UNCHANGED <<conn, link, sent, rx, backlog, owner, errno>>

\* send returns -1 and the message is lost; echo() reports it and returns true.
SendFails ==
    /\ \/ /\ socket \notin Open \/ (received = -1 /\ BSD)
          /\ errno' = "other"
          /\ UNCHANGED link
       \/ /\ socket \in Open /\ received # -1
          /\ link[owner[socket]] \in {"up", "fin"}
          /\ unread[owner[socket]] > 0
          /\ errno' = "EAGAIN"
          /\ UNCHANGED link
       \/ /\ socket \in Open /\ received # -1
          /\ link[owner[socket]] = "reset" /\ ~BSD
          /\ link' = [link EXCEPT ![owner[socket]] = "dead"]
          /\ errno' = "other"
    /\ UNCHANGED <<conn, sent, rx, echoed, unread, backlog, owner>>

\* echo() is over and its caller goes on at next.
EchoSend(next) ==
    /\ pc = "send"
    /\ SendData \/ SendFails
    /\ received' = 0
    /\ socket' = ServerFd
    /\ pc' = next
    /\ UNCHANGED buffer

\* send on a connection that is gone raises SIGPIPE, whose default action ends
\* the process: flags is 0 and the servers do not ignore the signal.
SendKills ==
    /\ pc = "send"
    /\ socket \in Open
    /\ \/ link[owner[socket]] = "dead" /\ (received # -1 \/ ~BSD)
       \/ link[owner[socket]] = "reset" /\ received # -1 /\ BSD
    /\ pc' = "killed"
    /\ UNCHANGED <<kernelVars, echoVars>>
-----------------------------------------------------------------------------
(***************************************************************************)
(* Properties of every server                                              *)
(***************************************************************************)
EchoTypeOK ==
    /\ conn \in [Clients -> {"new", "queued", "accepted", "closed"}]
    /\ link \in [Clients -> {"up", "fin", "reset", "dead"}]
    /\ sent \in [Clients -> 0..MaxSent]
    /\ rx \in [Clients -> Seq(Byte)]
    /\ echoed \in [Clients -> Seq(Byte)]
    /\ unread \in [Clients -> 0..SndBuf]
    /\ backlog \in Seq(Clients)
    /\ Open \subseteq Fds /\ owner \in [Open -> Clients]
    /\ errno \in {"EAGAIN", "other"}
    /\ buffer \in Seq(Byte) /\ Len(buffer) <= kBufferSize
    /\ received \in -1..kBufferSize
    /\ socket \in Fds \union {ServerFd}

\* A client gets back only its own bytes, each at most once and in the order in
\* which it wrote them, although all connections share one buffer and
\* descriptors are reused: bytes of a failed or short send are lost, never
\* reordered, repeated or sent to another client.
OwnBytesInOrder ==
    \A c \in Clients : \A i \in 1..Len(echoed[c]) :
        /\ echoed[c][i][1] = c
        /\ i > 1 => echoed[c][i - 1][2] < echoed[c][i][2]

\* No client behaviour takes the whole server down: a send that fails is
\* reported ("Server: Failed to send the message") and echo() returns.
SurvivesClients == pc # "killed"
=============================================================================
