----------------------------- MODULE EchoSelect -----------------------------
(***************************************************************************)
(* sockets_multiplexing/echo_server_select.cpp: the set of open sockets is *)
(* handed to select, the ready ones are served in ascending order, then    *)
(* the closed ones are erased and at most one new connection is accepted.  *)
(* Clients act between any two of these steps.                             *)
(***************************************************************************)
EXTENDS EchoSockets

VARIABLES
    open_sockets,   (* main: open_sockets                                  *)
    set,            (* main: set after select, the sockets still to serve  *)
    closed_sockets  (* main: closed_sockets                                *)

loopVars   == <<open_sockets, set, closed_sockets>>
selectVars == <<vars, loopVars>>

LoopInit ==
    /\ open_sockets = {}
    /\ set = {}
    /\ closed_sockets = {}

Init == server = "select" /\ EchoInit /\ LoopInit

\* Seeded fault: the greatest descriptor itself is left out.
GetMaxSocketLess ==
    Cardinality({s \in 1..NFds : \E t \in open_sockets : s < t})

\* get_max_socket: the greatest of server_socket and open_sockets.
GetMaxSocket ==
    Cardinality({s \in 1..NFds : \E t \in open_sockets : s <= t})

\* What select(max_socket + 1, &set, ...) leaves in the fd_set.
Ready ==
    {s \in open_sockets : s < GetMaxSocket + 1 /\ Readable(s)} \union
    (IF backlog # <<>> THEN {ServerFd} ELSE {})

\* select returns.
Select ==
    /\ pc = "wait"
    /\ Ready # {}
    /\ set' = Ready
    /\ closed_sockets' = {}
    /\ pc' = "serve"
    /\ UNCHANGED <<kernelVars, echoVars, open_sockets>>

\* select fails: the loop goes on if errno is EAGAIN and ends otherwise.
SelectFails ==
    /\ \/ WaitError("EAGAIN") /\ UNCHANGED pc
       \/ WaitError("other") /\ pc' = "exited"
    /\ UNCHANGED loopVars

\* The next socket of the for loop over open_sockets that is in the set.
IsNext(s) ==
    /\ pc = "serve"
    /\ s \in set \ {ServerFd}
    /\ \A t \in set \ {ServerFd} : s <= t

Serve(s) ==
    /\ IsNext(s)
    /\ EchoRecv(s) \/ EchoRecvFails(s)
    /\ set' = set \ {s}
    /\ UNCHANGED <<open_sockets, closed_sockets>>

\* recv returned 0: the socket is closed, or kept if echo() returned true.
ServeEof(s) ==
    /\ IsNext(s)
    /\ Eof(s)
    /\ IF EchoOfEof
       THEN UNCHANGED <<kernelVars, closed_sockets>>
       ELSE Close(s) /\ closed_sockets' = closed_sockets \union {s}
    /\ set' = set \ {s}
    /\ UNCHANGED <<pc, echoVars, open_sockets>>

Send ==
    /\ EchoSend("serve") \/ SendKills
    /\ UNCHANGED loopVars

\* All sockets served: erase the closed ones, accept if the server socket is set.
Finish ==
    /\ pc = "serve"
    /\ set \subseteq {ServerFd}
    /\ LET kept == open_sockets \ closed_sockets
       IN  \/ /\ set = {}
              /\ open_sockets' = kept
              /\ pc' = "wait"
              /\ UNCHANGED <<kernelVars, errno>>
           \/ /\ set = {ServerFd}
              /\ \E s \in Fds : Accept(s) /\ open_sockets' = kept \union {s}
              /\ pc' = "wait"
              /\ UNCHANGED errno
           \/ /\ set = {ServerFd}
              /\ AcceptFails
              /\ open_sockets' = kept
              /\ pc' = "exited"
    /\ set' = {}
    /\ closed_sockets' = {}
    /\ UNCHANGED <<buffer, received, socket>>

ServerStep ==
    \/ Select
    \/ \E s \in Fds : Serve(s) \/ ServeEof(s)
    \/ Send
    \/ Finish

Next ==
    /\ ServerStep \/ SelectFails \/ (ClientStep /\ UNCHANGED loopVars)
    /\ UNCHANGED server

Spec == Init /\ [][Next]_selectVars
-----------------------------------------------------------------------------
TypeOK ==
    /\ EchoTypeOK
    /\ pc \in {"wait", "serve", "send", "exited", "killed"}
    /\ open_sockets \subseteq Fds
    /\ set \subseteq Fds \union {ServerFd}
    /\ closed_sockets \subseteq open_sockets

\* select is never given a closed descriptor and never misses an open one: the
\* server's own set is the descriptor table, but for the sockets closed since
\* the last wait, and the sockets still to serve are all open.
SocketsTracked ==
    /\ open_sockets \ closed_sockets = Open
    /\ closed_sockets \intersect Open = {}
    /\ set \ {ServerFd} \subseteq Open
    /\ pc = "wait" => closed_sockets = {} /\ set = {}
=============================================================================
