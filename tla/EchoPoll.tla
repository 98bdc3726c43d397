------------------------------ MODULE EchoPoll ------------------------------
(***************************************************************************)
(* sockets_multiplexing/echo_server_poll.cpp: the open sockets are copied  *)
(* into an array of pollfd before every call of poll; the array is served  *)
(* by index while clients go on, and its entries are invalidated as they   *)
(* are passed.                                                             *)
(***************************************************************************)
EXTENDS EchoSockets

VARIABLES
    open_sockets,   (* main: open_sockets                                  *)
    set,            (* main: set[1 .. set_size - 1].fd, -1 once passed     *)
    revents,        (* the indices poll reported, 0 for the server socket  *)
    i,              (* main: the loop's i                                  *)
    closed_sockets  (* main: closed_sockets                                *)

loopVars == <<open_sockets, set, revents, i, closed_sockets>>
pollVars == <<vars, loopVars>>

LoopInit ==
    /\ open_sockets = {}
    /\ set = <<>>
    /\ revents = {}
    /\ i = 1
    /\ closed_sockets = {}

Init == server = "poll" /\ EchoInit /\ LoopInit

\* The array filled from the std::set, in ascending order: there is one.
Entries ==
    {f \in [1..Cardinality(open_sockets) -> open_sockets] :
        \A j, k \in DOMAIN f : j < k => f[j] < f[k]}

\* poll returns; at least one entry has revents.
Poll ==
    /\ pc = "wait"
    /\ set' \in Entries
    /\ revents' = {j \in DOMAIN set' : Readable(set'[j])} \union
                  (IF backlog # <<>> THEN {0} ELSE {})
    /\ revents' # {}
    /\ i' = 1
    /\ closed_sockets' = {}
    /\ pc' = "serve"
    /\ UNCHANGED <<kernelVars, echoVars, open_sockets>>

\* poll fails: the loop goes on if errno is EAGAIN and ends otherwise.
PollFails ==
    /\ \/ WaitError("EAGAIN") /\ UNCHANGED pc
       \/ WaitError("other") /\ pc' = "exited"
    /\ UNCHANGED loopVars

\* The end of the loop's body.
Pass ==
    /\ set' = [set EXCEPT ![i] = -1]
    /\ i' = i + 1

Skip ==
    /\ pc = "serve"
    /\ i \in DOMAIN set \ revents
    /\ Pass
    /\ UNCHANGED <<kernelVars, pc, echoVars, open_sockets, revents,
                   closed_sockets>>

Serve ==
    /\ pc = "serve"
    /\ i \in DOMAIN set \intersect revents
    /\ EchoRecv(set[i]) \/ EchoRecvFails(set[i])
    /\ UNCHANGED loopVars

\* recv returned 0: the socket is closed, or kept if echo() returned true.
ServeEof ==
    /\ pc = "serve"
    /\ i \in DOMAIN set \intersect revents
    /\ Eof(set[i])
    /\ IF EchoOfEof
       THEN UNCHANGED <<kernelVars, closed_sockets>>
       ELSE /\ Close(set[i])
            /\ closed_sockets' = closed_sockets \union {set[i]}
    /\ Pass
    /\ UNCHANGED <<pc, echoVars, open_sockets, revents>>

Send ==
    \/ EchoSend("serve") /\ Pass
       /\ UNCHANGED <<open_sockets, revents, closed_sockets>>
    \/ SendKills /\ UNCHANGED loopVars

Erased == open_sockets \ closed_sockets

\* The array is served: erase the closed sockets and accept if entry 0 is ready.
Finish ==
    /\ pc = "serve"
    /\ i \notin DOMAIN set
    /\ \/ /\ 0 \notin revents
          /\ open_sockets' = Erased
          /\ pc' = "wait"
          /\ UNCHANGED <<kernelVars, errno>>
       \/ /\ 0 \in revents
          /\ \E s \in Fds : Accept(s) /\ open_sockets' = Erased \union {s}
          /\ pc' = "wait"
          /\ UNCHANGED errno
       \/ /\ 0 \in revents
          /\ AcceptFails
          /\ open_sockets' = Erased
          /\ pc' = "exited"
    /\ set' = <<>>
    /\ revents' = {}
    /\ i' = 1
    /\ closed_sockets' = {}
    /\ UNCHANGED <<buffer, received, socket>>

ServerStep == Poll \/ Skip \/ Serve \/ ServeEof \/ Send \/ Finish

Next ==
    /\ ServerStep \/ PollFails \/ (ClientStep /\ UNCHANGED loopVars)
    /\ UNCHANGED server

Spec == Init /\ [][Next]_pollVars
-----------------------------------------------------------------------------
TypeOK ==
    /\ EchoTypeOK
    /\ pc \in {"wait", "serve", "send", "exited", "killed"}
    /\ open_sockets \subseteq Fds
    /\ set \in Seq(Fds \union {-1})
    /\ revents \subseteq 0..NFds
    /\ i \in 1..(NFds + 1)
    /\ closed_sockets \subseteq open_sockets

\* poll is never given a closed descriptor and never misses an open one, and the
\* entries still to be served are open sockets, each in the array once.
SocketsTracked ==
    /\ open_sockets \ closed_sockets = Open
    /\ closed_sockets \intersect Open = {}
    /\ \A j \in DOMAIN set : j >= i => set[j] \in Open
    /\ \A j, k \in DOMAIN set : set[j] = set[k] /\ set[j] # -1 => j = k
=============================================================================
