---------------------------- MODULE SocketSetup -----------------------------
(***************************************************************************)
(* How main() of the echo servers gets its listening socket:               *)
(* initialize_addr_info, get_socket_fd, the epoll or kqueue descriptor,    *)
(* listen.  The five servers contain the same two functions; select and    *)
(* poll go from get_socket_fd straight to listen, the others first create  *)
(* a queue and add the socket to it.                                       *)
(*                                                                         *)
(* The kernel gives the lowest free number to a new descriptor, so a       *)
(* number that was closed comes back as something else.                    *)
(***************************************************************************)
EXTENDS Integers

CONSTANT MaxAddrs   (* bound: addresses that getaddrinfo returns           *)

VARIABLES
    server,     (* the server that is started                              *)
    stage,      (* the call main is at, "serve", "failed" or "crashed"     *)
    left,       (* get_socket_fd: addresses from current on                *)
    socket_fd,  (* get_socket_fd: socket_fd, main: server_socket           *)
    files       (* [open descriptors -> what they are]                     *)

ERROR == -1

\* A socket is bound by bind, and listen binds one that is not to a port of the
\* kernel's choice ("anywhere").
Kinds == {"socket", "bound", "listening", "anywhere", "queue"}

HasQueue == server \in {"epoll", "kqueue", "kqueue_single"}

LowestFree == CHOOSE fd \in 0..2 : /\ fd \notin DOMAIN files
                                   /\ \A g \in 0..(fd - 1) : g \in DOMAIN files

Opened(fd, kind) ==
    [g \in DOMAIN files \union {fd} |-> IF g = fd THEN kind ELSE files[g]]

SetupInit ==
    /\ stage = "getaddrinfo"
    /\ left = 0
    /\ socket_fd = ERROR
    /\ files = [fd \in {} |-> "socket"]

\* main returns EXIT_ERROR, which closes everything.
Fail ==
    /\ stage' = "failed"
    /\ UNCHANGED <<left, socket_fd, files>>

\* initialize_addr_info.  Of the codes of a failing getaddrinfo only -1 is tested;
\* after the others the uninitialised pointer is used: it is null, or it is not.
GetAddrInfo ==
    /\ stage = "getaddrinfo"
    /\ \/ /\ stage' = "socket"
          /\ left' \in 1..MaxAddrs
          /\ UNCHANGED <<socket_fd, files>>
       \/ Fail
       \/ stage' = "crashed" /\ UNCHANGED <<left, socket_fd, files>>

\* The loop of get_socket_fd goes on with the next address, if there is one.
Continue ==
    /\ left' = left - 1
    /\ stage' = IF left = 1 THEN "found" ELSE "socket"

OpenSocket ==
    /\ stage = "socket"
    /\ \/ /\ socket_fd' = LowestFree
          /\ files' = Opened(LowestFree, "socket")
          /\ stage' = "setsockopt"
          /\ UNCHANGED left
       \/ /\ socket_fd' = ERROR
          /\ Continue
          /\ UNCHANGED files

SetSockOpt ==
    /\ stage = "setsockopt"
    /\ \/ stage' = "bind" /\ UNCHANGED <<left, socket_fd, files>>
       \/ Fail

\* Seeded fault: the socket that could not be bound stays open.
UnboundLeaks == files

\* close(socket_fd) after bind has failed.
UnboundClosed == [g \in DOMAIN files \ {socket_fd} |-> files[g]]

\* socket_fd keeps the number of the socket that is closed.
Bind ==
    /\ stage = "bind"
    /\ \/ /\ files' = [files EXCEPT ![socket_fd] = "bound"]
          /\ stage' = "found"
          /\ UNCHANGED left
       \/ /\ files' = UnboundClosed
          /\ Continue
    /\ UNCHANGED socket_fd

\* get_socket_fd returns to main; set_nonblock of a closed number is ignored.
Found ==
    /\ stage = "found"
    /\ \/ socket_fd = ERROR /\ Fail
       \/ /\ socket_fd # ERROR
          /\ stage' = IF HasQueue THEN "queue" ELSE "listen"
          /\ UNCHANGED <<left, socket_fd, files>>

\* epoll_create1 or kqueue; if it fails the call that uses it does.
CreateQueue ==
    /\ stage = "queue"
    /\ \/ /\ stage' = "add"
          /\ files' = Opened(LowestFree, "queue")
          /\ UNCHANGED <<left, socket_fd>>
       \/ Fail

\* add_new_connection of the server socket.  epoll refuses to watch itself.
AddServerSocket ==
    /\ stage = "add"
    /\ \/ /\ socket_fd \in DOMAIN files
          /\ files[socket_fd] = "queue" => server # "epoll"
          /\ stage' = "listen"
          /\ UNCHANGED <<left, socket_fd, files>>
       \/ Fail

\* listen; the list of addresses has been freed.
Listen ==
    /\ stage = "listen"
    /\ \/ /\ socket_fd \in DOMAIN files
          /\ files[socket_fd] \in {"socket", "bound"}
          /\ files' = [files EXCEPT ![socket_fd] =
                           IF @ = "bound" THEN "listening" ELSE "anywhere"]
          /\ stage' = "serve"
          /\ left' = 0
          /\ UNCHANGED socket_fd
       \/ Fail

SetupNext ==
    /\ \/ GetAddrInfo \/ OpenSocket \/ SetSockOpt \/ Bind \/ Found
       \/ CreateQueue \/ AddServerSocket \/ Listen
    /\ UNCHANGED server
-----------------------------------------------------------------------------
SetupTypeOK ==
    /\ stage \in {"getaddrinfo", "socket", "setsockopt", "bind", "found",
                  "queue", "add", "listen", "serve", "failed", "crashed"}
    /\ left \in 0..MaxAddrs
    /\ socket_fd \in 0..2 \union {ERROR}
    /\ DOMAIN files \subseteq 0..2 /\ files \in [DOMAIN files -> Kinds]

\* A server that gets to its loop listens on a socket that is bound to its own
\* port, and no descriptor of an address tried before is left open.  When every
\* bind fails get_socket_fd returns the number of a closed socket, which is not
\* ERROR and which the queue may have got: only the calls that follow stop it.
ListensWhereBound ==
    stage = "serve" =>
        /\ socket_fd \in DOMAIN files /\ files[socket_fd] = "listening"
        /\ \A fd \in DOMAIN files \ {socket_fd} : files[fd] = "queue"
=============================================================================
