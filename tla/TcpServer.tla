----------------------------- MODULE TcpServer ------------------------------
(***************************************************************************)
(* sockets_multiplexing/tcp_server/server.c: main accepts a connection,    *)
(* forks a process that sends a message and ends, and closes its own copy  *)
(* of the socket.  The handler of SIGCHLD reaps the processes; it runs     *)
(* between any two steps of main, and signals that come while one is       *)
(* pending or handled are merged.  A process is named after its client.    *)
(***************************************************************************)
EXTENDS Integers, Sequences

CONSTANTS
    Clients,    (* the clients, each connects once                         *)
    MaxAddrs    (* SocketSetup: addresses that getaddrinfo returns         *)

VARIABLES
    program,                            (* the program that is run         *)
    stage, left, socket_fd, files,      (* SocketSetup                     *)
    pc,         (* main's loop: the call it is at                          *)
    copy,       (* copy_socket, the set of the client it is connected to   *)
    backlog,    (* the queue of the listening socket                       *)
    conn,       (* [Clients -> "new", "queued", "accepted"]                *)
    gone,       (* the clients that have reset their connection            *)
    served,     (* the clients that the message was sent to                *)
    holders,    (* [Clients -> the processes with the socket open]         *)
    process,    (* [Clients -> the label of its process, or "zombie"...]   *)
    pending,    (* SIGCHLD is pending                                      *)
    handler,    (* the label of sigchld_handler, or "none"                 *)
    errno, saved_errno      (* the call that has set errno; saved_errno    *)

startVars   == <<stage, left, socket_fd, files>>
clientVars  == <<backlog, conn, gone>>
handlerVars == <<pending, handler, saved_errno>>
tcpVars == <<startVars, pc, copy, clientVars, served, holders, process,
             handlerVars, errno>>

Setup == INSTANCE SocketSetup WITH server <- program

Server == "server"      \* main, among the holders of a socket

TcpInit ==
    /\ Setup!SetupInit
    /\ pc = "accept"
    /\ copy = {}
    /\ backlog = <<>>
    /\ conn = [c \in Clients |-> "new"]
    /\ gone = {} /\ served = {}
    /\ holders = [c \in Clients |-> {}]
    /\ process = [c \in Clients |-> "none"]
    /\ pending = FALSE
    /\ handler = "none"
    /\ errno = "none" /\ saved_errno = "none"
-----------------------------------------------------------------------------
(***************************************************************************)
(* The start-up                                                            *)
(***************************************************************************)
\* initialize_address: every failure of getaddrinfo ends the process.
initialize_address ==
    /\ stage = "getaddrinfo"
    /\ \/ stage' = "socket" /\ left' \in 1..MaxAddrs /\ UNCHANGED <<socket_fd, files>>
       \/ Setup!Fail

\* The same loop over the addresses as in the echo servers, with its last test.
get_socket_fd ==
    Setup!OpenSocket \/ Setup!SetSockOpt \/ Setup!Bind \/ Setup!Found

\* The result of listen is not tested.
listen ==
    /\ stage = "listen"
    /\ \/ /\ socket_fd \in DOMAIN files
          /\ files' = [files EXCEPT ![socket_fd] = "listening"]
       \/ UNCHANGED files
    /\ stage' = "sigaction"
    /\ UNCHANGED <<left, socket_fd>>

reset_sigaction ==
    /\ stage = "sigaction"
    /\ stage' \in {"serve", "failed"}
    /\ UNCHANGED <<left, socket_fd, files>>

StartUp ==
    /\ initialize_address \/ get_socket_fd \/ listen \/ reset_sigaction
    /\ UNCHANGED <<pc, copy, clientVars, served, holders, process, handlerVars,
                   errno>>
-----------------------------------------------------------------------------
(***************************************************************************)
(* The loop of main                                                        *)
(***************************************************************************)
Listening == socket_fd \in DOMAIN files /\ files[socket_fd] = "listening"

\* main is at the call and not interrupted by its handler.
At(call) == stage = "serve" /\ pc = call /\ handler = "none"

accept ==
    /\ At("accept")
    /\ Listening
    /\ backlog # <<>>
    /\ copy' = {Head(backlog)}
    /\ backlog' = Tail(backlog)
    /\ conn' = [conn EXCEPT ![Head(backlog)] = "accepted"]
    /\ holders' = [holders EXCEPT ![Head(backlog)] = {Server}]
    /\ pc' = "fork"
    /\ UNCHANGED <<startVars, gone, served, process, handlerVars, errno>>

\* accept fails: no descriptors, an aborted connection, or no listening socket.
acceptFails ==
    /\ At("accept")
    /\ errno' = "accept"
    /\ pc' = "report_accept"
    /\ UNCHANGED <<startVars, copy, clientVars, served, holders, process,
                   handlerVars>>

\* print_error(..., errno), then the loop goes on.
report ==
    /\ \/ At("report_accept") /\ pc' = "accept"
       \/ At("report_fork") /\ pc' = "close"
    /\ UNCHANGED <<startVars, copy, clientVars, served, holders, process,
                   handlerVars, errno>>

\* fork: the new process has the socket open, too.
fork ==
    /\ At("fork")
    /\ \E c \in copy :
          /\ process' = [process EXCEPT ![c] = "send"]
          /\ holders' = [holders EXCEPT ![c] = @ \union {c}]
    /\ pc' = "close"
    /\ UNCHANGED <<startVars, copy, clientVars, served, handlerVars, errno>>

forkFails ==
    /\ At("fork")
    /\ errno' = "fork"
    /\ pc' = "report_fork"
    /\ UNCHANGED <<startVars, copy, clientVars, served, holders, process,
                   handlerVars>>

\* Seeded fault: main keeps the socket.
MainKeeps(c) == holders

MainCloses(c) == [holders EXCEPT ![c] = @ \ {Server}]

close ==
    /\ At("close")
    /\ \E c \in copy : holders' = MainCloses(c)
    /\ copy' = {}
    /\ pc' = "accept"
    /\ UNCHANGED <<startVars, clientVars, served, process, handlerVars, errno>>

MainStep == accept \/ acceptFails \/ report \/ fork \/ forkFails \/ close
-----------------------------------------------------------------------------
(***************************************************************************)
(* The process of client c, and the handler                                *)
(***************************************************************************)
\* The process ends, which closes its sockets and sends SIGCHLD to main.
Exits(c) ==
    /\ process' = [process EXCEPT ![c] = "zombie"]
    /\ holders' = [holders EXCEPT ![c] = @ \ {c}]
    /\ pending' = TRUE

\* send succeeds or fails, or raises SIGPIPE, which ends the process.
Send(c) ==
    /\ process[c] = "send"
    /\ \/ /\ c \notin gone
          /\ served' = served \union {c}
          /\ process' = [process EXCEPT ![c] = "exit"]
          /\ UNCHANGED <<holders, pending>>
       \/ /\ process' = [process EXCEPT ![c] = "exit"]
          /\ UNCHANGED <<served, holders, pending>>
       \/ /\ c \in gone
          /\ Exits(c)
          /\ UNCHANGED served
    /\ UNCHANGED <<startVars, pc, copy, clientVars, handler, saved_errno, errno>>

\* close(copy_socket), exit(0)
Exit(c) ==
    /\ process[c] = "exit"
    /\ Exits(c)
    /\ UNCHANGED <<startVars, pc, copy, clientVars, served, handler, saved_errno,
                   errno>>

ProcessStep(c) == Send(c) \/ Exit(c)

\* sigchld_handler is entered; SIGCHLD is blocked while it runs.
EnterHandler ==
    /\ stage = "serve"
    /\ pending /\ handler = "none"
    /\ pending' = FALSE
    /\ handler' = "waitpid"
    /\ saved_errno' = errno
    /\ UNCHANGED <<startVars, pc, copy, clientVars, served, holders, process,
                   errno>>

\* Seeded fault: waitpid is called once per signal.
AfterReapOnce == "restore"

\* while (waitpid(...) > 0): the handler tries again.
AfterReap == "waitpid"

waitpid ==
    /\ handler = "waitpid"
    /\ \/ \E c \in Clients :
             /\ process[c] = "zombie"
             /\ process' = [process EXCEPT ![c] = "reaped"]
             /\ handler' = AfterReap
             /\ UNCHANGED errno
       \/ /\ \A c \in Clients : process[c] # "zombie"
          /\ handler' = "restore"
          /\ errno' = IF \E c \in Clients : process[c] \in {"send", "exit"}
                      THEN errno ELSE "waitpid"
          /\ UNCHANGED process
    /\ UNCHANGED <<startVars, pc, copy, clientVars, served, holders, pending,
                   saved_errno>>

\* Seeded fault: errno is left as waitpid has set it.
RestoredNothing == errno

Restored == saved_errno

LeaveHandler ==
    /\ handler = "restore"
    /\ errno' = Restored
    /\ handler' = "none"
    /\ UNCHANGED <<startVars, pc, copy, clientVars, served, holders, process,
                   pending, saved_errno>>

HandlerStep == EnterHandler \/ waitpid \/ LeaveHandler
-----------------------------------------------------------------------------
ClientStep ==
    /\ stage = "serve"
    /\ \E c \in Clients :
          \/ /\ Listening /\ conn[c] = "new"
             /\ conn' = [conn EXCEPT ![c] = "queued"]
             /\ backlog' = Append(backlog, c)
             /\ UNCHANGED gone
          \/ /\ conn[c] # "new" /\ c \notin gone
             /\ gone' = gone \union {c}
             /\ UNCHANGED <<conn, backlog>>
    /\ UNCHANGED <<startVars, pc, copy, served, holders, process, handlerVars,
                   errno>>

TcpNext ==
    \/ StartUp
    \/ MainStep
    \/ \E c \in Clients : ProcessStep(c)
    \/ HandlerStep
    \/ ClientStep
-----------------------------------------------------------------------------
TcpTypeOK ==
    /\ Setup!SetupTypeOK \/ stage = "sigaction"
    /\ pc \in {"accept", "report_accept", "fork", "report_fork", "close"}
    /\ copy \subseteq Clients
    /\ conn \in [Clients -> {"new", "queued", "accepted"}]
    /\ process \in [Clients -> {"none", "send", "exit", "zombie", "reaped"}]
    /\ \A c \in Clients : holders[c] \subseteq {Server, c}
    /\ handler \in {"none", "waitpid", "restore"}
    /\ errno \in {"none", "accept", "fork", "waitpid"}

\* The error that main reports is the one of the call that has failed, whenever
\* the handler interrupts main in between: it saves errno and restores it.
ErrnoKept ==
    handler = "none" =>
        /\ pc = "report_accept" => errno = "accept"
        /\ pc = "report_fork" => errno = "fork"

\* Every accepted connection is closed by all that hold it, whether or not a
\* process could be forked or the client is gone, and its process, if any, is
\* reaped, also when the signals of several processes have been merged.
ConnectionsAreReleased ==
    \A c \in Clients :
        conn[c] = "accepted" ~>
            holders[c] = {} /\ process[c] \in {"none", "reaped"}
=============================================================================
