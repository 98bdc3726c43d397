---------------------------- MODULE UnixPrograms ----------------------------
(***************************************************************************)
(* The programs that fork: those of processes_channels_signals/ and        *)
(* unix_ipc/, and the TCP server of sockets_multiplexing/tcp_server/.      *)
(* Which of them is run is chosen in the initial state; the variables of   *)
(* the others keep their initial values.                                   *)
(***************************************************************************)
EXTENDS UnixProcess

CONSTANTS
    Programs,                                   (* the programs to be run  *)
    kFifoBuffer, FifoSize, MaxWritten,          (* FifoChannel             *)
    MaxTokens, Limits, PipeSize, MaxOutput,     (* BashPipeline            *)
    Clients, MaxAddrs                           (* TcpServer               *)

ASSUME ProgramsAssumption ==
    /\ MaxRuns \in Nat \ {0}
    /\ kFifoBuffer \in Nat \ {0} /\ FifoSize \in Nat /\ FifoSize >= kFifoBuffer
    /\ MaxWritten \in Nat /\ MaxOutput \in Nat /\ MaxTokens \in Nat
    /\ PipeSize \in Nat \ {0}
    /\ Limits \subseteq Nat /\ \A n \in Limits : n >= 4
    /\ MaxAddrs \in Nat

VARIABLES
    held,                                               (* SocketPair      *)
    msg_id, sigterm, found,                             (* SysvQueue       *)
    sigtermInvoked,                                     (* SimpleFork      *)
    writer, reader, fds, buffer, written, unread,       (* FifoChannel     *)
    leftover,
    tokens, idx, limit, used, writable, input,          (* BashPipeline    *)
    prev, made, todo,
    stage, left, socket_fd, files, pc, copy, backlog,   (* TcpServer       *)
    conn, gone, served, holders, process, pending,
    handler, errno, saved_errno

sysvOnly == <<msg_id, sigterm, found>>
fifoOnly == <<writer, reader, fds, buffer, written, unread, leftover>>
bashOnly == <<tokens, idx, limit, used, writable, input, prev, made, todo>>
tcpOnly  == <<stage, left, socket_fd, files, pc, copy, backlog, conn, gone,
              served, holders, process, pending, handler, errno, saved_errno>>
allVars  == <<program, procVars, held, sysvOnly, sigtermInvoked, fifoOnly,
              bashOnly, tcpOnly>>

Pair   == INSTANCE SocketPair
Sysv   == INSTANCE SysvQueue
Mq     == INSTANCE PosixQueue
Simple == INSTANCE SimpleFork
Fifo   == INSTANCE FifoChannel
Bash   == INSTANCE BashPipeline
Tcp    == INSTANCE TcpServer

Init ==
    /\ program \in Programs
    /\ ProcInit
    /\ Pair!PairInit
    /\ Sysv!SysvInit /\ (program # "sysv_msg_queue" => sigterm = "default")
    /\ Simple!SimpleInit
    /\ Fifo!FifoInit
    /\ Bash!PipelineInit
    /\ program # "bash_commands" => tokens = <<>> /\ \A n \in Limits : limit <= n
    /\ Tcp!TcpInit

\* One step of each program, with the variables that it does not have.
PairRuns(A) ==
    /\ program = "socketpair" /\ A
    /\ UNCHANGED <<program, sysvOnly, sigtermInvoked, fifoOnly, bashOnly, tcpOnly>>
SysvRuns(A) ==
    /\ program = "sysv_msg_queue" /\ A
    /\ UNCHANGED <<program, held, sigtermInvoked, fifoOnly, bashOnly, tcpOnly>>
MqRuns(A) ==
    /\ program = "posix_msg_queue" /\ A
    /\ UNCHANGED <<program, held, sysvOnly, sigtermInvoked, fifoOnly, bashOnly,
                   tcpOnly>>
SimpleRuns(A) ==
    /\ program = "simple_fork" /\ A
    /\ UNCHANGED <<program, held, sysvOnly, fifoOnly, bashOnly, tcpOnly>>
FifoRuns(A) ==
    /\ program = "fifo_channel" /\ A
    /\ UNCHANGED <<program, held, sysvOnly, sigtermInvoked, bashOnly, tcpOnly>>
BashRuns(A) ==
    /\ program = "bash_commands" /\ A
    /\ UNCHANGED <<program, held, sysvOnly, sigtermInvoked, fifoOnly, tcpOnly>>
TcpRuns(A) ==
    /\ program = "tcp_server" /\ A
    /\ UNCHANGED <<program, procVars, held, sysvOnly, sigtermInvoked, fifoOnly,
                   bashOnly>>

Next ==
    \/ PairRuns(Pair!PairNext)
    \/ SysvRuns(Sysv!SysvNext)
    \/ MqRuns(Mq!MqNext)
    \/ SimpleRuns(Simple!SimpleNext)
    \/ FifoRuns(Fifo!FifoNext)
    \/ BashRuns(Bash!PipelineNext)
    \/ TcpRuns(Tcp!TcpNext)

\* Every process is scheduled; none counts on a call of it to fail.  A handler
\* runs when its signal is pending; it is not fair to whom it interrupts, but it
\* always ends.  The processes at the other ends of the fifos come, take what is
\* there, and close.
Spec ==
    /\ Init /\ [][Next]_allVars
    /\ WF_allVars(PairRuns(Pair!ParentStep)) /\ WF_allVars(PairRuns(Pair!ChildStep))
    /\ WF_allVars(SysvRuns(Sysv!ParentStep /\ UNCHANGED <<sigterm, found>>))
    /\ WF_allVars(SysvRuns(Sysv!ChildStep /\ UNCHANGED <<sigterm, found>>))
    /\ WF_allVars(SimpleRuns(Simple!ParentStep))
    /\ WF_allVars(SimpleRuns(Simple!ChildStep))
    /\ WF_allVars(FifoRuns(Fifo!MainStep /\ UNCHANGED leftover))
    /\ WF_allVars(FifoRuns(Fifo!PeerStep /\ UNCHANGED leftover))
    /\ WF_allVars(BashRuns(Bash!ParentStep)) /\ WF_allVars(BashRuns(Bash!ChildStep))
    /\ WF_allVars(TcpRuns(Tcp!MainStep)) /\ WF_allVars(TcpRuns(Tcp!HandlerStep))
    /\ \A c \in Clients : WF_allVars(TcpRuns(Tcp!ProcessStep(c)))
-----------------------------------------------------------------------------
TypeOK ==
    /\ program \in Programs
    /\ ProcTypeOK
    /\ program = "socketpair" => Pair!PairTypeOK
    /\ program = "sysv_msg_queue" => Sysv!SysvTypeOK
    /\ program = "posix_msg_queue" => Mq!MqTypeOK
    /\ program = "simple_fork" => Simple!SimpleTypeOK
    /\ program = "fifo_channel" => Fifo!FifoTypeOK
    /\ program = "bash_commands" => Bash!PipelineTypeOK
    /\ program = "tcp_server" => Tcp!TcpTypeOK

\* What one process has sent another one gets, in whatever order they run: the
\* message over the socket pair, the bytes through the fifos, the output of a
\* command as the input of the next.  Over the System V queue main gets the
\* oldest message in it, its own child's unless an interrupted run has left one.
SentIsReceived ==
    /\ program = "socketpair" => Pair!PairMessageArrives
    /\ program = "sysv_msg_queue" => Sysv!SysvMessageArrives
    /\ program = "fifo_channel" => Fifo!FifoKeepsBytes
    /\ program = "bash_commands" => Bash!PipelineKeepsData

\* A run that ends by itself leaves no queue behind unless fork has failed, also
\* if an earlier one was interrupted, and no fifo unless mkfifo has failed.
NothingLeftBehind ==
    /\ program = "sysv_msg_queue" => Sysv!SysvNothingLeft
    /\ program = "fifo_channel" => Fifo!FifoNothingLeft

\* A run of fifo_channel that is killed or whose second mkfifo fails leaves a fifo
\* that makes every later run fail.
LeftoverFifosStay == program = "fifo_channel" => Fifo!LeftoverFifosStay

\* main ends: over a socket pair although the child is killed at any point, with
\* the System V queue unless the child is killed before it sends, after SIGTERM
\* to the child of simple_fork if it reads its flag again, with the fifos if the
\* other processes come, and with a pipeline unless a command fills its pipe.
MainEnds ==
    /\ program = "socketpair" => <>ParentEnded
    /\ program = "sysv_msg_queue" =>
           (parent = "start" ~> (ParentEnded \/ Sysv!SysvStarved))
    /\ program = "simple_fork" => (sent ~> (ParentEnded \/ Simple!SimpleStuck))
    /\ program = "fifo_channel" => (parent = "start" ~> ParentEnded)
    /\ program = "bash_commands" => <>(ParentEnded \/ Bash!PipelineStuck)

\* The TCP server reports the error of the call that failed, although its
\* handler of SIGCHLD may interrupt it before it does.
ErrnoKept == program = "tcp_server" => Tcp!ErrnoKept

\* Every connection the TCP server has accepted is closed by both processes that
\* hold it, and the forked one is reaped, however signals are merged.
ConnectionsAreReleased == program = "tcp_server" => Tcp!ConnectionsAreReleased

\* "Parent: error in child" (posix_msg_queue.cpp): when the child has returned
\* EXIT_FAILURE the parent reports that and ends, and does not go on to receive.
ErrorInChildIsSeen == program = "posix_msg_queue" => Mq!ErrorInChildIsSeen
=============================================================================
