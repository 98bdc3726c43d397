----------------------------- MODULE SocketPair -----------------------------
(***************************************************************************)
(* processes_channels_signals/socketpair.cpp: the child sends one message  *)
(* over socket_fd[0], the parent receives it from socket_fd[1].  The       *)
(* parent does not wait for the child; it sees the end of the stream when  *)
(* no process holds socket_fd[0] any more.                                 *)
(***************************************************************************)
EXTENDS UnixProcess

VARIABLE held   (* [0..1 -> the processes that have socket_fd[i] open]     *)

pairVars == <<procVars, held>>

PairInit == held = [i \in 0..1 |-> {}]

socketpair ==
    /\ parent = "start"
    /\ \/ /\ parent' = "fork"
          /\ held' = [i \in 0..1 |-> {"parent"}]
       \/ /\ parent' = "failed"
          /\ UNCHANGED held
    /\ UNCHANGED <<child, status, objects, stream, sent, got, run>>

fork ==
    \/ /\ Fork("close_0", "close_1")
       /\ held' = [i \in 0..1 |-> {"parent", "child"}]
    \/ /\ ForkFails
       /\ held' = [i \in 0..1 |-> {}]

Closed(i, p) == [held EXCEPT ![i] = @ \ {p}]

ChildCloses ==
    /\ child = "close_1"
    /\ child' = "send"
    /\ held' = Closed(1, "child")
    /\ UNCHANGED <<parent, status, objects, stream, sent, got, run>>

\* send fails without a receiver, or for want of memory; the child goes on.
Send ==
    /\ child = "send"
    /\ \/ /\ held[1] # {}
          /\ stream' = Append(stream, run)
          /\ sent' = TRUE
       \/ UNCHANGED <<stream, sent>>
    /\ child' = "close_0"
    /\ UNCHANGED <<parent, status, objects, got, run, held>>

ChildReturns ==
    /\ child = "close_0"
    /\ ChildEnds(ExitStatus(0))
    /\ held' = Closed(0, "child")
    /\ UNCHANGED <<parent, objects, stream, sent, got, run>>

\* The kernel closes what the child had open.
ChildDies ==
    /\ ChildKilled
    /\ held' = [i \in 0..1 |-> held[i] \ {"child"}]

\* Seeded fault: the parent keeps its copy of the child's end.
ParentClosedNothing == held

ParentClosed == Closed(0, "parent")

ParentCloses ==
    /\ parent = "close_0"
    /\ parent' = "recv"
    /\ held' = ParentClosed
    /\ UNCHANGED <<child, status, objects, stream, sent, got, run>>

EndOfStream == <<0>>    \* in got, what recv returns without a message
Error       == <<-1>>

\* recv returns the message, or 0 at the end of the stream.
Recv ==
    /\ parent = "recv"
    /\ \/ stream # <<>> /\ got' = stream /\ stream' = <<>>
       \/ stream = <<>> /\ held[0] = {} /\ got' = EndOfStream /\ UNCHANGED stream
    /\ parent' = "close_1"
    /\ UNCHANGED <<child, status, objects, sent, run, held>>

\* recv fails, and main goes on.
RecvFails ==
    /\ parent = "recv"
    /\ got' = Error
    /\ parent' = "close_1"
    /\ UNCHANGED <<child, status, objects, stream, sent, run, held>>

ParentReturns ==
    /\ parent = "close_1"
    /\ parent' = "returned"
    /\ held' = Closed(1, "parent")
    /\ UNCHANGED <<child, status, objects, stream, sent, got, run>>

ParentStep == socketpair \/ fork \/ ParentCloses \/ Recv \/ ParentReturns
ChildStep  == ChildCloses \/ Send \/ ChildReturns
PairNext   == ParentStep \/ RecvFails \/ ChildStep \/ ChildDies
-----------------------------------------------------------------------------
PairTypeOK ==
    /\ parent \in {"start", "fork", "close_0", "recv", "close_1", "returned",
                   "failed", "fork_failed"}
    /\ child \in {"none", "close_1", "send", "close_0", "ended"}
    /\ held \in [0..1 -> SUBSET {"parent", "child"}]

\* The parent is told that the stream has ended only if nothing was sent.
PairMessageArrives == sent => got # EndOfStream
=============================================================================
