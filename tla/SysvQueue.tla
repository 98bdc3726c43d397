------------------------------ MODULE SysvQueue -----------------------------
(***************************************************************************)
(* unix_ipc/sysv_msg_queue.cpp: the child puts a message into a System V   *)
(* queue and ends itself with SIGTERM, the parent takes the message, waits *)
(* for the child and removes the queue.  A queue outlives its processes    *)
(* and is found again, with its messages, by the next run.                 *)
(***************************************************************************)
EXTENDS UnixProcess

VARIABLES
    msg_id,     (* TRUE if msgget has succeeded                            *)
    sigterm,    (* what SIGTERM does, inherited: "default" or "ignored"    *)
    found       (* history: the messages in the queue when the run began   *)

sysvVars == <<procVars, msg_id, sigterm, found>>

SysvInit ==
    /\ msg_id = FALSE
    /\ sigterm \in {"default", "ignored"}
    /\ found = <<>>

\* msgget creates the queue or finds it; its result is not tested.
msgget ==
    /\ parent = "start"
    /\ \/ objects' = objects \union {"queue"} /\ msg_id' = TRUE
       \/ objects = {} /\ UNCHANGED objects /\ msg_id' = FALSE
    /\ parent' = "fork"
    /\ UNCHANGED <<child, status, stream, sent, got, run>>

fork == (Fork("msgrcv", "msgsnd") \/ ForkFails) /\ UNCHANGED msg_id

Usable == msg_id /\ "queue" \in objects

\* msgctl(msg_id, IPC_RMID): the messages are gone too.
Removed ==
    IF Usable THEN objects' = {} /\ stream' = <<>>
              ELSE UNCHANGED <<objects, stream>>

msgsnd ==
    /\ child = "msgsnd"
    /\ Usable
    /\ stream' = Append(stream, run)
    /\ sent' = TRUE
    /\ child' = "raise"
    /\ UNCHANGED <<parent, status, objects, got, run, msg_id>>

\* msgsnd fails: the child removes the queue, on which the parent waits.
msgsndFails ==
    /\ child = "msgsnd"
    /\ Removed
    /\ ChildEnds(ExitStatus(1))
    /\ UNCHANGED <<parent, sent, got, run, msg_id>>

\* Seeded fault: the child goes on to the end of main.
RaiseForgotten ==
    /\ child' = "rmid"
    /\ UNCHANGED status

Raise ==
    \/ sigterm = "default" /\ ChildEnds(SIGTERM)
    \/ sigterm = "ignored" /\ child' = "rmid" /\ UNCHANGED status

raise ==
    /\ child = "raise"
    /\ Raise
    /\ UNCHANGED <<parent, objects, stream, sent, got, run, msg_id>>

\* The end of main, which the child gets to only if it survives SIGTERM.
ChildReturns ==
    /\ child = "rmid"
    /\ Removed
    /\ ChildEnds(ExitStatus(0))
    /\ UNCHANGED <<parent, sent, got, run, msg_id>>

msgrcv ==
    /\ parent = "msgrcv"
    /\ Usable
    /\ stream # <<>>
    /\ got' = <<Head(stream)>>
    /\ stream' = Tail(stream)
    /\ parent' = "waitpid"
    /\ UNCHANGED <<child, status, objects, sent, run, msg_id>>

\* msgrcv fails: there is no queue, or it was removed while main waited.
msgrcvFails ==
    /\ parent = "msgrcv"
    /\ ~Usable
    /\ parent' = "failed"
    /\ UNCHANGED <<child, status, objects, stream, sent, got, run, msg_id>>

waitpid == WaitPid("rmid") /\ UNCHANGED msg_id

\* Seeded fault: main does not remove the queue.
LeftBehind == UNCHANGED <<objects, stream>>

ParentRemoves == Removed

ParentReturns ==
    /\ parent = "rmid"
    /\ ParentRemoves
    /\ parent' = "returned"
    /\ UNCHANGED <<child, status, sent, got, run, msg_id>>

ParentStep == msgget \/ fork \/ msgrcv \/ msgrcvFails \/ waitpid \/ ParentReturns
ChildStep  == msgsnd \/ msgsndFails \/ raise \/ ChildReturns

SysvNext ==
    /\ \/ ParentStep /\ UNCHANGED found
       \/ ChildStep /\ UNCHANGED found
       \/ (ChildKilled \/ Interrupt) /\ UNCHANGED <<msg_id, found>>
       \/ Restart(stream) /\ msg_id' = FALSE /\ found' = stream
    /\ UNCHANGED sigterm
-----------------------------------------------------------------------------
SysvTypeOK ==
    /\ parent \in {"start", "fork", "msgrcv", "waitpid", "rmid", "returned",
                   "failed", "fork_failed", "killed"}
    /\ child \in {"none", "msgsnd", "raise", "rmid", "ended"}
    /\ stream \in Seq(1..MaxRuns) /\ Len(stream) <= MaxRuns
    /\ got = <<>> \/ got \in [{1} -> 1..MaxRuns]
    /\ found \in Seq(1..MaxRuns)

\* The message that the child has sent is behind those found in the queue until
\* main ends, and main receives the first of them all: the child's own unless an
\* interrupted run has left one.  (Then the child's is destroyed unread, with
\* the queue.)  That the child does not remove the queue is due to SIGTERM, which
\* must not be ignored.
SysvMessageArrives ==
    sent /\ sigterm = "default" =>
        /\ parent # "failed"
        /\ ~ParentEnded => got \o stream = Append(found, run)
        /\ parent = "returned" => got = <<Head(Append(found, run))>>

\* main leaves no queue behind, unless fork failed or it was interrupted, and
\* the next run that ends removes what an interrupted one left.
SysvNothingLeft == parent \in {"returned", "failed"} => objects = {}

\* The parent waits for ever: the child was killed before it sent, and no
\* message of an interrupted run is left.
SysvStarved == parent = "msgrcv" /\ child = "ended" /\ Usable /\ stream = <<>>
=============================================================================
