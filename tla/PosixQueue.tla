----------------------------- MODULE PosixQueue -----------------------------
(***************************************************************************)
(* unix_ipc/posix_msg_queue.cpp: the child opens a POSIX queue and sends,  *)
(* the parent waits for the child, looks at its status and receives.       *)
(*                                                                         *)
(* O_CREAT alone opens the queue for reading, so mq_send always fails and  *)
(* the child returns EXIT_FAILURE; what follows mq_send in the child, and  *)
(* what follows mq_receive in the parent, is never reached.                *)
(***************************************************************************)
EXTENDS UnixProcess

EXIT_FAILURE == 1

fork ==
    \/ parent = "start" /\ parent' = "fork"
       /\ UNCHANGED <<child, status, objects, stream, sent, got, run>>
    \/ Fork("waitpid", "mq_open")
    \/ ForkFails

ChildOpens ==
    /\ child = "mq_open"
    /\ objects' = objects \union {"queue"}
    /\ child' = "mq_send"
    /\ UNCHANGED <<parent, status, stream, sent, got, run>>

ChildOpenFails ==
    /\ child = "mq_open"
    /\ ChildEnds(ExitStatus(EXIT_FAILURE))
    /\ UNCHANGED <<parent, objects, stream, sent, got, run>>

\* mq_send on a queue that is open for reading: EBADF.
SendFails ==
    /\ child = "mq_send"
    /\ ChildEnds(ExitStatus(EXIT_FAILURE))
    /\ UNCHANGED <<parent, objects, stream, sent, got, run>>

waitpid == WaitPid("check")

\* if (return_value == EXIT_FAILURE)
SeesFailure == status = EXIT_FAILURE

Check ==
    /\ parent = "check"
    /\ parent' = IF SeesFailure THEN "failed" ELSE "mq_open"
    /\ UNCHANGED <<child, status, objects, stream, sent, got, run>>

\* mq_open(O_RDONLY) needs an existing queue; mq_receive then blocks.
ParentOpens ==
    /\ parent = "mq_open"
    /\ \/ objects # {} /\ parent' = "mq_receive"
       \/ parent' = "failed"
    /\ UNCHANGED <<child, status, objects, stream, sent, got, run>>

ParentStep == fork \/ waitpid \/ Check \/ ParentOpens
ChildStep  == ChildOpens \/ ChildOpenFails \/ SendFails
MqNext     == ParentStep \/ ChildStep \/ ChildKilled \/ Interrupt \/ Restart(<<>>)
-----------------------------------------------------------------------------
MqTypeOK ==
    /\ parent \in {"start", "fork", "waitpid", "check", "mq_open", "mq_receive",
                   "returned", "failed", "fork_failed", "killed"}
    /\ child \in {"none", "mq_open", "mq_send", "ended"}

\* "Parent: error in child": when the child has returned EXIT_FAILURE the parent
\* reports that and ends; it does not go on to open the queue and receive.
ErrorInChildIsSeen ==
    parent \in {"mq_open", "mq_receive"} => status # ExitStatus(EXIT_FAILURE)
=============================================================================
