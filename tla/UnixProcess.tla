---------------------------- MODULE UnixProcess -----------------------------
(***************************************************************************)
(* What the programs of processes_channels_signals/ and unix_ipc/ share:   *)
(* a process, the child it forks, what waitpid reports of the child, and   *)
(* the objects of the kernel or the file system that outlive both.         *)
(*                                                                         *)
(* A label names the call that a process makes next.  Faults: a system     *)
(* call fails where the code handles it, the child is killed from outside, *)
(* the user interrupts the program (both processes get SIGINT) and starts  *)
(* it again.                                                               *)
(***************************************************************************)
EXTENDS Integers, Sequences

CONSTANT MaxRuns    (* bound: how often the user starts the program        *)

VARIABLES
    program,    (* the program that is run                                 *)
    parent,     (* the label of main, or how it has ended                  *)
    child,      (* the label of the child, "none" or "ended"               *)
    status,     (* the child's status for waitpid, Running before it ends  *)
    objects,    (* the queue or the fifos that exist                       *)
    stream,     (* what is in the channel                                  *)
    sent,       (* the child's message was accepted by the kernel          *)
    got,        (* what main has received                                  *)
    run         (* the number of this run                                  *)

procVars == <<parent, child, status, objects, stream, sent, got, run>>

Running == -1
SIGINT  == 2
SIGKILL == 9
SIGTERM == 15

\* returned: main returns 0; the others: it returns another value, or is killed.
ParentEnded ==
    parent \in {"returned", "failed", "fork_failed", "mkfifo_failed", "killed"}
ChildLives  == child \notin {"none", "ended"}

ProcInit ==
    /\ parent = "start"
    /\ child = "none"
    /\ status = Running
    /\ objects = {}
    /\ stream = <<>>
    /\ sent = FALSE
    /\ got = <<>>
    /\ run = 1

\* fork.  The child begins at first, the parent goes on at next.
Fork(next, first) ==
    /\ parent = "fork"
    /\ parent' = next
    /\ child' = first
    /\ UNCHANGED <<status, objects, stream, sent, got, run>>

ForkFails ==
    /\ parent = "fork"
    /\ parent' = "fork_failed"
    /\ UNCHANGED <<child, status, objects, stream, sent, got, run>>

\* The status that waitpid stores for a process that has returned code.
ExitStatus(code) == 256 * code

\* The child ends; a signal's number is its status.
ChildEnds(how) ==
    /\ child' = "ended"
    /\ status' = how

\* waitpid(f, ...) returns to main.
WaitPid(next) ==
    /\ parent = "waitpid"
    /\ child = "ended"
    /\ parent' = next
    /\ UNCHANGED <<child, status, objects, stream, sent, got, run>>

\* The child is killed from outside.
ChildKilled ==
    /\ ChildLives
    /\ ChildEnds(SIGKILL)
    /\ UNCHANGED <<parent, objects, stream, sent, got, run>>

\* The user interrupts the program: both processes get the signal.
Interrupt ==
    /\ ~ParentEnded
    /\ parent' = "killed"
    /\ IF ChildLives THEN ChildEnds(SIGINT) ELSE UNCHANGED <<child, status>>
    /\ UNCHANGED <<objects, stream, sent, got, run>>

\* The user starts the program again; kept is what the channel still holds.
Restart(kept) ==
    /\ ParentEnded /\ ~ChildLives
    /\ run < MaxRuns
    /\ run' = run + 1
    /\ parent' = "start"
    /\ child' = "none"
    /\ status' = Running
    /\ sent' = FALSE
    /\ got' = <<>>
    /\ stream' = kept
    /\ UNCHANGED objects
-----------------------------------------------------------------------------
ProcTypeOK ==
    /\ status \in {Running, SIGINT, SIGKILL, SIGTERM} \union {256 * c : c \in 0..1}
    /\ (child = "ended") <=> (status # Running)
    /\ objects \subseteq {"queue", "in.fifo", "out.fifo"}
    /\ sent \in BOOLEAN
    /\ run \in 1..MaxRuns
=============================================================================
