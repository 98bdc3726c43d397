----------------------------- MODULE SimpleFork -----------------------------
(***************************************************************************)
(* processes_channels_signals/simple_fork.cpp: the child installs a        *)
(* handler for SIGTERM and spins until the handler has set a flag; the     *)
(* parent waits for the child.  The signal is sent by somebody else.       *)
(* The flag is not volatile: an optimised build may read it only once.     *)
(***************************************************************************)
EXTENDS UnixProcess

VARIABLE sigtermInvoked     (* the child's copy of sigtermInvoked          *)

forkVars == <<procVars, sigtermInvoked>>

SimpleInit == sigtermInvoked = FALSE

fork ==
    /\ \/ parent = "start" /\ parent' = "fork"
          /\ UNCHANGED <<child, status, objects, stream, sent, got, run>>
       \/ Fork("waitpid", "sigaction")
       \/ ForkFails
    /\ UNCHANGED sigtermInvoked

sigaction ==
    /\ child = "sigaction"
    /\ child' = "spin"
    /\ UNCHANGED <<parent, status, objects, stream, sent, got, run,
                   sigtermInvoked>>

\* The flag has been read once and is not looked at again.
ReadsOnce ==
    /\ child = "spin"
    /\ ~sigtermInvoked
    /\ child' = "stuck"
    /\ UNCHANGED <<parent, status, objects, stream, sent, got, run,
                   sigtermInvoked>>

\* while (!sigtermInvoked) {}, then the child returns.
SpinEnds ==
    /\ child = "spin"
    /\ sigtermInvoked
    /\ ChildEnds(ExitStatus(0))
    /\ UNCHANGED <<parent, objects, stream, sent, got, run, sigtermInvoked>>

\* Seeded fault: the handler only prints.
HandlerPrints == UNCHANGED sigtermInvoked

ChildHandler == sigtermInvoked' = TRUE

\* SIGTERM arrives: it ends a child that has no handler yet.
Sigterm ==
    /\ \/ /\ child = "sigaction"
          /\ ChildEnds(SIGTERM)
          /\ UNCHANGED sigtermInvoked
       \/ /\ child \in {"spin", "stuck"}
          /\ ChildHandler
          /\ UNCHANGED <<child, status>>
    /\ sent' = TRUE
    /\ UNCHANGED <<parent, objects, stream, got, run>>

waitpid == WaitPid("returned") /\ UNCHANGED sigtermInvoked

ParentStep == fork \/ waitpid
ChildStep  == sigaction \/ SpinEnds
SimpleNext == ParentStep \/ ChildStep \/ ReadsOnce \/ Sigterm
-----------------------------------------------------------------------------
SimpleTypeOK ==
    /\ parent \in {"start", "fork", "waitpid", "returned", "fork_failed"}
    /\ child \in {"none", "sigaction", "spin", "stuck", "ended"}
    /\ sigtermInvoked \in BOOLEAN

\* The child spins for ever on what it has read before SIGTERM came.
SimpleStuck == child = "stuck"
=============================================================================
