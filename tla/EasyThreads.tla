---------------------------- MODULE EasyThreads -----------------------------
(***************************************************************************)
(* easy_pthreads.cpp: two threads increment one int that main              *)
(* handed to both, without a lock.  The increment is a data race, and is   *)
(* modelled as the read and the write that it is compiled to.              *)
(***************************************************************************)
EXTENDS Integers

VARIABLES
    state,      (* main: state                                             *)
    pc,         (* [Threads -> where the thread is]                        *)
    seen,       (* [Threads -> the value read by the increment]            *)
    mainPc      (* main: the call it is at                                 *)

vars == <<state, pc, seen, mainPc>>

Threads == {"first", "second"}

Init ==
    /\ state = 1
    /\ pc = [t \in Threads |-> "none"]
    /\ seen = [t \in Threads |-> 0]
    /\ mainPc = "create_first"

\* main: pthread_create and pthread_join, in order.
Main(from, t, needs, gives, next) ==
    /\ mainPc = from
    /\ pc[t] = needs
    /\ pc' = [pc EXCEPT ![t] = gives]
    /\ mainPc' = next
    /\ UNCHANGED <<state, seen>>

MainStep ==
    \/ Main("create_first", "first", "none", "read", "create_second")
    \/ Main("create_second", "second", "none", "read", "join_first")
    \/ Main("join_first", "first", "done", "done", "join_second")
    \/ Main("join_second", "second", "done", "done", "assert")

\* pthread_create or pthread_join fails: main returns -1.
MainFails ==
    /\ mainPc \notin {"assert", "returned"}
    /\ mainPc' = "returned"
    /\ UNCHANGED <<state, pc, seen>>

ReadState(t) ==
    /\ mainPc # "returned" /\ pc[t] = "read"
    /\ seen' = [seen EXCEPT ![t] = state]
    /\ pc' = [pc EXCEPT ![t] = "write"]
    /\ UNCHANGED <<state, mainPc>>

WriteState(t) ==
    /\ mainPc # "returned" /\ pc[t] = "write"
    /\ state' = seen[t] + 1
    /\ pc' = [pc EXCEPT ![t] = "done"]
    /\ UNCHANGED <<seen, mainPc>>

Next ==
    \/ MainStep \/ MainFails
    \/ \E t \in Threads : ReadState(t) \/ WriteState(t)

Spec == Init /\ [][Next]_vars
-----------------------------------------------------------------------------
\* assert(second_thread_state == 3), line 48: both increments have happened.
BothIncrementsCount == mainPc = "assert" => state = 3
=============================================================================
