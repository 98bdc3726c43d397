---------------------------- MODULE MutexCounter ----------------------------
(***************************************************************************)
(* RunMutexThreads() of pthread_mutex.cpp: threads increment one           *)
(* counter under a mutex, the main thread joins them and asserts that the  *)
(* counter is their number.  counter++ is a read and a write, two steps.   *)
(***************************************************************************)
EXTENDS Integers, FiniteSets

CONSTANT kMutexThreadsNumber

ASSUME MutexCounterAssumption == kMutexThreadsNumber \in Nat

VARIABLES
    counter,    (* counter                                                 *)
    mutex,      (* {} or {the thread that holds the mutex}                 *)
    pc,         (* [Threads -> where the thread is]                        *)
    seen,       (* [Threads -> the value counter++ has read]               *)
    mutexPc,     (* "create", "join", "returned", "joined" or "aborted"     *)
    index       (* RunMutexThreads: i of the loop main is in               *)

mutexVars == <<counter, mutex, pc, seen, mutexPc, index>>

Threads == 0..(kMutexThreadsNumber - 1)

\* The threads that return kBadStatus.
Bad == {"bad_lock", "bad_unlock"}

MutexInit ==
    /\ counter = 0
    /\ mutex = {}
    /\ pc = [t \in Threads |-> "none"]
    /\ seen = [t \in Threads |-> 0]
    /\ mutexPc = "create"
    /\ index = 0

\* Threads that have been created run on when RunMutexThreads returns early.
MutexRunning == mutexPc # "aborted"

\* The mutex is a local variable of RunMutexThreads: once that has returned early
\* its memory is reused, and a thread may find it free at any time.
MutexFree == mutex = {} \/ mutexPc = "returned"

Goto(t, from, to) ==
    /\ MutexRunning
    /\ pc[t] = from
    /\ pc' = [pc EXCEPT ![t] = to]

\* Seeded fault: the mutex does not exclude the other threads.
LockShared(t) ==
    /\ Goto(t, "lock", "read")
    /\ mutex' = {t}
    /\ UNCHANGED <<counter, seen, mutexPc, index>>

Lock(t) ==
    /\ Goto(t, "lock", "read")
    /\ MutexFree
    /\ mutex' = {t}
    /\ UNCHANGED <<counter, seen, mutexPc, index>>

\* pthread_mutex_lock fails: the thread returns kBadStatus.
LockFails(t) ==
    /\ Goto(t, "lock", "bad_lock")
    /\ UNCHANGED <<counter, mutex, seen, mutexPc, index>>

ReadCounter(t) ==
    /\ Goto(t, "read", "write")
    /\ seen' = [seen EXCEPT ![t] = counter]
    /\ UNCHANGED <<counter, mutex, mutexPc, index>>

WriteCounter(t) ==
    /\ Goto(t, "write", "unlock")
    /\ counter' = seen[t] + 1
    /\ UNCHANGED <<mutex, seen, mutexPc, index>>

\* Seeded fault: the mutex stays locked.
UnlockForgotten(t) ==
    /\ Goto(t, "unlock", "ok")
    /\ UNCHANGED <<counter, mutex, seen, mutexPc, index>>

Unlock(t) ==
    /\ Goto(t, "unlock", "ok")
    /\ mutex' = {}
    /\ UNCHANGED <<counter, seen, mutexPc, index>>

\* pthread_mutex_unlock fails: the mutex stays locked, kBadStatus is returned.
UnlockFails(t) ==
    /\ Goto(t, "unlock", "bad_unlock")
    /\ UNCHANGED <<counter, mutex, seen, mutexPc, index>>

\* Seeded fault: the loop runs once too often.
MoreToCreateLonger == index <= kMutexThreadsNumber

MoreToCreate == index < kMutexThreadsNumber

Create ==
    /\ mutexPc = "create"
    /\ IF MoreToCreate
       THEN /\ pc' = [pc EXCEPT ![index] = "lock"]
            /\ index' = index + 1
            /\ UNCHANGED mutexPc
       ELSE /\ mutexPc' = "join"
            /\ index' = 0
            /\ UNCHANGED pc
    /\ UNCHANGED <<counter, mutex, seen>>

\* pthread_create fails: the function returns with the threads still running.
CreateFails ==
    /\ mutexPc = "create"
    /\ MoreToCreate
    /\ mutexPc' = "returned"
    /\ UNCHANGED <<counter, mutex, pc, seen, index>>

\* Seeded fault: the join loop ends one thread early.
AllJoinedEarly == index >= kMutexThreadsNumber - 1

AllJoined == index = kMutexThreadsNumber

\* pthread_join, and the assertion on the status that the thread returned.
Join ==
    /\ mutexPc = "join"
    /\ \/ /\ AllJoined
          /\ mutexPc' = "joined"
          /\ UNCHANGED index
       \/ /\ ~AllJoined
          /\ pc[index] = "ok"
          /\ index' = index + 1
          /\ UNCHANGED mutexPc
       \/ /\ ~AllJoined
          /\ pc[index] \in Bad
          /\ mutexPc' = "aborted"
          /\ UNCHANGED index
    /\ UNCHANGED <<counter, mutex, pc, seen>>

ThreadStep(t) == Lock(t) \/ ReadCounter(t) \/ WriteCounter(t) \/ Unlock(t)
MutexFailure(t)    == LockFails(t) \/ UnlockFails(t)

MutexNext ==
    \/ \E t \in Threads : ThreadStep(t) \/ MutexFailure(t)
    \/ Create \/ CreateFails \/ Join

MutexSpec == MutexInit /\ [][MutexNext]_mutexVars
-----------------------------------------------------------------------------
MutexTypeOK ==
    /\ counter \in Nat
    /\ mutex \subseteq Threads
    /\ pc \in [Threads -> {"none", "lock", "read", "write", "unlock", "ok",
                        "bad_lock", "bad_unlock"}]
    /\ seen \in [Threads -> Nat]
    /\ mutexPc \in {"create", "join", "returned", "joined", "aborted"}
    /\ index \in 0..kMutexThreadsNumber

\* assert(counter == kMutexThreadsNumber), line 162: reached only if every
\* thread has returned kOkStatus, no increment is lost then.
CounterIsExact == mutexPc = "joined" => counter = kMutexThreadsNumber

\* No two threads are inside counter++ at the same time, as long as the mutex
\* exists (it is gone once RunMutexThreads has returned early).
MutualExclusion ==
    mutexPc # "returned" =>
        \A t, u \in Threads :
            pc[t] \in {"read", "write"} /\ pc[u] \in {"read", "write"} => t = u
=============================================================================
