---------------------------- MODULE PosixThreads ----------------------------
(***************************************************************************)
(* The programs of posix_threads/ that promise something about their       *)
(* threads: pthread_mutex (module PthreadMutex), wait_pthread (module      *)
(* WaitThreads) and pthread_canceled (module PthreadCanceled).  Which of   *)
(* them is run is chosen in the initial state; the variables of the others *)
(* keep their initial values.                                              *)
(***************************************************************************)
EXTENDS PthreadMutex

CONSTANTS
    LongSleep, ShortSleep, Latency, Spurious,   (* WaitThreads             *)
    Latencies                                   (* PthreadCanceled         *)

ASSUME WaitAssumption ==
    /\ LongSleep \in Nat /\ ShortSleep \in 0..LongSleep
    /\ Latency \in Nat \ {0}
    /\ Spurious \in BOOLEAN
ASSUME CanceledAssumption == Latencies \subseteq Nat \ {0}

VARIABLES
    program,                                (* the program that is run     *)
    now, mainPc, ready,                     (* both programs that sleep    *)
    state, pc1, pc2,                        (* WaitThreads                 *)
    latency, joinPc, detachPc, canceled     (* PthreadCanceled             *)

waitVars   == <<state, pc1, pc2>>
cancelVars == <<latency, joinPc, detachPc, canceled>>
sleepVars  == <<now, mainPc, ready, waitVars, cancelVars>>
threadVars == <<program, allVars, sleepVars>>

Wait     == INSTANCE WaitThreads
Canceled == INSTANCE PthreadCanceled

ThreadsInit ==
    /\ Init
    /\ \/ /\ program \in {"pthread_mutex", "wait_pthread"}
          /\ Wait!Init
          /\ latency = 0 /\ joinPc = "none" /\ detachPc = "none"
          /\ canceled = FALSE
       \/ /\ program = "pthread_canceled"
          /\ Canceled!Init
          /\ state = 0 /\ pc1 = "none" /\ pc2 = "none"

\* One step of each program, with the variables that it does not have.
MutexRuns(A) ==
    program = "pthread_mutex" /\ A /\ UNCHANGED <<program, sleepVars>>
WaitRuns(A) ==
    program = "wait_pthread" /\ A /\ UNCHANGED <<program, allVars, cancelVars>>
CanceledRuns(A) ==
    program = "pthread_canceled" /\ A /\ UNCHANGED <<program, allVars, waitVars>>

ThreadsNext ==
    \/ MutexRuns(Next)
    \/ WaitRuns(Wait!Next)
    \/ CanceledRuns(Canceled!Next)

\* Every thread is scheduled.  A mutex is taken once by each thread, so each
\* gets it; the consumer releases the rwlock again and again, and the producer
\* that waits for it gets it at some time (strong fairness).  Time passes.
ThreadsSpec ==
    /\ ThreadsInit /\ [][ThreadsNext]_threadVars
    /\ WF_threadVars(MutexRuns(MutexPart(Create \/ Join)))
    /\ \A t \in Threads : WF_threadVars(MutexRuns(MutexPart(ThreadStep(t))))
    /\ WF_threadVars(MutexRuns(RwPart(RwMainStep)))
    /\ WF_threadVars(MutexRuns(RwPart(ConsumerStep)))
    /\ SF_threadVars(MutexRuns(RwPart(ProducerStep)))
    /\ WF_threadVars(WaitRuns(Wait!Tick))
    /\ WF_threadVars(WaitRuns(Wait!MainStep))
    /\ WF_threadVars(WaitRuns(Wait!Step1))
    /\ WF_threadVars(WaitRuns(Wait!Step2))
-----------------------------------------------------------------------------
SleepTypeOK ==
    /\ program = "wait_pthread" => Wait!TypeOK
    /\ program = "pthread_canceled" => Canceled!TypeOK

\* main returns.  In pthread_mutex every thread is joined in both parts, unless a
\* call of the mutex or of the rwlock's unlock failed; in wait_pthread the signal
\* is not sent before thread 2 waits for it.
ThreadsAreJoined ==
    /\ program = "pthread_mutex" => Terminates
    /\ program = "wait_pthread" => Wait!BothJoined

\* In wait_pthread a spurious wake-up can only break the second assertion, and
\* only because state is still 0: the first one is reached before thread 1 sets
\* state.
FirstAssertionHolds == program = "wait_pthread" => Wait!FirstAssertionHolds

\* pthread_cancel is called while its thread exists: the detached thread has not
\* joined it yet, if nobody is kept waiting for more than 4 seconds.
CancelsAnExistingThread ==
    program = "pthread_canceled" => Canceled!CancelsAnExistingThread

\* Before main returns the join thread was cancelled in its sleep and the
\* detached thread got PTHREAD_CANCELED, if nobody is kept waiting for more than
\* 3 seconds.
CancellationIsSeen ==
    program = "pthread_canceled" => Canceled!CancellationIsSeen
=============================================================================
