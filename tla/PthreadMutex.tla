---------------------------- MODULE PthreadMutex ----------------------------
(***************************************************************************)
(* main() of posix_threads/pthread_mutex.cpp: RunMutexThreads(), then      *)
(* ConsumerAndProducer().  If RunMutexThreads() returns early because a    *)
(* thread cannot be created, the threads created before run on while the   *)
(* producer and the consumer run.  The end of main ends every thread.      *)
(***************************************************************************)
EXTENDS MutexCounter, ProducerConsumer

allVars == <<mutexVars, rwVars>>

Init == MutexInit /\ RwInit

\* RunMutexThreads() has returned and main is in ConsumerAndProducer().
SecondCall == mutexPc \in {"joined", "returned"}

MainReturns == SecondCall /\ rwPc \in {"joined", "exited"}

MutexPart(A) == ~MainReturns /\ A /\ UNCHANGED rwVars
RwPart(A)    == SecondCall /\ A /\ UNCHANGED mutexVars

Next == MutexPart(MutexNext) \/ RwPart(RwNext)

\* Every thread is scheduled.  The mutex is taken once by each thread, so each
\* gets it; the consumer releases the rwlock again and again, and the producer
\* that waits for it gets it at some time (strong fairness).
Spec ==
    /\ Init /\ [][Next]_allVars
    /\ WF_allVars(MutexPart(Create \/ Join))
    /\ \A t \in Threads : WF_allVars(MutexPart(ThreadStep(t)))
    /\ WF_allVars(RwPart(RwMainStep))
    /\ WF_allVars(RwPart(ConsumerStep))
    /\ SF_allVars(RwPart(ProducerStep))
-----------------------------------------------------------------------------
TypeOK == MutexTypeOK /\ RwTypeOK

\* main returns: every thread is joined in both parts, unless a call of the
\* mutex or of the rwlock's unlock failed.
Terminates ==
    ([](unlockFailures = 0 /\ \A t \in Threads : pc[t] \notin Bad))
        => <>MainReturns
=============================================================================
