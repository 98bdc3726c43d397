---------------------------- MODULE WaitThreads -----------------------------
(***************************************************************************)
(* wait_pthread.cpp: WaitThread1 sleeps, sets state and signals a          *)
(* condition variable; WaitThread2 asserts the old state, waits for the    *)
(* signal and asserts the new state.  Nothing but the sleep orders the     *)
(* two: the wait tests no predicate, and the mutex passed to it is not     *)
(* locked by anybody.                                                      *)
(*                                                                         *)
(* Time is modelled: a thread that can run takes its next step within      *)
(* Latency units.  On a loaded machine Latency has no bound.               *)
(***************************************************************************)
EXTENDS Integers

CONSTANTS
    LongSleep,  (* units of sleep(5)                                       *)
    ShortSleep, (* units of sleep(1)                                       *)
    Latency,    (* most units a thread that can run is kept waiting        *)
    Spurious    (* TRUE if pthread_cond_wait may return without a signal   *)

VARIABLES
    now,        (* the clock                                               *)
    state,      (* state                                                   *)
    mainPc,     (* RunWaitThreads: the call it is at                       *)
    pc1,        (* WaitThread1: where it is                                *)
    pc2,        (* WaitThread2: where it is                                *)
    ready       (* [Actors -> when the thread could take its next step]    *)

vars == <<now, state, mainPc, pc1, pc2, ready>>

Actors == {"main", "thread1", "thread2"}

Init ==
    /\ now = 0
    /\ state = 0
    /\ mainPc = "create1"
    /\ pc1 = "none"
    /\ pc2 = "none"
    /\ ready = [t \in Actors |-> 0]

\* The actors that are neither blocked nor finished; a sleeping one is runnable
\* from its wake-up time on, which ready then holds.
Runnable ==
    {t \in Actors :
        CASE t = "main"    -> mainPc \in {"create1", "create2"}
          [] t = "thread1" -> pc1 \notin {"none", "done"}
          [] t = "thread2" -> pc2 \in {"assert_0", "wait", "assert_1"}}

CanStep(t) == mainPc # "aborted" /\ ready[t] <= now

\* Time passes while somebody sleeps, and nobody is kept waiting too long.
Tick ==
    /\ mainPc # "aborted"
    /\ pc1 \in {"sleep_5", "sleep_1"} \/ Runnable # {}
    /\ \A t \in Runnable : now < ready[t] + Latency
    /\ now' = now + 1
    /\ UNCHANGED <<state, mainPc, pc1, pc2, ready>>
-----------------------------------------------------------------------------
Create1 ==
    /\ mainPc = "create1" /\ CanStep("main")
    /\ mainPc' = "create2"
    /\ pc1' = "start"
    /\ ready' = [ready EXCEPT !["main"] = now, !["thread1"] = now]
    /\ UNCHANGED <<now, state, pc2>>

Create2 ==
    /\ mainPc = "create2" /\ CanStep("main")
    /\ mainPc' = "join1"
    /\ pc2' = "assert_0"
    /\ ready' = [ready EXCEPT !["main"] = now, !["thread2"] = now]
    /\ UNCHANGED <<now, state, pc1>>

\* pthread_create fails and the process ends.
CreateFails ==
    /\ mainPc \in {"create1", "create2"} /\ CanStep("main")
    /\ mainPc' = "returned"
    /\ pc1' = "none"
    /\ UNCHANGED <<now, state, pc2, ready>>

Join ==
    /\ \/ mainPc = "join1" /\ pc1 = "done" /\ mainPc' = "join2"
       \/ mainPc = "join2" /\ pc2 = "done" /\ mainPc' = "returned"
    /\ UNCHANGED <<now, state, pc1, pc2, ready>>

\* Thread 1 goes on at next, after a delay.
Thread1(from, next, delay) ==
    /\ pc1 = from /\ CanStep("thread1")
    /\ pc1' = next
    /\ ready' = [ready EXCEPT !["thread1"] = now + delay]

\* Seeded faults: the thread does not sleep before it sets state, or twice.
StartNoSleep == Thread1("start", "sleep_5", 0)
StartTooLong == Thread1("start", "sleep_5", 2 * LongSleep)

Start == Thread1("start", "sleep_5", LongSleep)

SleepFive ==
    /\ Start
    /\ UNCHANGED <<now, state, mainPc, pc2>>

SetState ==
    /\ Thread1("sleep_5", "signal", 0)
    /\ state' = 1
    /\ UNCHANGED <<now, mainPc, pc2>>

\* pthread_cond_signal wakes thread 2 if it waits by now; otherwise it is lost.
Signal ==
    /\ pc1 = "signal" /\ CanStep("thread1")
    /\ pc1' = "sleep_1"
    /\ pc2' = IF pc2 = "blocked" THEN "assert_1" ELSE pc2
    /\ ready' = [ready EXCEPT !["thread1"] = now + ShortSleep,
                              !["thread2"] = IF pc2 = "blocked" THEN now ELSE @]
    /\ UNCHANGED <<now, state, mainPc>>

Finish1 ==
    /\ Thread1("sleep_1", "done", 0)
    /\ UNCHANGED <<now, state, mainPc, pc2>>

Assert0Holds == state = 0
Assert1Holds == state = 1

\* An assertion of thread 2: it goes on at next, or the process aborts.
Assert(from, holds, next) ==
    /\ pc2 = from /\ CanStep("thread2")
    /\ IF holds THEN pc2' = next /\ UNCHANGED mainPc
                ELSE mainPc' = "aborted" /\ UNCHANGED pc2
    /\ ready' = [ready EXCEPT !["thread2"] = now]
    /\ UNCHANGED <<now, state, pc1>>

\* pthread_cond_wait blocks.
CondWait ==
    /\ pc2 = "wait" /\ CanStep("thread2")
    /\ pc2' = "blocked"
    /\ UNCHANGED <<now, state, mainPc, pc1, ready>>

\* pthread_cond_wait returns without a signal, as POSIX allows.
SpuriousWakeup ==
    /\ Spurious
    /\ pc2 = "blocked" /\ mainPc # "aborted"
    /\ pc2' = "assert_1"
    /\ ready' = [ready EXCEPT !["thread2"] = now]
    /\ UNCHANGED <<now, state, mainPc, pc1>>

Step1 == SleepFive \/ SetState \/ Signal \/ Finish1
Step2 == \/ Assert("assert_0", Assert0Holds, "wait")
         \/ CondWait
         \/ Assert("assert_1", Assert1Holds, "done")
MainStep == Create1 \/ Create2 \/ Join

Next == Tick \/ MainStep \/ CreateFails \/ Step1 \/ Step2 \/ SpuriousWakeup

\* Time passes and every thread is scheduled.
Spec ==
    /\ Init /\ [][Next]_vars
    /\ WF_vars(Tick) /\ WF_vars(MainStep) /\ WF_vars(Step1) /\ WF_vars(Step2)
-----------------------------------------------------------------------------
TypeOK ==
    /\ now \in Nat
    /\ state \in {0, 1}
    /\ mainPc \in {"create1", "create2", "join1", "join2", "returned", "aborted"}
    /\ pc1 \in {"none", "start", "sleep_5", "signal", "sleep_1", "done"}
    /\ pc2 \in {"none", "assert_0", "wait", "blocked", "assert_1", "done"}
    /\ ready \in [Actors -> 0..(now + LongSleep)]

\* The assertions of WaitThread2 hold: assert(state == 0) before the wait and
\* assert(state == 1) after it.
AssertionsHold == mainPc # "aborted"

\* A spurious wake-up can only break the second assertion, and only because
\* state is still 0: the first one is reached before thread 1 sets state.
FirstAssertionHolds == mainPc = "aborted" => pc2 = "assert_1" /\ state = 0

\* Both threads are joined: the signal is not sent before thread 2 waits for it.
BothJoined == <>(mainPc \in {"returned", "aborted"})
=============================================================================
