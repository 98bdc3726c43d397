--------------------------- MODULE PthreadCanceled --------------------------
(***************************************************************************)
(* pthread_canceled.cpp: main starts a thread that sleeps for long (the    *)
(* join thread) and a detached thread that joins it, cancels the former    *)
(* and gives the latter time to see that.  Only the four sleeps order the  *)
(* three, so time is modelled, in seconds: a thread that can run takes its *)
(* next step within latency seconds, a number chosen in the initial state. *)
(***************************************************************************)
EXTENDS Integers

CONSTANT Latencies  (* bound: the values of latency to be tried            *)

VARIABLES
    latency,    (* most seconds a thread that can run is kept waiting      *)
    now,        (* the clock                                               *)
    mainPc,     (* main: the call it is at                                 *)
    joinPc,     (* JoinThreadFunction: where it is, how it has ended       *)
    detachPc,   (* DetachThreadFunction: where it is                       *)
    canceled,   (* a cancellation of the join thread has been requested    *)
    ready       (* [Actors -> when the thread could take its next step]    *)

vars == <<latency, now, mainPc, joinPc, detachPc, canceled, ready>>

Actors == {"main", "join", "detach"}

Init ==
    /\ latency \in Latencies
    /\ now = 0
    /\ mainPc = "create_join"
    /\ joinPc = "none"
    /\ detachPc = "none"
    /\ canceled = FALSE
    /\ ready = [t \in Actors |-> 0]

\* main has returned, which ends the process.
Over == mainPc \in {"returned", "failed"}

JoinEnded == joinPc \in {"returned", "canceled"}

\* pthread_join blocks; sleep delays the time in ready.
Runnable ==
    {t \in Actors :
        CASE t = "main"   -> TRUE
          [] t = "join"   -> joinPc # "none" /\ ~JoinEnded
          [] t = "detach" -> \/ detachPc \in {"start", "sleep"}
                             \/ detachPc = "join" /\ JoinEnded}

CanStep(t) == ~Over /\ t \in Runnable /\ ready[t] <= now

\* Time passes, and nobody is kept waiting too long.
Tick ==
    /\ ~Over
    /\ \A t \in Runnable : now < ready[t] + latency
    /\ now' = now + 1
    /\ UNCHANGED <<latency, mainPc, joinPc, detachPc, canceled, ready>>
-----------------------------------------------------------------------------
RunJoinThread ==
    /\ mainPc = "create_join" /\ CanStep("main")
    /\ mainPc' = "create_detach"
    /\ joinPc' = "start"
    /\ ready' = [ready EXCEPT !["main"] = now, !["join"] = now]
    /\ UNCHANGED <<latency, now, detachPc, canceled>>

\* RunDetachThread, then sleep(1).
RunDetachThread ==
    /\ mainPc = "create_detach" /\ CanStep("main")
    /\ mainPc' = "cancel"
    /\ detachPc' = "start"
    /\ ready' = [ready EXCEPT !["main"] = now + 1, !["detach"] = now]
    /\ UNCHANGED <<latency, now, joinPc, canceled>>

\* pthread_create or pthread_attr_setdetachstate fails.
RunFails ==
    /\ mainPc \in {"create_join", "create_detach"} /\ CanStep("main")
    /\ mainPc' = "failed"
    /\ UNCHANGED <<latency, now, joinPc, detachPc, canceled, ready>>

\* Seeded faults: main does not wait for the detached thread, or too long.
ExitSleepForgotten == 0
ExitSleepTwice     == 30

\* sleep(15)
ExitSleep == 15

\* pthread_cancel wakes the join thread if it sleeps.
Cancel ==
    /\ mainPc = "cancel" /\ CanStep("main")
    /\ mainPc' = "return"
    /\ canceled' = TRUE
    /\ ready' = [ready EXCEPT
                    !["main"] = now + ExitSleep,
                    !["join"] = IF joinPc = "sleep" /\ @ > now THEN now ELSE @]
    /\ UNCHANGED <<latency, now, joinPc, detachPc>>

Return ==
    /\ mainPc = "return" /\ CanStep("main")
    /\ mainPc' = "returned"
    /\ UNCHANGED <<latency, now, joinPc, detachPc, canceled, ready>>

\* The join thread goes on at next, after a delay.
JoinThread(from, next, delay) ==
    /\ joinPc = from /\ CanStep("join")
    /\ joinPc' = next
    /\ ready' = [ready EXCEPT !["join"] = now + delay, !["detach"] =
                    IF detachPc = "join" THEN now ELSE @]
    /\ UNCHANGED <<latency, now, mainPc, detachPc, canceled>>

\* Seeded fault: the join thread does not sleep.
StartNoSleep == ~canceled /\ JoinThread("start", "sleep", 0)

Start     == ~canceled /\ JoinThread("start", "sleep", 10)
Wake      == ~canceled /\ JoinThread("sleep", "print", 0)
ReturnTen == JoinThread("print", "returned", 0)

\* The output and the sleep are cancellation points; cancellation is enabled
\* all the time, and behind the last output there is none.
ActUponCancel ==
    /\ canceled
    /\ \E from \in {"start", "sleep", "print"} : JoinThread(from, "canceled", 0)

\* The detached thread goes on at next, after a delay.
DetachThread(from, next, delay) ==
    /\ detachPc = from /\ CanStep("detach")
    /\ detachPc' = next
    /\ ready' = [ready EXCEPT !["detach"] = now + delay]
    /\ UNCHANGED <<latency, now, mainPc, joinPc, canceled>>

SleepFive   == DetachThread("start", "sleep", 5)
CallJoin    == DetachThread("sleep", "join", 0)
JoinReturns == DetachThread("join", "done", 0)

Next ==
    \/ Tick
    \/ RunJoinThread \/ RunDetachThread \/ RunFails \/ Cancel \/ Return
    \/ Start \/ Wake \/ ReturnTen \/ ActUponCancel
    \/ SleepFive \/ CallJoin \/ JoinReturns

Spec == Init /\ [][Next]_vars
-----------------------------------------------------------------------------
TypeOK ==
    /\ latency \in Latencies
    /\ now \in Nat
    /\ mainPc \in {"create_join", "create_detach", "cancel", "return",
                   "returned", "failed"}
    /\ joinPc \in {"none", "start", "sleep", "print", "returned", "canceled"}
    /\ detachPc \in {"none", "start", "sleep", "join", "done"}
    /\ canceled \in BOOLEAN
    /\ ready \in [Actors -> 0..(now + 15)]

\* pthread_cancel is called while its thread exists: the detached thread has not
\* joined it yet, after which the identifier would be invalid.  The sleeps give
\* that if nobody is kept waiting for more than 4 seconds.
CancelsAnExistingThread ==
    latency <= 4 /\ mainPc = "cancel" => detachPc # "done"

\* The demonstration works: before main returns the join thread was cancelled in
\* its sleep, and the detached thread got PTHREAD_CANCELED from pthread_join.
\* For that nobody may be kept waiting for more than 3 seconds.
CancellationIsSeen ==
    latency <= 3 /\ mainPc = "returned" =>
        joinPc = "canceled" /\ detachPc = "done"
=============================================================================
