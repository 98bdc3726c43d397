-------------------------- MODULE ProducerConsumer --------------------------
(***************************************************************************)
(* ConsumerAndProducer() of pthread_mutex.cpp: a producer pushes           *)
(* N integers onto a vector under the write lock of a rwlock, a consumer   *)
(* pops them under its READ lock until it has read N of them.              *)
(*                                                                         *)
(* Every access to the vector is a step of its own.  A failing call of the *)
(* rwlock functions is possible as often as the two budgets allow; a lock  *)
(* whose unlock failed stays held.                                         *)
(***************************************************************************)
EXTENDS Integers, Sequences, FiniteSets

CONSTANTS
    N,                  (* number of elements, 10 in the code              *)
    MaxLockFailures,    (* bound: failing calls of wrlock and rdlock       *)
    MaxUnlockFailures   (* bound: failing calls of unlock                  *)

ASSUME ProducerConsumerAssumption ==
    /\ N \in Nat \ {0}
    /\ MaxLockFailures \in Nat
    /\ MaxUnlockFailures \in Nat

VARIABLES
    a,              (* the shared vector                                   *)
    writer,         (* the producer holds the write lock                   *)
    readers,        (* how often the consumer holds the read lock          *)
    rwPc,         (* ConsumerAndProducer(): the call it is at            *)
    prodPc,         (* Producer: the call it is at                         *)
    i,              (* Producer: i                                         *)
    consPc,         (* Consumer: the call it is at                         *)
    read_element,   (* Consumer: {} is kInvalidElement                     *)
    printed,        (* Consumer: the elements printed, in order            *)
    dropped,        (* elements popped before an unlock that failed        *)
    lockFailures, unlockFailures

lockVars == <<writer, readers, lockFailures, unlockFailures>>
prodVars == <<prodPc, i>>
consVars == <<consPc, read_element, printed, dropped>>
rwVars == <<a, lockVars, rwPc, prodVars, consVars>>

Elements == 0..(N - 1)

\* Consumer: read_elements_number
read_elements_number == Len(printed)

RwInit ==
    /\ a = <<>>
    /\ writer = FALSE
    /\ readers = 0
    /\ rwPc = "run_producer"
    /\ prodPc = "idle" /\ i = 0
    /\ consPc = "idle" /\ read_element = {} /\ printed = <<>> /\ dropped = {}
    /\ lockFailures = 0
    /\ unlockFailures = 0

RwRunning == rwPc # "exited"
-----------------------------------------------------------------------------
(***************************************************************************)
(* Producer                                                                *)
(***************************************************************************)
\* Seeded fault: the producer takes the lock although the consumer reads.
WriteLockFreeShared == ~writer

WriteLockFree == ~writer /\ readers = 0

ProducerLock ==
    /\ RwRunning /\ prodPc = "lock"
    /\ WriteLockFree
    /\ writer' = TRUE
    /\ prodPc' = "push"
    /\ UNCHANGED <<a, readers, lockFailures, unlockFailures, rwPc, i, consVars>>

\* Seeded fault: i-- is missing, so a failed wrlock skips an element.
ProducerLockFailsSkips ==
    /\ RwRunning /\ prodPc = "lock"
    /\ lockFailures < MaxLockFailures
    /\ lockFailures' = lockFailures + 1
    /\ i' = i + 1
    /\ prodPc' = IF i + 1 < N THEN "lock" ELSE "done"
    /\ UNCHANGED <<a, writer, readers, unlockFailures, rwPc, consVars>>

\* wrlock fails, at any time or because the producer holds the lock (EDEADLK):
\* i-- and continue leave i as it was.
ProducerLockFails ==
    /\ RwRunning /\ prodPc = "lock"
    /\ \/ /\ lockFailures < MaxLockFailures
          /\ lockFailures' = lockFailures + 1
       \/ writer /\ UNCHANGED lockFailures
    /\ UNCHANGED <<a, writer, readers, unlockFailures, rwPc, prodVars, consVars>>

ProducerPush ==
    /\ RwRunning /\ prodPc = "push"
    /\ a' = Append(a, i)
    /\ prodPc' = "unlock"
    /\ UNCHANGED <<lockVars, rwPc, i, consVars>>

\* unlock, then the loop's i++ and its test; a failure only keeps the lock held.
ProducerUnlock ==
    /\ RwRunning /\ prodPc = "unlock"
    /\ \/ writer' = FALSE /\ UNCHANGED unlockFailures
       \/ /\ unlockFailures < MaxUnlockFailures
          /\ unlockFailures' = unlockFailures + 1
          /\ UNCHANGED writer
    /\ i' = i + 1
    /\ prodPc' = IF i + 1 < N THEN "lock" ELSE "done"
    /\ UNCHANGED <<a, readers, lockFailures, rwPc, consVars>>
-----------------------------------------------------------------------------
(***************************************************************************)
(* Consumer                                                                *)
(***************************************************************************)
ConsumerLock ==
    /\ RwRunning /\ consPc = "lock"
    /\ ~writer
    /\ readers' = readers + 1
    /\ consPc' = "back"
    /\ UNCHANGED <<a, writer, lockFailures, unlockFailures, rwPc, prodVars,
                   read_element, printed, dropped>>

ConsumerLockFails ==
    /\ RwRunning /\ consPc = "lock"
    /\ lockFailures < MaxLockFailures
    /\ lockFailures' = lockFailures + 1
    /\ UNCHANGED <<a, writer, readers, unlockFailures, rwPc, prodVars, consVars>>

\* a.empty() and a.back()
ConsumerBack ==
    /\ RwRunning /\ consPc = "back"
    /\ IF a = <<>>
       THEN consPc' = "unlock" /\ UNCHANGED read_element
       ELSE consPc' = "pop" /\ read_element' = {a[Len(a)]}
    /\ UNCHANGED <<a, lockVars, rwPc, prodVars, printed, dropped>>

ConsumerPop ==
    /\ RwRunning /\ consPc = "pop"
    /\ a' = SubSeq(a, 1, Len(a) - 1)
    /\ consPc' = "unlock"
    /\ UNCHANGED <<lockVars, rwPc, prodVars, read_element, printed, dropped>>

\* Seeded fault: an empty read counts as an element.
CountedAlways == Append(printed, CHOOSE e \in read_element \union {0} : TRUE)

\* The element read, if any, is printed and counted.
Counted ==
    IF read_element = {} THEN printed
    ELSE Append(printed, CHOOSE e \in read_element : TRUE)

ReadUnlocked == readers - 1

ConsumerUnlock ==
    /\ RwRunning /\ consPc = "unlock"
    /\ readers' = ReadUnlocked
    /\ printed' = Counted
    /\ consPc' = IF Len(Counted) < N THEN "lock" ELSE "done"
    /\ read_element' = {}
    /\ UNCHANGED <<a, writer, lockFailures, unlockFailures, rwPc, prodVars,
                   dropped>>

\* unlock fails: continue skips the printing, so the element popped is lost.
ConsumerUnlockFails ==
    /\ RwRunning /\ consPc = "unlock"
    /\ unlockFailures < MaxUnlockFailures
    /\ unlockFailures' = unlockFailures + 1
    /\ dropped' = dropped \union read_element
    /\ read_element' = {}
    /\ consPc' = "lock"
    /\ UNCHANGED <<a, writer, readers, lockFailures, rwPc, prodVars, printed>>
-----------------------------------------------------------------------------
(***************************************************************************)
(* ConsumerAndProducer()                                                   *)
(***************************************************************************)
RunProducer ==
    /\ rwPc = "run_producer"
    /\ rwPc' = "run_consumer" /\ prodPc' = "lock"
    /\ UNCHANGED <<a, lockVars, i, consVars>>

RunConsumer ==
    /\ rwPc = "run_consumer"
    /\ rwPc' = "join_producer" /\ consPc' = "lock"
    /\ UNCHANGED <<a, lockVars, prodVars, read_element, printed, dropped>>

\* pthread_create fails: the function and then main return, which ends the
\* producer wherever it is.
RunFails ==
    /\ rwPc \in {"run_producer", "run_consumer"}
    /\ rwPc' = "exited"
    /\ UNCHANGED <<a, lockVars, prodVars, consVars>>

JoinProducer ==
    /\ rwPc = "join_producer" /\ prodPc = "done"
    /\ rwPc' = "join_consumer"
    /\ UNCHANGED <<a, lockVars, prodVars, consVars>>

JoinConsumer ==
    /\ rwPc = "join_consumer" /\ consPc = "done"
    /\ rwPc' = "joined"
    /\ UNCHANGED <<a, lockVars, prodVars, consVars>>

ProducerStep == ProducerLock \/ ProducerPush \/ ProducerUnlock
ConsumerStep == ConsumerLock \/ ConsumerBack \/ ConsumerPop \/ ConsumerUnlock
RwMainStep     == RunProducer \/ RunConsumer \/ JoinProducer \/ JoinConsumer
RwFailure      == ProducerLockFails \/ ConsumerLockFails \/ ConsumerUnlockFails
                \/ RunFails

RwNext == ProducerStep \/ ConsumerStep \/ RwMainStep \/ RwFailure

RwSpec == RwInit /\ [][RwNext]_rwVars
-----------------------------------------------------------------------------
RwTypeOK ==
    /\ a \in Seq(Elements)
    /\ writer \in BOOLEAN
    /\ readers \in 0..(MaxUnlockFailures + 1)
    /\ rwPc \in {"run_producer", "run_consumer", "join_producer",
                   "join_consumer", "joined", "exited"}
    /\ prodPc \in {"idle", "lock", "push", "unlock", "done"}
    /\ i \in 0..N
    /\ consPc \in {"idle", "lock", "back", "pop", "unlock", "done"}
    /\ read_element \subseteq Elements
    /\ printed \in Seq(Elements)
    /\ dropped \subseteq Elements
    /\ lockFailures \in 0..MaxLockFailures
    /\ unlockFailures \in 0..MaxUnlockFailures

\* The vector is never pushed to while the consumer looks at it or pops from it,
\* although the consumer modifies it under the read lock.
NoRace == ~(prodPc = "push" /\ consPc \in {"back", "pop"})

Pushed == IF prodPc = "unlock" THEN i + 1 ELSE i

\* The element the consumer has taken out of the vector.
InHand == IF consPc = "unlock" THEN read_element ELSE {}

Times(s, e) == Cardinality({k \in DOMAIN s : s[k] = e})
TimesIn(S, e) == IF e \in S THEN 1 ELSE 0

\* Every element pushed so far is in exactly one place, once: in the vector, in
\* the consumer's hand, printed, or dropped by a failed unlock.
EachElementOnce ==
    \A e \in Elements :
        Times(a, e) + Times(printed, e) + TimesIn(InHand, e)
            + TimesIn(dropped, e) = IF e < Pushed THEN 1 ELSE 0

\* When both threads are joined every element has been read and none is left.
AllReadAtTheEnd ==
    rwPc = "joined" => a = <<>> /\ {printed[k] : k \in DOMAIN printed} = Elements
=============================================================================
