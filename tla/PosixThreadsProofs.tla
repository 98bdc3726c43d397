------------------------- MODULE PosixThreadsProofs -------------------------
(***************************************************************************)
(* Proofs about the programs of posix_threads/, for every number of        *)
(* threads, elements and failing calls and all lengths of the sleeps.      *)
(* Each program has an inductive invariant of its own; a step of           *)
(* ThreadsSpec is a step of one program and leaves the others alone.       *)
(***************************************************************************)
EXTENDS PosixThreads, FiniteSetTheorems, SequenceTheorems, TLAPS

-----------------------------------------------------------------------------
(***************************************************************************)
(* RunMutexThreads()                                                       *)
(***************************************************************************)

\* A thread between lock and unlock is the one that holds the mutex.
HolderInside ==
    \A t \in Threads : pc[t] \in {"read", "write", "unlock"} => mutex = {t}

\* Between the read and the write of counter++ nobody else has written.
SeenIsCurrent == \A t \in Threads : pc[t] = "write" => seen[t] = counter

Incremented == {t \in Threads : pc[t] \in {"unlock", "ok", "bad_unlock"}}

\* No increment is lost or done twice.
CountsIncrements == counter = Cardinality(Incremented)

\* What the main thread knows of the threads it has created and joined.
MainKnows ==
    /\ mutexPc = "create" => \A t \in Threads : t >= index => pc[t] = "none"
    /\ mutexPc = "join" => \A t \in Threads : t < index => pc[t] = "ok"
    /\ mutexPc = "joined" => \A t \in Threads : pc[t] = "ok"

\* What holds as long as the mutex exists.
MutexWorks == HolderInside /\ SeenIsCurrent /\ CountsIncrements

CounterInv ==
    MutexTypeOK /\ MainKnows /\ (mutexPc # "returned" => MutexWorks)
-----------------------------------------------------------------------------
LEMMA ThreadsFinite ==
    /\ IsFiniteSet(Threads)
    /\ Cardinality(Threads) = kMutexThreadsNumber
<1>1. /\ 0 \in Int /\ kMutexThreadsNumber - 1 \in Int
      /\ (kMutexThreadsNumber - 1) - 0 + 1 = kMutexThreadsNumber
      /\ 0 > kMutexThreadsNumber - 1 => kMutexThreadsNumber = 0
  BY MutexCounterAssumption
<1> QED
  BY <1>1, FS_Interval DEF Threads

LEMMA CounterInvInit == MutexInit => CounterInv
<1> SUFFICES ASSUME MutexInit PROVE CounterInv
  OBVIOUS
<1>1. Incremented = {}
  BY DEF MutexInit, Incremented
<1>2. CountsIncrements
  BY <1>1, FS_EmptySet DEF MutexInit, CountsIncrements
<1> QED
  BY <1>2, MutexCounterAssumption
     DEF MutexInit, CounterInv, MutexWorks, MutexTypeOK, HolderInside, SeenIsCurrent, MainKnows

\* The steps that leave the counter and the set of threads done alone.
LEMMA QuietStep ==
    ASSUME CountsIncrements, counter' = counter, Incremented' = Incremented
    PROVE  CountsIncrements'
BY DEF CountsIncrements

LEMMA CounterInvNext == CounterInv /\ [MutexNext]_mutexVars => CounterInv'
<1> SUFFICES ASSUME CounterInv, [MutexNext]_mutexVars PROVE CounterInv'
  OBVIOUS
<1> USE DEF CounterInv
<1>1. ASSUME NEW t \in Threads, Lock(t) PROVE CounterInv'
  <2>1. MutexTypeOK' /\ MainKnows' /\ mutexPc' = mutexPc
    BY <1>1 DEF Lock, Goto, MutexTypeOK, MainKnows
  <2>2. ASSUME MutexWorks, mutexPc # "returned" PROVE MutexWorks'
    <3>1. Incremented' = Incremented
      BY <1>1 DEF Lock, Goto, Incremented, MutexTypeOK
    <3>2. HolderInside' /\ SeenIsCurrent'
      BY <1>1, <2>2 DEF Lock, MutexFree, Goto, MutexTypeOK, MutexWorks, HolderInside,
                      SeenIsCurrent
    <3> QED
      BY <1>1, <2>2, <3>1, <3>2, QuietStep DEF Lock, MutexWorks
  <2> QED
    BY <2>1, <2>2
<1>2. ASSUME NEW t \in Threads, LockFails(t) PROVE CounterInv'
  <2>1. MutexTypeOK' /\ MainKnows' /\ mutexPc' = mutexPc
    BY <1>2 DEF LockFails, Goto, MutexTypeOK, MainKnows
  <2>2. ASSUME MutexWorks, mutexPc # "returned" PROVE MutexWorks'
    <3>1. Incremented' = Incremented
      BY <1>2 DEF LockFails, Goto, Incremented, MutexTypeOK
    <3>2. HolderInside' /\ SeenIsCurrent'
      BY <1>2, <2>2 DEF LockFails, Goto, MutexTypeOK, MutexWorks, HolderInside,
                      SeenIsCurrent
    <3> QED
      BY <1>2, <2>2, <3>1, <3>2, QuietStep DEF LockFails, MutexWorks
  <2> QED
    BY <2>1, <2>2
<1>3. ASSUME NEW t \in Threads, ReadCounter(t) PROVE CounterInv'
  <2>1. MutexTypeOK' /\ MainKnows' /\ mutexPc' = mutexPc
    BY <1>3 DEF ReadCounter, Goto, MutexTypeOK, MainKnows
  <2>2. ASSUME MutexWorks, mutexPc # "returned" PROVE MutexWorks'
    <3>1. Incremented' = Incremented
      BY <1>3 DEF ReadCounter, Goto, Incremented, MutexTypeOK
    <3>2. HolderInside' /\ SeenIsCurrent'
      BY <1>3, <2>2 DEF ReadCounter, Goto, MutexTypeOK, MutexWorks, HolderInside,
                      SeenIsCurrent
    <3> QED
      BY <1>3, <2>2, <3>1, <3>2, QuietStep DEF ReadCounter, MutexWorks
  <2> QED
    BY <2>1, <2>2
<1>4. ASSUME NEW t \in Threads, WriteCounter(t) PROVE CounterInv'
  <2>1. MutexTypeOK' /\ MainKnows' /\ mutexPc' = mutexPc
    BY <1>4 DEF WriteCounter, Goto, MutexTypeOK, MainKnows
  <2>2. ASSUME MutexWorks, mutexPc # "returned" PROVE MutexWorks'
    <3>1. t \notin Incremented /\ Incremented' = Incremented \union {t}
      BY <1>4 DEF WriteCounter, Goto, Incremented, MutexTypeOK
    <3>2. IsFiniteSet(Incremented)
      BY ThreadsFinite, FS_Subset DEF Incremented
    <3>3. CountsIncrements'
      BY <1>4, <2>2, <3>1, <3>2, FS_AddElement
         DEF WriteCounter, Goto, MutexWorks, CountsIncrements, SeenIsCurrent
    <3>4. HolderInside' /\ SeenIsCurrent'
      BY <1>4, <2>2 DEF WriteCounter, Goto, MutexTypeOK, MutexWorks,
                      HolderInside, SeenIsCurrent
    <3> QED
      BY <3>3, <3>4 DEF MutexWorks
  <2> QED
    BY <2>1, <2>2
<1>5. ASSUME NEW t \in Threads, Unlock(t) PROVE CounterInv'
  <2>1. MutexTypeOK' /\ MainKnows' /\ mutexPc' = mutexPc
    BY <1>5 DEF Unlock, Goto, MutexTypeOK, MainKnows
  <2>2. ASSUME MutexWorks, mutexPc # "returned" PROVE MutexWorks'
    <3>1. Incremented' = Incremented
      BY <1>5 DEF Unlock, Goto, Incremented, MutexTypeOK
    <3>2. HolderInside' /\ SeenIsCurrent'
      BY <1>5, <2>2 DEF Unlock, Goto, MutexTypeOK, MutexWorks, HolderInside,
                      SeenIsCurrent
    <3> QED
      BY <1>5, <2>2, <3>1, <3>2, QuietStep DEF Unlock, MutexWorks
  <2> QED
    BY <2>1, <2>2
<1>6. ASSUME NEW t \in Threads, UnlockFails(t) PROVE CounterInv'
  <2>1. MutexTypeOK' /\ MainKnows' /\ mutexPc' = mutexPc
    BY <1>6 DEF UnlockFails, Goto, MutexTypeOK, MainKnows
  <2>2. ASSUME MutexWorks, mutexPc # "returned" PROVE MutexWorks'
    <3>1. Incremented' = Incremented
      BY <1>6 DEF UnlockFails, Goto, Incremented, MutexTypeOK
    <3>2. HolderInside' /\ SeenIsCurrent'
      BY <1>6, <2>2 DEF UnlockFails, Goto, MutexTypeOK, MutexWorks, HolderInside,
                      SeenIsCurrent
    <3> QED
      BY <1>6, <2>2, <3>1, <3>2, QuietStep DEF UnlockFails, MutexWorks
  <2> QED
    BY <2>1, <2>2
<1>7. CASE Create
  <2>1. CASE MoreToCreate
    <3>1. index \in Threads /\ pc[index] = "none" /\ mutexPc = "create"
      BY <1>7, <2>1, MutexCounterAssumption
         DEF Create, MoreToCreate, MutexTypeOK, Threads, MainKnows
    <3>2. Incremented' = Incremented
      BY <1>7, <2>1, <3>1 DEF Create, Incremented, MutexTypeOK
    <3>3. MutexTypeOK' /\ MainKnows'
      BY <1>7, <2>1, <3>1, MutexCounterAssumption
         DEF Create, MoreToCreate, MutexTypeOK, MainKnows, Threads
    <3>4. HolderInside' /\ SeenIsCurrent'
      BY <1>7, <2>1, <3>1 DEF Create, MutexTypeOK, MutexWorks, HolderInside,
                              SeenIsCurrent
    <3> QED
      BY <1>7, <3>1, <3>2, <3>3, <3>4, QuietStep DEF Create, MutexWorks
  <2>2. CASE ~MoreToCreate
    <3>1. Incremented' = Incremented
      BY <1>7, <2>2 DEF Create, Incremented
    <3>2. MutexTypeOK' /\ MainKnows'
      BY <1>7, <2>2, MutexCounterAssumption
         DEF Create, MutexTypeOK, MainKnows, Threads
    <3>3. HolderInside' /\ SeenIsCurrent'
      BY <1>7, <2>2 DEF Create, MutexWorks, HolderInside, SeenIsCurrent
    <3> QED
      BY <1>7, <3>1, <3>2, <3>3, QuietStep DEF Create, MutexWorks
  <2> QED
    BY <2>1, <2>2
<1>8. CASE CreateFails
  BY <1>8 DEF CreateFails, MutexTypeOK, MainKnows
<1>9. CASE Join
  <2>1. Incremented' = Incremented
    BY <1>9 DEF Join, Incremented
  <2>2. MutexTypeOK'
    BY <1>9, MutexCounterAssumption DEF Join, AllJoined, MutexTypeOK
  <2>3. MainKnows'
    BY <1>9, MutexCounterAssumption
       DEF Join, AllJoined, MutexTypeOK, MainKnows, Threads
  <2>4. HolderInside' /\ SeenIsCurrent' /\ mutexPc = "join"
    BY <1>9 DEF Join, MutexWorks, HolderInside, SeenIsCurrent
  <2> QED
    BY <1>9, <2>1, <2>2, <2>3, <2>4, QuietStep DEF Join, MutexWorks
<1>10. CASE UNCHANGED mutexVars
  <2>1. Incremented' = Incremented
    BY <1>10 DEF mutexVars, Incremented
  <2> QED
    BY <1>10, <2>1, QuietStep
       DEF mutexVars, MutexTypeOK, MutexWorks, HolderInside, SeenIsCurrent,
           MainKnows
<1> QED
  BY <1>1, <1>2, <1>3, <1>4, <1>5, <1>6, <1>7, <1>8, <1>9, <1>10
     DEF MutexNext, ThreadStep, MutexFailure
-----------------------------------------------------------------------------
LEMMA CounterInvExact == CounterInv => CounterIsExact
<1> SUFFICES ASSUME CounterInv, mutexPc = "joined"
             PROVE  counter = kMutexThreadsNumber
  BY DEF CounterIsExact
<1>1. Incremented = Threads
  BY DEF CounterInv, MainKnows, Incremented
<1> QED
  BY <1>1, ThreadsFinite DEF CounterInv, MutexWorks, CountsIncrements

LEMMA CounterInvExclusion == CounterInv => MutualExclusion
BY DEF CounterInv, MutexWorks, HolderInside, MutualExclusion

\* A thread that is at the vector holds its lock, and the locks exclude each
\* other.
LockInv ==
    /\ writer \in BOOLEAN
    /\ readers \in Nat
    /\ writer => readers = 0
    /\ prodPc \in {"push", "unlock"} => writer
    /\ consPc \in {"back", "pop", "unlock"} => readers > 0

LEMMA LockInvInit == RwInit => LockInv
<1> SUFFICES ASSUME RwInit PROVE LockInv
  OBVIOUS
<1>1. writer = FALSE /\ readers = 0 /\ prodPc = "idle" /\ consPc = "idle"
  BY DEF RwInit
<1> QED
  BY <1>1 DEF LockInv

LEMMA LockInvNext == LockInv /\ [RwNext]_rwVars => LockInv'
<1> SUFFICES ASSUME LockInv, [RwNext]_rwVars PROVE LockInv'
  OBVIOUS
<1> USE DEF LockInv
<1>1. CASE ProducerLock
  BY <1>1 DEF ProducerLock, WriteLockFree, consVars
<1>2. CASE ProducerPush
  BY <1>2 DEF ProducerPush, lockVars, consVars
<1>3. CASE ProducerUnlock
  BY <1>3 DEF ProducerUnlock, consVars
<1>4. CASE ConsumerLock
  BY <1>4 DEF ConsumerLock, prodVars
<1>5. CASE ConsumerBack
  BY <1>5 DEF ConsumerBack, lockVars, prodVars
<1>6. CASE ConsumerPop
  BY <1>6 DEF ConsumerPop, lockVars, prodVars
<1>7. CASE ConsumerUnlock
  BY <1>7 DEF ConsumerUnlock, ReadUnlocked, prodVars
<1>8. CASE RwMainStep
  BY <1>8 DEF RwMainStep, RunProducer, RunConsumer, JoinProducer, JoinConsumer,
              lockVars, prodVars, consVars
<1>9. CASE RwFailure
  BY <1>9 DEF RwFailure, ProducerLockFails, ConsumerLockFails,
              ConsumerUnlockFails, RunFails, lockVars, prodVars, consVars
<1>10. CASE UNCHANGED rwVars
  BY <1>10 DEF rwVars, lockVars, prodVars, consVars
<1> QED
  BY <1>1, <1>2, <1>3, <1>4, <1>5, <1>6, <1>7, <1>8, <1>9, <1>10
     DEF RwNext, ProducerStep, ConsumerStep

LEMMA LockInvNoRace == LockInv => NoRace
BY DEF LockInv, NoRace
-----------------------------------------------------------------------------
\* Where the loops of main and of the two threads are.
LoopsInv ==
    /\ rwPc = "run_producer" => prodPc = "idle"
    /\ rwPc \in {"run_producer", "run_consumer"} => consPc = "idle"
    /\ rwPc \in {"join_consumer", "joined"} => prodPc = "done"
    /\ rwPc = "joined" => consPc = "done"
    /\ prodPc = "idle" => i = 0
    /\ prodPc \in {"lock", "push", "unlock"} => i < N
    /\ prodPc = "done" => i = N
    /\ consPc = "done" => Len(printed) >= N

\* Every read lock that is held is the one of this turn, or one whose unlock
\* failed.
ReadersBounded ==
    /\ readers <= unlockFailures + 1
    /\ consPc \notin {"back", "pop", "unlock"} => readers <= unlockFailures

\* What the consumer has read: nothing, or one element, the last one of the
\* vector until it is popped.
ReadInv ==
    /\ consPc \notin {"pop", "unlock"} => read_element = {}
    /\ consPc = "pop" => a # <<>> /\ read_element = {a[Len(a)]}
    /\ consPc = "unlock" => read_element = {} \/ \E e \in Elements : read_element = {e}

Members(s) == {s[k] : k \in DOMAIN s}
Distinct(s) == \A j, k \in DOMAIN s : s[j] = s[k] => j = k

\* The elements pushed so far, and the four places one of them can be in.
PlacesInv ==
    /\ Distinct(a) /\ Distinct(printed)
    /\ \A e \in Elements :
          /\ e < Pushed <=> \/ e \in Members(a) \/ e \in Members(printed)
                            \/ e \in InHand \/ e \in dropped
          /\ e \in Members(a) =>
                 e \notin Members(printed) /\ e \notin InHand /\ e \notin dropped
          /\ e \in Members(printed) => e \notin InHand /\ e \notin dropped
          /\ e \in InHand => e \notin dropped

RwInv ==
    RwTypeOK /\ LockInv /\ LoopsInv /\ ReadersBounded /\ ReadInv /\ PlacesInv

LEMMA RwInvInit == RwInit => RwInv
<1> SUFFICES ASSUME RwInit PROVE RwInv
  OBVIOUS
<1> USE ProducerConsumerAssumption
<1>a. RwTypeOK
  <2>1. 0 \in 0..N /\ 0 \in 0..MaxLockFailures /\ 0 \in 0..MaxUnlockFailures
        /\ 0 \in 0..(MaxUnlockFailures + 1) /\ <<>> \in Seq(Elements)
    OBVIOUS
  <2> QED
    BY <2>1 DEF RwInit, RwTypeOK
<1>b. Len(<<>>) = 0
  OBVIOUS
<1>c. LoopsInv /\ ReadersBounded
  BY <1>b DEF RwInit, LoopsInv, ReadersBounded
<1>1. RwTypeOK /\ LoopsInv /\ ReadersBounded /\ ReadInv
  BY <1>a, <1>c DEF RwInit, ReadInv
<1>2. PlacesInv
  BY DEF RwInit, PlacesInv, Distinct, Members, Pushed, InHand, Elements
<1> QED
  BY <1>1, <1>2, LockInvInit DEF RwInv

\* Appending and removing the last element.
LEMMA AppendMembers ==
    ASSUME NEW S, NEW s \in Seq(S), NEW e \in S
    PROVE  /\ Append(s, e) \in Seq(S)
           /\ Members(Append(s, e)) = Members(s) \union {e}
           /\ Distinct(s) /\ e \notin Members(s) => Distinct(Append(s, e))
<1>1. /\ Append(s, e) \in Seq(S) /\ Len(Append(s, e)) = Len(s) + 1
      /\ DOMAIN s = 1..Len(s) /\ DOMAIN Append(s, e) = 1..(Len(s) + 1)
      /\ Len(s) \in Nat
      /\ Append(s, e)[Len(s) + 1] = e
      /\ \A k \in 1..Len(s) : Append(s, e)[k] = s[k]
  OBVIOUS
<1>2. \A k \in 1..(Len(s) + 1) : k \in 1..Len(s) \/ k = Len(s) + 1
  BY <1>1
<1>3. Members(Append(s, e)) = Members(s) \union {e}
  <2>1. ASSUME NEW x \in Members(Append(s, e)) PROVE x \in Members(s) \union {e}
    BY <1>1, <1>2 DEF Members
  <2>2. ASSUME NEW x \in Members(s) PROVE x \in Members(Append(s, e))
    <3>1. PICK k \in 1..Len(s) : x = s[k]
      BY <1>1 DEF Members
    <3>2. k \in 1..(Len(s) + 1) /\ Append(s, e)[k] = x
      BY <1>1, <3>1
    <3> QED
      BY <1>1, <3>2 DEF Members
  <2>3. e \in Members(Append(s, e))
    <3>1. Len(s) + 1 \in 1..(Len(s) + 1)
      BY <1>1
    <3> QED
      BY <1>1, <3>1 DEF Members
  <2> QED
    BY <2>1, <2>2, <2>3
<1>4. ASSUME Distinct(s), e \notin Members(s) PROVE Distinct(Append(s, e))
  BY <1>1, <1>2, <1>4 DEF Distinct, Members
<1> QED
  BY <1>1, <1>3, <1>4

LEMMA PopMembers ==
    ASSUME NEW S, NEW s \in Seq(S), s # <<>>, Distinct(s)
    PROVE  LET r == SubSeq(s, 1, Len(s) - 1)
           IN  /\ r \in Seq(S) /\ Distinct(r)
               /\ s[Len(s)] \in S
               /\ Members(s) = Members(r) \union {s[Len(s)]}
               /\ s[Len(s)] \notin Members(r)
<1> DEFINE r == SubSeq(s, 1, Len(s) - 1)
<1>a. Len(s) \in Nat /\ Len(s) # 0 /\ DOMAIN s = 1..Len(s)
  BY EmptySeq
<1>b. 1 \in 1..(Len(s) + 1) /\ Len(s) - 1 \in 0..Len(s) /\ Len(s) \in 1..Len(s)
      /\ 1 <= (Len(s) - 1) + 1 /\ ((Len(s) - 1) - 1) + 1 = Len(s) - 1
  BY <1>a
<1>c. s[Len(s)] \in S
  BY <1>a, <1>b
<1>1. /\ Len(s) \in Nat /\ Len(s) # 0 /\ DOMAIN s = 1..Len(s)
      /\ r \in Seq(S) /\ Len(r) = Len(s) - 1 /\ DOMAIN r = 1..(Len(s) - 1)
      /\ \A k \in 1..(Len(s) - 1) : r[k] = s[k]
      /\ s[Len(s)] \in S
  BY <1>a, <1>b, <1>c
<1> HIDE DEF r
<1>2. \A k \in 1..Len(s) : k \in 1..(Len(s) - 1) \/ k = Len(s)
  BY ONLY Len(s) \in Nat
<1>3. \A k \in 1..(Len(s) - 1) : k \in 1..Len(s) /\ k # Len(s)
  BY ONLY Len(s) \in Nat
<1>4. Len(s) \in 1..Len(s)
  BY <1>1
<1>5. Distinct(r)
  BY <1>1, <1>3 DEF Distinct
<1>6. s[Len(s)] \notin Members(r)
  BY <1>1, <1>3, <1>4 DEF Distinct, Members
<1>7. Members(s) = Members(r) \union {s[Len(s)]}
  <2>1. ASSUME NEW x \in Members(s) PROVE x \in Members(r) \union {s[Len(s)]}
    BY <1>1, <1>2 DEF Members
  <2>2. ASSUME NEW x \in Members(r) PROVE x \in Members(s)
    BY <1>1, <1>3 DEF Members
  <2>3. s[Len(s)] \in Members(s)
    BY <1>1, <1>4 DEF Members
  <2> QED
    BY <2>1, <2>2, <2>3
<1> QED
  BY <1>1, <1>5, <1>6, <1>7 DEF r

LEMMA RwInvNext == RwInv /\ [RwNext]_rwVars => RwInv'
<1> SUFFICES ASSUME RwInv, [RwNext]_rwVars PROVE RwInv'
  OBVIOUS
<1>0. LockInv'
  BY LockInvNext DEF RwInv
<1> USE ProducerConsumerAssumption
<1>t. RwTypeOK /\ LockInv /\ LoopsInv /\ ReadersBounded /\ ReadInv /\ PlacesInv
  BY DEF RwInv
<1>s. a \in Seq(Elements) /\ printed \in Seq(Elements) /\ Len(printed) \in Nat
  BY <1>t DEF RwTypeOK
<1>q. ASSUME a' = a, printed' = printed, dropped' = dropped, Pushed' = Pushed,
             InHand' = InHand
      PROVE  PlacesInv'
  BY <1>t, <1>q DEF PlacesInv, Members, Distinct
<1>1. CASE ProducerLock
  <2>1. RwTypeOK' /\ LoopsInv' /\ ReadersBounded' /\ ReadInv'
    BY <1>1, <1>t DEF ProducerLock, RwTypeOK, LoopsInv, ReadersBounded, ReadInv, consVars
  <2>2. PlacesInv'
    BY <1>1, <1>q DEF ProducerLock, consVars, Pushed, InHand
  <2> QED
    BY <1>0, <2>1, <2>2 DEF RwInv
<1>2. CASE ProducerPush
  <2>1. i \in Elements /\ Pushed = i /\ Pushed' = i + 1 /\ a' = Append(a, i)
    BY <1>2, <1>t DEF ProducerPush, RwTypeOK, LoopsInv, Elements, Pushed
  <2>2. printed' = printed /\ dropped' = dropped /\ InHand' = InHand
    BY <1>2 DEF ProducerPush, consVars, InHand
  <2>3. i \notin Members(a) /\ i \notin Members(printed) /\ i \notin InHand
        /\ i \notin dropped
    <3>1. ~(i < Pushed)
      BY <2>1 DEF Elements
    <3> QED
      BY <1>t, <2>1, <3>1 DEF PlacesInv
  <2>4. /\ a' \in Seq(Elements) /\ Members(a') = Members(a) \union {i}
        /\ Distinct(a')
    BY <1>s, <1>t, <2>1, <2>3, AppendMembers DEF PlacesInv
  <2>5. RwTypeOK' /\ LoopsInv' /\ ReadersBounded'
    BY <1>2, <1>t, <2>4
       DEF ProducerPush, RwTypeOK, LoopsInv, ReadersBounded, lockVars, consVars
  <2>6. ReadInv'
    <3>1. consPc # "pop"
      BY <1>2, <1>t DEF ProducerPush, LockInv
    <3> QED
      BY <1>2, <1>t, <3>1 DEF ProducerPush, ReadInv, consVars
  <2>7. PlacesInv'
    <3>1. \A e \in Elements : e < i + 1 <=> e < i \/ e = i
      BY <2>1 DEF Elements
    <3>2. Distinct(printed)' /\ Members(printed)' = Members(printed)
      BY <1>t, <2>2 DEF PlacesInv, Distinct, Members
    <3>3. Distinct(a)' /\ Members(a)' = Members(a) \union {i}
      BY <2>4 DEF Distinct, Members
    <3> QED
      BY <1>t, <2>1, <2>2, <2>3, <3>1, <3>2, <3>3 DEF PlacesInv
  <2> QED
    BY <1>0, <2>5, <2>6, <2>7 DEF RwInv
<1>3. CASE ProducerUnlock
  <2>1. i \in 0..N /\ i < N /\ i + 1 \in 0..N
    BY <1>3, <1>t DEF ProducerUnlock, RwTypeOK, LoopsInv
  <2>a. ReadersBounded' /\ ReadInv'
    BY <1>3, <1>t DEF ProducerUnlock, RwTypeOK, ReadersBounded, ReadInv, consVars
  <2>c. \/ unlockFailures' = unlockFailures
        \/ unlockFailures < MaxUnlockFailures /\ unlockFailures' = unlockFailures + 1
    BY <1>3 DEF ProducerUnlock
  <2>b. unlockFailures' \in 0..MaxUnlockFailures
    BY <1>t, <2>c DEF RwTypeOK
  <2>d. writer' \in BOOLEAN
    BY <1>0 DEF LockInv
  <2>2. RwTypeOK' /\ ReadersBounded' /\ ReadInv'
    BY <1>3, <1>t, <2>1, <2>a, <2>b, <2>d DEF ProducerUnlock, RwTypeOK, consVars
  <2>3. LoopsInv'
    BY <1>3, <1>t, <2>1 DEF ProducerUnlock, RwTypeOK, LoopsInv, consVars
  <2>4. Pushed' = Pushed /\ InHand' = InHand
    BY <1>3 DEF ProducerUnlock, Pushed, InHand, consVars
  <2>5. PlacesInv'
    BY <1>3, <1>q, <2>4 DEF ProducerUnlock, consVars
  <2> QED
    BY <1>0, <2>2, <2>3, <2>5 DEF RwInv
<1>4. CASE ConsumerLock
  <2>1. RwTypeOK' /\ LoopsInv' /\ ReadersBounded' /\ ReadInv'
    BY <1>4, <1>t DEF ConsumerLock, RwTypeOK, LoopsInv, ReadersBounded, ReadInv, prodVars
  <2>2. PlacesInv'
    BY <1>4, <1>q DEF ConsumerLock, prodVars, Pushed, InHand
  <2> QED
    BY <1>0, <2>1, <2>2 DEF RwInv
<1>5. CASE ConsumerBack
  <2>1. LoopsInv' /\ ReadersBounded'
    BY <1>5, <1>t DEF ConsumerBack, LoopsInv, ReadersBounded, lockVars, prodVars
  <2>2. a' = a /\ printed' = printed /\ dropped' = dropped /\ Pushed' = Pushed
    BY <1>5 DEF ConsumerBack, Pushed, prodVars
  <2>3. CASE a = <<>>
    <3>1. read_element' = {} /\ consPc' = "unlock" /\ InHand' = {} /\ InHand = {}
      BY <1>5, <1>t, <2>3 DEF ConsumerBack, ReadInv, InHand
    <3>2. RwTypeOK' /\ ReadInv'
      BY <1>5, <1>t, <2>2, <3>1 DEF ConsumerBack, RwTypeOK, ReadInv, lockVars, prodVars
    <3>3. PlacesInv'
      BY <1>q, <2>2, <3>1
    <3> QED
      BY <1>0, <2>1, <3>2, <3>3 DEF RwInv
  <2>4. CASE a # <<>>
    <3>1. /\ read_element' = {a[Len(a)]} /\ consPc' = "pop"
          /\ InHand' = {} /\ InHand = {}
      BY <1>5, <1>t, <2>4 DEF ConsumerBack, InHand
    <3>2. a[Len(a)] \in Elements
      BY <1>s, <1>t, <2>4, PopMembers DEF PlacesInv
    <3>3. RwTypeOK'
      BY <1>5, <1>t, <2>2, <3>1, <3>2 DEF ConsumerBack, RwTypeOK, lockVars, prodVars
    <3>4. ReadInv'
      BY <2>2, <2>4, <3>1 DEF ReadInv
    <3>5. PlacesInv'
      BY <1>q, <2>2, <3>1
    <3> QED
      BY <1>0, <2>1, <3>3, <3>4, <3>5 DEF RwInv
  <2> QED
    BY <2>3, <2>4
<1>6. CASE ConsumerPop
  <2> DEFINE e == a[Len(a)]
  <2>1. a # <<>> /\ read_element = {e} /\ InHand = {}
    BY <1>6, <1>t DEF ConsumerPop, ReadInv, InHand
  <2>2. /\ a' \in Seq(Elements) /\ Distinct(a') /\ e \in Elements
        /\ Members(a) = Members(a') \union {e} /\ e \notin Members(a')
    BY <1>6, <1>s, <1>t, <2>1, PopMembers DEF ConsumerPop, PlacesInv
  <2>3. PICK x : x = e
    OBVIOUS
  <2> HIDE DEF e
  <2>4. InHand' = {x} /\ consPc' = "unlock" /\ read_element' = {x}
    BY <1>6, <2>1, <2>3 DEF ConsumerPop, InHand
  <2>5. RwTypeOK' /\ LoopsInv' /\ ReadersBounded' /\ ReadInv'
    BY <1>6, <1>t, <2>2, <2>3, <2>4
       DEF ConsumerPop, RwTypeOK, LoopsInv, ReadersBounded, ReadInv, lockVars, prodVars
  <2>6. /\ Pushed' = Pushed /\ printed' = printed /\ dropped' = dropped
        /\ Members(printed)' = Members(printed)
    BY <1>6 DEF ConsumerPop, Pushed, prodVars, Members
  <2>7. /\ Distinct(a)' /\ Distinct(printed)'
        /\ Members(a) = Members(a)' \union {x} /\ x \notin Members(a)'
    BY <1>t, <2>2, <2>3, <2>6 DEF Distinct, Members, PlacesInv
  <2>8. PlacesInv'
    BY <1>t, <2>1, <2>4, <2>6, <2>7 DEF PlacesInv
  <2> QED
    BY <1>0, <2>5, <2>8 DEF RwInv
<1>7. CASE ConsumerUnlock
  <2>1. /\ a' = a /\ dropped' = dropped /\ Pushed' = Pushed /\ InHand' = {}
        /\ InHand = read_element /\ Members(a)' = Members(a) /\ Distinct(a)'
    BY <1>7, <1>t DEF ConsumerUnlock, Pushed, InHand, prodVars, Members, Distinct, PlacesInv
  <2>2. readers' \in 0..(MaxUnlockFailures + 1)
    BY <1>7, <1>t DEF ConsumerUnlock, ReadUnlocked, RwTypeOK, LockInv
  <2>3. ReadersBounded' /\ ReadInv'
    BY <1>7, <1>t
       DEF ConsumerUnlock, ReadUnlocked, ReadersBounded, ReadInv, RwTypeOK, LockInv
  <2>4. ASSUME printed' \in Seq(Elements) PROVE RwTypeOK' /\ LoopsInv'
    <3>1. Len(printed') \in Nat
      BY <2>4
    <3> QED
      BY <1>7, <1>t, <2>2, <2>4, <3>1
         DEF ConsumerUnlock, RwTypeOK, LoopsInv, prodVars
  <2>5. CASE read_element = {}
    <3>1. printed' = printed
      BY <1>7, <2>5 DEF ConsumerUnlock, Counted
    <3>2. RwTypeOK' /\ LoopsInv'
      BY <1>s, <2>4, <3>1
    <3>3. PlacesInv'
      BY <1>q, <2>1, <2>5, <3>1
    <3> QED
      BY <1>0, <2>3, <3>2, <3>3 DEF RwInv
  <2>6. CASE read_element # {}
    <3>1. PICK x \in Elements : read_element = {x}
      BY <1>7, <1>t, <2>6 DEF ConsumerUnlock, ReadInv
    <3>2. printed' = Append(printed, x)
      BY <1>7, <2>6, <3>1 DEF ConsumerUnlock, Counted
    <3>3. x \in InHand /\ x \notin Members(printed)
      BY <1>t, <2>1, <3>1 DEF PlacesInv
    <3>4. /\ printed' \in Seq(Elements) /\ Distinct(printed')
          /\ Members(printed') = Members(printed) \union {x}
      BY <1>s, <1>t, <3>2, <3>3, AppendMembers DEF PlacesInv
    <3>5. Distinct(printed)' /\ Members(printed)' = Members(printed) \union {x}
      BY <3>4 DEF Distinct, Members
    <3>6. PlacesInv'
      BY <1>t, <2>1, <3>1, <3>5 DEF PlacesInv
    <3> QED
      BY <1>0, <2>3, <2>4, <3>4, <3>6 DEF RwInv
  <2> QED
    BY <2>5, <2>6
<1>8. CASE RwMainStep
  <2>1. /\ RwTypeOK' /\ LoopsInv' /\ ReadersBounded' /\ ReadInv'
        /\ Pushed' = Pushed /\ InHand' = InHand
    BY <1>8, <1>t DEF RwMainStep, RunProducer, RunConsumer, JoinProducer, JoinConsumer,
                RwTypeOK, LoopsInv, ReadersBounded, ReadInv, Pushed, InHand,
                lockVars, prodVars, consVars
  <2>2. PlacesInv'
    BY <1>8, <1>q, <2>1 DEF RwMainStep, RunProducer, RunConsumer, JoinProducer,
                JoinConsumer, consVars
  <2> QED
    BY <1>0, <2>1, <2>2 DEF RwInv
<1>9. CASE ProducerLockFails \/ ConsumerLockFails \/ RunFails
  <2>1. /\ RwTypeOK' /\ LoopsInv' /\ ReadersBounded' /\ ReadInv'
        /\ Pushed' = Pushed /\ InHand' = InHand
    BY <1>9, <1>t DEF ProducerLockFails, ConsumerLockFails, RunFails,
                RwTypeOK, LoopsInv, ReadersBounded, ReadInv, Pushed, InHand,
                lockVars, prodVars, consVars
  <2>2. PlacesInv'
    BY <1>9, <1>q, <2>1
       DEF ProducerLockFails, ConsumerLockFails, RunFails, consVars
  <2> QED
    BY <1>0, <2>1, <2>2 DEF RwInv
<1>10. CASE ConsumerUnlockFails
  <2>1. /\ a' = a /\ printed' = printed /\ Pushed' = Pushed /\ InHand' = {}
        /\ InHand = read_element /\ dropped' = dropped \union InHand
        /\ read_element \subseteq Elements
    BY <1>10, <1>t DEF ConsumerUnlockFails, Pushed, InHand, prodVars, RwTypeOK
  <2>2. RwTypeOK' /\ LoopsInv' /\ ReadersBounded' /\ ReadInv'
    BY <1>10, <1>t, <2>1
       DEF ConsumerUnlockFails, RwTypeOK, LoopsInv, ReadersBounded, ReadInv, prodVars
  <2>3. PlacesInv'
    BY <1>t, <2>1 DEF PlacesInv, Members, Distinct
  <2> QED
    BY <1>0, <2>2, <2>3 DEF RwInv
<1>11. CASE UNCHANGED rwVars
  <2>1. /\ RwTypeOK' /\ LoopsInv' /\ ReadersBounded' /\ ReadInv'
        /\ Pushed' = Pushed /\ InHand' = InHand
    BY <1>11, <1>t DEF rwVars, RwTypeOK, LoopsInv, ReadersBounded, ReadInv,
                 Pushed, InHand, lockVars, prodVars, consVars
  <2>2. PlacesInv'
    BY <1>11, <1>q, <2>1 DEF rwVars, consVars
  <2> QED
    BY <1>0, <2>1, <2>2 DEF RwInv
<1> QED
  BY <1>1, <1>2, <1>3, <1>4, <1>5, <1>6, <1>7, <1>8, <1>9, <1>10, <1>11
     DEF RwNext, ProducerStep, ConsumerStep, RwFailure
-----------------------------------------------------------------------------
\* An element is counted once or not at all in a sequence without repetitions.
LEMMA TimesOnce ==
    ASSUME NEW S, NEW s \in Seq(S), Distinct(s), NEW e
    PROVE  Times(s, e) = IF e \in Members(s) THEN 1 ELSE 0
<1> DEFINE K == {k \in DOMAIN s : s[k] = e}
<1>1. CASE e \in Members(s)
  <2>1. PICK k \in DOMAIN s : s[k] = e
    BY <1>1 DEF Members
  <2>2. K = {k}
    BY <2>1 DEF Distinct
  <2> QED
    BY <1>1, <2>2, FS_Singleton DEF Times
<1>2. CASE e \notin Members(s)
  <2>1. K = {}
    BY <1>2 DEF Members
  <2> QED
    BY <1>2, <2>1, FS_EmptySet DEF Times
<1> QED
  BY <1>1, <1>2

LEMMA RwInvEach == RwInv => EachElementOnce
<1> SUFFICES ASSUME RwInv, NEW e \in Elements
             PROVE  Times(a, e) + Times(printed, e) + TimesIn(InHand, e)
                       + TimesIn(dropped, e) = IF e < Pushed THEN 1 ELSE 0
  BY DEF EachElementOnce
<1>1. a \in Seq(Elements) /\ printed \in Seq(Elements) /\ PlacesInv
  BY DEF RwInv, RwTypeOK
<1>2. /\ Times(a, e) = IF e \in Members(a) THEN 1 ELSE 0
      /\ Times(printed, e) = IF e \in Members(printed) THEN 1 ELSE 0
  BY <1>1, TimesOnce DEF PlacesInv
<1> QED
  BY <1>1, <1>2 DEF PlacesInv, TimesIn

\* N different elements are all of them.
LEMMA RwInvAllRead == RwInv => AllReadAtTheEnd
<1> SUFFICES ASSUME RwInv, rwPc = "joined"
             PROVE  a = <<>> /\ Members(printed) = Elements
  BY DEF AllReadAtTheEnd, Members
<1> USE ProducerConsumerAssumption
<1>1. /\ a \in Seq(Elements) /\ printed \in Seq(Elements) /\ PlacesInv
      /\ Len(printed) >= N /\ Len(printed) \in Nat
      /\ DOMAIN printed = 1..Len(printed)
  BY DEF RwInv, RwTypeOK, LoopsInv
<1>2. IsFiniteSet(Elements) /\ Cardinality(Elements) = N
  <2>1. /\ 0 \in Int /\ N - 1 \in Int /\ ~(0 > N - 1) /\ (N - 1) - 0 + 1 = N
    OBVIOUS
  <2> QED
    BY <2>1, FS_Interval DEF Elements
<1>3. IsFiniteSet(1..Len(printed)) /\ Cardinality(1..Len(printed)) = Len(printed)
  <2>1. /\ 1 \in Int /\ Len(printed) \in Int /\ ~(1 > Len(printed))
        /\ Len(printed) - 1 + 1 = Len(printed)
    BY <1>1
  <2> QED
    BY <2>1, FS_Interval
<1>4. printed \in Injection(1..Len(printed), Elements)
  <2>1. printed \in [1..Len(printed) -> Elements]
    BY <1>1
  <2>2. IsInjective(printed)
    BY <1>1 DEF PlacesInv, Distinct, IsInjective
  <2> QED
    BY <2>1, <2>2 DEF Injection
<1>5. printed \in Surjection(1..Len(printed), Elements)
  BY <1>1, <1>2, <1>3, <1>4, FS_Injection
<1>6. Members(printed) = Elements
  BY <1>1, <1>5 DEF Surjection, Members
<1>7. ASSUME a # <<>> PROVE FALSE
  <2>1. a[Len(a)] \in Elements /\ a[Len(a)] \in Members(a)
    BY <1>1, <1>7, PopMembers DEF PlacesInv
  <2> QED
    BY <1>1, <1>6, <2>1 DEF PlacesInv
<1> QED
  BY <1>6, <1>7
-----------------------------------------------------------------------------
(***************************************************************************)
(* wait_pthread                                                            *)
(***************************************************************************)
\* The threads main has not created yet.
WaitOrder ==
    /\ mainPc = "create1" => pc1 = "none" /\ pc2 = "none" /\ state = 0
    /\ mainPc = "create2" => pc1 # "none" /\ pc2 = "none"

\* How far apart the threads can be.  Thread 1 is created up to Latency units
\* before thread 2, which is at its first assertion for up to Latency units.
WaitTimed ==
    /\ mainPc = "create2" =>
          /\ state = 0 /\ pc1 \in {"start", "sleep_5"}
          /\ ready["main"] <= now /\ now <= ready["main"] + Latency
          /\ pc1 = "sleep_5" => ready["thread1"] >= ready["main"] + LongSleep
    /\ pc2 = "assert_0" =>
          /\ state = 0 /\ pc1 \in {"start", "sleep_5"}
          /\ ready["thread2"] <= now /\ now <= ready["thread2"] + Latency
          /\ pc1 = "sleep_5" =>
                 ready["thread1"] + Latency >= ready["thread2"] + LongSleep
    /\ mainPc = "aborted" => pc2 = "assert_1" /\ state = 0

WaitInv ==
    Wait!TypeOK /\ WaitOrder /\ (LongSleep > 2 * Latency => WaitTimed)

LEMMA WaitRunnable ==
    /\ "main" \in Wait!Runnable <=> mainPc \in {"create1", "create2"}
    /\ "thread1" \in Wait!Runnable <=> pc1 \notin {"none", "done"}
    /\ "thread2" \in Wait!Runnable <=> pc2 \in {"assert_0", "wait", "assert_1"}
BY DEF Wait!Runnable, Wait!Actors

LEMMA WaitInvInit == Wait!Init => WaitInv
<1> SUFFICES ASSUME Wait!Init PROVE WaitInv
  OBVIOUS
<1>1. Wait!TypeOK
  BY WaitAssumption DEF Wait!Init, Wait!TypeOK
<1>2. WaitOrder /\ WaitTimed
  BY DEF Wait!Init, WaitOrder, WaitTimed
<1> QED
  BY <1>1, <1>2 DEF WaitInv

LEMMA WaitInvNext == WaitInv /\ [Wait!Next]_(Wait!vars) => WaitInv'
<1> SUFFICES ASSUME WaitInv, [Wait!Next]_(Wait!vars) PROVE WaitInv'
  OBVIOUS
<1> USE WaitAssumption DEF Wait!Actors
<1>t. Wait!TypeOK /\ WaitOrder /\ (LongSleep > 2 * Latency => WaitTimed)
  BY DEF WaitInv
<1>r. /\ now \in Nat /\ ready \in [Wait!Actors -> Int]
      /\ ready["main"] \in Nat /\ ready["thread1"] \in Nat /\ ready["thread2"] \in Nat
  BY <1>t DEF Wait!TypeOK
<1>1. CASE Wait!Tick
  <2>1. /\ now' = now + 1 /\ mainPc # "aborted"
        /\ mainPc \in {"create1", "create2"} => now < ready["main"] + Latency
        /\ pc2 \in {"assert_0", "wait", "assert_1"} => now < ready["thread2"] + Latency
    BY <1>1, WaitRunnable DEF Wait!Tick
  <2>2. Wait!TypeOK' /\ WaitOrder'
    BY <1>1, <1>t, <2>1 DEF Wait!Tick, Wait!TypeOK, WaitOrder
  <2>3. ASSUME WaitTimed PROVE WaitTimed'
    BY <1>1, <1>r, <2>1, <2>3 DEF Wait!Tick, WaitTimed
  <2> QED
    BY <1>t, <2>2, <2>3 DEF WaitInv
<1>2. CASE Wait!Create1
  <2>1. Wait!TypeOK' /\ WaitOrder'
    BY <1>2, <1>t, <1>r DEF Wait!Create1, Wait!TypeOK, WaitOrder
  <2>2. ASSUME WaitTimed PROVE WaitTimed'
    BY <1>2, <1>r, <1>t, <2>2 DEF Wait!Create1, WaitTimed, WaitOrder
  <2> QED
    BY <1>t, <2>1, <2>2 DEF WaitInv
<1>3. CASE Wait!Create2
  <2>1. Wait!TypeOK' /\ WaitOrder'
    BY <1>3, <1>t, <1>r DEF Wait!Create2, Wait!TypeOK, WaitOrder
  <2>2. ASSUME WaitTimed PROVE WaitTimed'
    BY <1>3, <1>r, <1>t, <2>2 DEF Wait!Create2, WaitTimed, WaitOrder
  <2> QED
    BY <1>t, <2>1, <2>2 DEF WaitInv
<1>4. CASE Wait!CreateFails
  <2>1. Wait!TypeOK' /\ WaitOrder'
    BY <1>4, <1>t, <1>r DEF Wait!CreateFails, Wait!TypeOK, WaitOrder
  <2>2. ASSUME WaitTimed PROVE WaitTimed'
    BY <1>4, <1>r, <1>t, <2>2 DEF Wait!CreateFails, WaitTimed, WaitOrder
  <2> QED
    BY <1>t, <2>1, <2>2 DEF WaitInv
<1>5. CASE Wait!Join
  <2>1. Wait!TypeOK' /\ WaitOrder'
    BY <1>5, <1>t, <1>r DEF Wait!Join, Wait!TypeOK, WaitOrder
  <2>2. ASSUME WaitTimed PROVE WaitTimed'
    BY <1>5, <1>r, <1>t, <2>2 DEF Wait!Join, WaitTimed, WaitOrder
  <2> QED
    BY <1>t, <2>1, <2>2 DEF WaitInv
<1>6. CASE Wait!SleepFive
  <2>1. Wait!TypeOK' /\ WaitOrder'
    BY <1>6, <1>t, <1>r
       DEF Wait!SleepFive, Wait!Start, Wait!Thread1, Wait!TypeOK, WaitOrder
  <2>2. ASSUME WaitTimed PROVE WaitTimed'
    BY <1>6, <1>r, <1>t, <2>2
       DEF Wait!SleepFive, Wait!Start, Wait!Thread1, WaitTimed, WaitOrder
  <2> QED
    BY <1>t, <2>1, <2>2 DEF WaitInv
<1>7. CASE Wait!SetState
  <2>1. Wait!TypeOK' /\ WaitOrder'
    BY <1>7, <1>t, <1>r DEF Wait!SetState, Wait!Thread1, Wait!TypeOK, WaitOrder
  <2>2. ASSUME WaitTimed, LongSleep > 2 * Latency PROVE WaitTimed'
    <3>1. pc1 = "sleep_5" /\ ready["thread1"] <= now /\ mainPc # "aborted"
      BY <1>7 DEF Wait!SetState, Wait!Thread1, Wait!CanStep
    <3>2. mainPc # "create2" /\ pc2 # "assert_0"
      BY <1>r, <2>2, <3>1 DEF WaitTimed
    <3> QED
      BY <1>7, <3>1, <3>2 DEF Wait!SetState, Wait!Thread1, WaitTimed
  <2> QED
    BY <1>t, <2>1, <2>2 DEF WaitInv
<1>8. CASE Wait!Signal
  <2>1. Wait!TypeOK' /\ WaitOrder'
    BY <1>8, <1>t, <1>r DEF Wait!Signal, Wait!TypeOK, WaitOrder
  <2>2. ASSUME WaitTimed PROVE WaitTimed'
    <3>1. pc1 = "signal" /\ mainPc # "aborted"
      BY <1>8 DEF Wait!Signal, Wait!CanStep
    <3>2. mainPc # "create2" /\ pc2 # "assert_0"
      BY <2>2, <3>1 DEF WaitTimed
    <3> QED
      BY <1>8, <3>1, <3>2 DEF Wait!Signal, WaitTimed
  <2> QED
    BY <1>t, <2>1, <2>2 DEF WaitInv
<1>9. CASE Wait!Finish1
  <2>1. Wait!TypeOK' /\ WaitOrder'
    BY <1>9, <1>t, <1>r DEF Wait!Finish1, Wait!Thread1, Wait!TypeOK, WaitOrder
  <2>2. ASSUME WaitTimed PROVE WaitTimed'
    <3>1. pc1 = "sleep_1" /\ mainPc # "aborted"
      BY <1>9 DEF Wait!Finish1, Wait!Thread1, Wait!CanStep
    <3>2. mainPc # "create2" /\ pc2 # "assert_0"
      BY <2>2, <3>1 DEF WaitTimed
    <3> QED
      BY <1>9, <3>1, <3>2 DEF Wait!Finish1, Wait!Thread1, WaitTimed
  <2> QED
    BY <1>t, <2>1, <2>2 DEF WaitInv
<1>10. CASE Wait!Assert("assert_0", Wait!Assert0Holds, "wait")
  <2>1. Wait!TypeOK' /\ WaitOrder'
    BY <1>10, <1>t, <1>r DEF Wait!Assert, Wait!TypeOK, WaitOrder
  <2>2. ASSUME WaitTimed PROVE WaitTimed'
    <3>1. pc2 = "assert_0" /\ state = 0 /\ mainPc # "create2" /\ mainPc # "aborted"
      BY <1>10, <1>t, <2>2 DEF Wait!Assert, Wait!CanStep, WaitTimed, WaitOrder
    <3> QED
      BY <1>10, <3>1 DEF Wait!Assert, Wait!Assert0Holds, WaitTimed
  <2> QED
    BY <1>t, <2>1, <2>2 DEF WaitInv
<1>11. CASE Wait!CondWait
  <2>1. Wait!TypeOK' /\ WaitOrder'
    BY <1>11, <1>t, <1>r DEF Wait!CondWait, Wait!TypeOK, WaitOrder
  <2>2. ASSUME WaitTimed PROVE WaitTimed'
    BY <1>11, <1>r, <1>t, <2>2 DEF Wait!CondWait, Wait!CanStep, WaitTimed, WaitOrder
  <2> QED
    BY <1>t, <2>1, <2>2 DEF WaitInv
<1>12. CASE Wait!Assert("assert_1", Wait!Assert1Holds, "done")
  <2>1. Wait!TypeOK' /\ WaitOrder'
    BY <1>12, <1>t, <1>r DEF Wait!Assert, Wait!TypeOK, WaitOrder
  <2>2. ASSUME WaitTimed PROVE WaitTimed'
    <3>1. pc2 = "assert_1" /\ mainPc # "create2" /\ mainPc # "aborted"
      BY <1>12, <1>t DEF Wait!Assert, Wait!CanStep, WaitOrder
    <3> QED
      BY <1>12, <1>t, <3>1 DEF Wait!Assert, Wait!Assert1Holds, WaitTimed, Wait!TypeOK
  <2> QED
    BY <1>t, <2>1, <2>2 DEF WaitInv
<1>13. CASE Wait!SpuriousWakeup
  <2>1. Wait!TypeOK' /\ WaitOrder'
    BY <1>13, <1>t, <1>r DEF Wait!SpuriousWakeup, Wait!TypeOK, WaitOrder
  <2>2. ASSUME WaitTimed PROVE WaitTimed'
    BY <1>13, <1>r, <1>t, <2>2 DEF Wait!SpuriousWakeup, WaitTimed, WaitOrder
  <2> QED
    BY <1>t, <2>1, <2>2 DEF WaitInv
<1>14. CASE UNCHANGED Wait!vars
  BY <1>14, <1>t DEF Wait!vars, WaitInv, Wait!TypeOK, WaitOrder, WaitTimed
<1> QED
  BY <1>1, <1>2, <1>3, <1>4, <1>5, <1>6, <1>7, <1>8, <1>9, <1>10, <1>11, <1>12,
     <1>13, <1>14 DEF Wait!Next, Wait!MainStep, Wait!Step1, Wait!Step2
-----------------------------------------------------------------------------
(***************************************************************************)
(* pthread_canceled                                                        *)
(***************************************************************************)
\* Nobody who can run is kept waiting for more than latency seconds.
CancelPrompt ==
    /\ now <= ready["main"] + latency
    /\ joinPc \in {"start", "sleep", "print"} => now <= ready["join"] + latency
    /\ detachPc \in {"start", "sleep"} => now <= ready["detach"] + latency
    /\ detachPc = "join" /\ Canceled!JoinEnded => now <= ready["detach"] + latency

\* The threads that main has created, and what they wait for.
CancelOrder ==
    /\ mainPc = "create_join" => joinPc = "none"
    /\ mainPc \in {"create_join", "create_detach"} => detachPc = "none"
    /\ mainPc \in {"create_join", "create_detach", "cancel"} => ~canceled
    /\ detachPc = "done" => Canceled!JoinEnded
    /\ joinPc = "start" => ready["join"] <= now
    /\ detachPc = "join" => ready["detach"] <= now

\* Up to the cancellation: the join thread sleeps, or does not even do that yet.
BeforeCancel ==
    /\ mainPc = "create_detach" =>
          /\ joinPc \in {"start", "sleep"} /\ ready["main"] <= now
          /\ joinPc = "sleep" => ready["join"] >= ready["main"] + 10
    /\ mainPc = "cancel" =>
          /\ joinPc \in {"start", "sleep"} /\ ready["main"] <= now + 1
          /\ joinPc = "sleep" => ready["join"] + latency + 1 >= ready["main"] + 10
          /\ detachPc # "none"
          /\ detachPc = "start" => ready["detach"] + 1 <= ready["main"]
          /\ detachPc = "sleep" => ready["detach"] <= ready["main"] + latency + 4

\* Afterwards main sleeps for 15 seconds, in which everybody gets on.
AfterCancel ==
    /\ mainPc = "return" =>
          /\ canceled
          /\ joinPc \in {"start", "sleep", "canceled"}
          /\ joinPc \in {"start", "sleep"} => ready["join"] + 15 <= ready["main"]
          /\ detachPc # "none"
          /\ detachPc = "start" => ready["detach"] + 16 <= ready["main"]
          /\ detachPc = "sleep" => ready["detach"] + 11 <= ready["main"] + latency
          /\ detachPc = "join" => ready["detach"] + 11 <= ready["main"] + 2 * latency
    /\ mainPc = "returned" /\ latency <= 3 =>
           joinPc = "canceled" /\ detachPc = "done"

CancelInv ==
    /\ Canceled!TypeOK /\ CancelPrompt /\ CancelOrder
    /\ latency <= 4 => BeforeCancel /\ AfterCancel

LEMMA CancelRunnable ==
    /\ "main" \in Canceled!Runnable
    /\ "join" \in Canceled!Runnable <=> joinPc # "none" /\ ~Canceled!JoinEnded
    /\ "detach" \in Canceled!Runnable <=>
           \/ detachPc \in {"start", "sleep"}
           \/ detachPc = "join" /\ Canceled!JoinEnded
BY DEF Canceled!Runnable, Canceled!Actors

LEMMA CancelInvInit == Canceled!Init => CancelInv
<1> SUFFICES ASSUME Canceled!Init PROVE CancelInv
  OBVIOUS
<1>1. latency \in Nat
  BY CanceledAssumption DEF Canceled!Init
<1>2. Canceled!TypeOK
  <2>1. ready \in [Canceled!Actors -> 0..(now + 15)] /\ now \in Nat
    BY DEF Canceled!Init
  <2>2. canceled \in BOOLEAN /\ latency \in Latencies
    BY DEF Canceled!Init
  <2> QED
    BY <2>1, <2>2 DEF Canceled!Init, Canceled!TypeOK
<1>3. CancelPrompt /\ CancelOrder /\ BeforeCancel /\ AfterCancel
  BY <1>1 DEF Canceled!Init, Canceled!Actors, Canceled!JoinEnded, CancelPrompt,
              CancelOrder, BeforeCancel, AfterCancel
<1> QED
  BY <1>2, <1>3 DEF CancelInv

LEMMA CancelInvNext == CancelInv /\ [Canceled!Next]_(Canceled!vars) => CancelInv'
<1> SUFFICES ASSUME CancelInv, [Canceled!Next]_(Canceled!vars) PROVE CancelInv'
  OBVIOUS
<1> USE DEF Canceled!Actors, Canceled!JoinEnded
<1>t. /\ Canceled!TypeOK /\ CancelPrompt /\ CancelOrder
      /\ latency <= 4 => BeforeCancel /\ AfterCancel
  BY DEF CancelInv
<1>r. /\ now \in Nat /\ latency \in Nat /\ ready \in [Canceled!Actors -> Int]
      /\ ready["main"] \in Nat /\ ready["join"] \in Nat /\ ready["detach"] \in Nat
  BY <1>t, CanceledAssumption DEF Canceled!TypeOK
<1>1. CASE Canceled!Tick
  <2>1. /\ now' = now + 1 /\ now < ready["main"] + latency
        /\ joinPc \in {"start", "sleep", "print"} => now < ready["join"] + latency
        /\ detachPc \in {"start", "sleep"} => now < ready["detach"] + latency
        /\ detachPc = "join" /\ Canceled!JoinEnded => now < ready["detach"] + latency
    BY <1>1, CancelRunnable DEF Canceled!Tick
  <2>2. Canceled!TypeOK'
    BY <1>1, <1>t, <2>1 DEF Canceled!Tick, Canceled!TypeOK
  <2>3. CancelPrompt' /\ CancelOrder'
    BY <1>1, <1>r, <1>t, <2>1 DEF Canceled!Tick, CancelPrompt, CancelOrder
  <2>4. ASSUME latency <= 4 PROVE BeforeCancel' /\ AfterCancel'
    BY <1>1, <1>r, <1>t, <2>1, <2>4 DEF Canceled!Tick, BeforeCancel, AfterCancel
  <2> QED
    BY <1>1, <2>2, <2>3, <2>4 DEF CancelInv, Canceled!Tick
<1>2. CASE Canceled!RunJoinThread
  <2>2. Canceled!TypeOK'
    BY <1>2, <1>t, <1>r DEF Canceled!RunJoinThread, Canceled!TypeOK
  <2>3. CancelPrompt' /\ CancelOrder'
    BY <1>2, <1>r, <1>t DEF Canceled!RunJoinThread, CancelPrompt, CancelOrder
  <2>4. ASSUME latency <= 4 PROVE BeforeCancel' /\ AfterCancel'
    BY <1>2, <1>r, <1>t, <2>4 DEF Canceled!RunJoinThread, BeforeCancel, AfterCancel
  <2> QED
    BY <1>2, <2>2, <2>3, <2>4 DEF CancelInv, Canceled!RunJoinThread
<1>3. CASE Canceled!RunDetachThread
  <2>2. Canceled!TypeOK'
    BY <1>3, <1>t, <1>r DEF Canceled!RunDetachThread, Canceled!TypeOK
  <2>3. CancelPrompt' /\ CancelOrder'
    BY <1>3, <1>r, <1>t DEF Canceled!RunDetachThread, CancelPrompt, CancelOrder
  <2>4. ASSUME latency <= 4 PROVE BeforeCancel' /\ AfterCancel'
    BY <1>3, <1>r, <1>t, <2>4
       DEF Canceled!RunDetachThread, BeforeCancel, AfterCancel, CancelPrompt
  <2> QED
    BY <1>3, <2>2, <2>3, <2>4 DEF CancelInv, Canceled!RunDetachThread
<1>4. CASE Canceled!RunFails
  <2>2. Canceled!TypeOK'
    BY <1>4, <1>t, <1>r DEF Canceled!RunFails, Canceled!TypeOK
  <2>3. CancelPrompt' /\ CancelOrder'
    BY <1>4, <1>r, <1>t DEF Canceled!RunFails, CancelPrompt, CancelOrder
  <2>4. ASSUME latency <= 4 PROVE BeforeCancel' /\ AfterCancel'
    BY <1>4, <1>r, <1>t, <2>4 DEF Canceled!RunFails, BeforeCancel, AfterCancel
  <2> QED
    BY <1>4, <2>2, <2>3, <2>4 DEF CancelInv, Canceled!RunFails
<1>5. CASE Canceled!Cancel
  <2>1. /\ mainPc = "cancel" /\ mainPc' = "return" /\ canceled' = TRUE
        /\ ready["main"] <= now /\ ready'["main"] = now + 15
        /\ ready'["join"] = IF joinPc = "sleep" /\ ready["join"] > now THEN now
                            ELSE ready["join"]
        /\ ready'["detach"] = ready["detach"]
        /\ latency' = latency /\ now' = now /\ joinPc' = joinPc /\ detachPc' = detachPc
    BY <1>5, <1>r DEF Canceled!Cancel, Canceled!CanStep, Canceled!ExitSleep
  <2>2. Canceled!TypeOK'
    BY <1>5, <1>t, <1>r DEF Canceled!Cancel, Canceled!ExitSleep, Canceled!TypeOK
  <2>3. CancelPrompt' /\ CancelOrder'
    BY <1>r, <1>t, <2>1 DEF CancelPrompt, CancelOrder
  <2>4. ASSUME latency <= 4 PROVE BeforeCancel' /\ AfterCancel'
    BY <1>r, <1>t, <2>1, <2>4 DEF BeforeCancel, AfterCancel, CancelOrder
  <2> QED
    BY <2>1, <2>2, <2>3, <2>4 DEF CancelInv
<1>6. CASE Canceled!Return
  <2>1. ready["main"] <= now
    BY <1>6 DEF Canceled!Return, Canceled!CanStep
  <2>2. Canceled!TypeOK'
    BY <1>6, <1>t, <1>r DEF Canceled!Return, Canceled!TypeOK
  <2>3. CancelPrompt' /\ CancelOrder'
    BY <1>6, <1>r, <1>t DEF Canceled!Return, CancelPrompt, CancelOrder
  <2>4. ASSUME latency <= 4 PROVE BeforeCancel' /\ AfterCancel'
    <3>1. ASSUME latency <= 3 PROVE joinPc = "canceled" /\ detachPc = "done"
      <4>1. joinPc = "canceled"
        BY <1>6, <1>r, <1>t, <2>1, <2>4, <3>1
           DEF Canceled!Return, CancelPrompt, AfterCancel
      <4>2. detachPc \notin {"none", "start", "sleep", "join"}
        BY <1>6, <1>r, <1>t, <2>1, <2>4, <3>1, <4>1
           DEF Canceled!Return, CancelPrompt, AfterCancel
      <4> QED
        BY <1>t, <4>1, <4>2 DEF Canceled!TypeOK
    <3> QED
      BY <1>6, <3>1 DEF Canceled!Return, BeforeCancel, AfterCancel
  <2> QED
    BY <1>6, <2>2, <2>3, <2>4 DEF CancelInv, Canceled!Return
<1>j. ASSUME NEW from, NEW next, NEW delay \in {0, 10},
             Canceled!JoinThread(from, next, delay)
      PROVE  /\ joinPc = from /\ joinPc' = next
             /\ latency' = latency /\ now' = now /\ mainPc' = mainPc
             /\ detachPc' = detachPc /\ canceled' = canceled
             /\ ready["join"] <= now /\ mainPc \notin {"returned", "failed"}
             /\ ready' \in [Canceled!Actors -> 0..(now + 15)]
             /\ ready'["main"] = ready["main"] /\ ready'["join"] = now + delay
             /\ ready'["detach"] = IF detachPc = "join" THEN now ELSE ready["detach"]
  BY <1>j, <1>t, <1>r DEF Canceled!JoinThread, Canceled!CanStep, Canceled!Over,
                          Canceled!TypeOK
<1>7. CASE Canceled!Start
  <2>1. ~canceled /\ Canceled!JoinThread("start", "sleep", 10)
    BY <1>7 DEF Canceled!Start
  <2>2. Canceled!TypeOK'
    BY <1>t, <1>j, <2>1 DEF Canceled!TypeOK
  <2>3. CancelPrompt' /\ CancelOrder'
    BY <1>j, <1>r, <1>t, <2>1 DEF CancelPrompt, CancelOrder
  <2>4. ASSUME latency <= 4 PROVE BeforeCancel' /\ AfterCancel'
    BY <1>j, <1>r, <1>t, <2>1, <2>4 DEF BeforeCancel, AfterCancel
  <2> QED
    BY <1>j, <2>1, <2>2, <2>3, <2>4 DEF CancelInv
<1>8. CASE Canceled!Wake
  <2>1. ~canceled /\ Canceled!JoinThread("sleep", "print", 0)
    BY <1>8 DEF Canceled!Wake
  <2>2. Canceled!TypeOK'
    BY <1>t, <1>j, <2>1 DEF Canceled!TypeOK
  <2>3. CancelPrompt' /\ CancelOrder'
    BY <1>j, <1>r, <1>t, <2>1 DEF CancelPrompt, CancelOrder
  <2>4. ASSUME latency <= 4 PROVE BeforeCancel' /\ AfterCancel'
    BY <1>j, <1>r, <1>t, <2>1, <2>4 DEF BeforeCancel, AfterCancel, CancelPrompt
  <2> QED
    BY <1>j, <2>1, <2>2, <2>3, <2>4 DEF CancelInv
<1>9. CASE Canceled!ReturnTen
  <2>1. Canceled!JoinThread("print", "returned", 0)
    BY <1>9 DEF Canceled!ReturnTen
  <2>2. Canceled!TypeOK'
    BY <1>t, <1>j, <2>1 DEF Canceled!TypeOK
  <2>3. CancelPrompt' /\ CancelOrder'
    BY <1>j, <1>r, <1>t, <2>1 DEF CancelPrompt, CancelOrder
  <2>4. ASSUME latency <= 4 PROVE BeforeCancel' /\ AfterCancel'
    BY <1>j, <1>r, <1>t, <2>1, <2>4 DEF BeforeCancel, AfterCancel
  <2> QED
    BY <1>j, <2>1, <2>2, <2>3, <2>4 DEF CancelInv
<1>10. CASE Canceled!ActUponCancel
  <2>1. PICK from \in {"start", "sleep", "print"} :
            canceled /\ Canceled!JoinThread(from, "canceled", 0)
    BY <1>10 DEF Canceled!ActUponCancel
  <2>a. /\ joinPc = from /\ joinPc' = "canceled"
        /\ latency' = latency /\ now' = now /\ mainPc' = mainPc
        /\ detachPc' = detachPc /\ canceled' = canceled
        /\ ready'["main"] = ready["main"]
        /\ ready'["detach"] = IF detachPc = "join" THEN now ELSE ready["detach"]
    BY <1>j, <2>1
  <2>2. Canceled!TypeOK'
    BY <1>t, <1>j, <2>1 DEF Canceled!TypeOK
  <2>3. CancelPrompt' /\ CancelOrder'
    BY <1>r, <1>t, <2>a DEF CancelPrompt, CancelOrder
  <2>b. canceled /\ mainPc \notin {"create_join", "create_detach", "cancel"}
    BY <1>t, <2>1 DEF CancelOrder
  <2>4. ASSUME latency <= 4 PROVE BeforeCancel' /\ AfterCancel'
    <3>1. mainPc \notin {"returned", "failed"}
      BY <1>j, <2>1
    <3>2. joinPc # "print" /\ (mainPc = "return" => now + 15 <= ready["main"] + latency)
      BY <1>r, <1>t, <2>1, <2>a, <2>b, <2>4, <3>1
         DEF AfterCancel, CancelPrompt, Canceled!TypeOK
    <3> QED
      BY <1>r, <1>t, <2>a, <2>b, <2>4, <3>1, <3>2 DEF BeforeCancel, AfterCancel
  <2> QED
    BY <1>j, <2>1, <2>2, <2>3, <2>4 DEF CancelInv
<1>d. ASSUME NEW from, NEW next, NEW delay \in {0, 5},
             Canceled!DetachThread(from, next, delay)
      PROVE  /\ detachPc = from /\ detachPc' = next
             /\ latency' = latency /\ now' = now /\ mainPc' = mainPc
             /\ joinPc' = joinPc /\ canceled' = canceled
             /\ ready["detach"] <= now /\ mainPc \notin {"returned", "failed"}
             /\ from = "join" => Canceled!JoinEnded
             /\ ready' \in [Canceled!Actors -> 0..(now + 15)]
             /\ ready'["main"] = ready["main"] /\ ready'["join"] = ready["join"]
             /\ ready'["detach"] = now + delay
  BY <1>d, <1>t, <1>r, CancelRunnable
     DEF Canceled!DetachThread, Canceled!CanStep, Canceled!Over, Canceled!TypeOK
<1>11. CASE Canceled!SleepFive
  <2>1. Canceled!DetachThread("start", "sleep", 5)
    BY <1>11 DEF Canceled!SleepFive
  <2>2. Canceled!TypeOK'
    BY <1>t, <1>d, <2>1 DEF Canceled!TypeOK
  <2>3. CancelPrompt' /\ CancelOrder'
    BY <1>d, <1>r, <1>t, <2>1 DEF CancelPrompt, CancelOrder
  <2>4. ASSUME latency <= 4 PROVE BeforeCancel' /\ AfterCancel'
    BY <1>d, <1>r, <1>t, <2>1, <2>4 DEF BeforeCancel, AfterCancel, CancelPrompt
  <2> QED
    BY <1>d, <2>1, <2>2, <2>3, <2>4 DEF CancelInv
<1>12. CASE Canceled!CallJoin
  <2>1. Canceled!DetachThread("sleep", "join", 0)
    BY <1>12 DEF Canceled!CallJoin
  <2>2. Canceled!TypeOK'
    BY <1>t, <1>d, <2>1 DEF Canceled!TypeOK
  <2>3. CancelPrompt' /\ CancelOrder'
    BY <1>d, <1>r, <1>t, <2>1 DEF CancelPrompt, CancelOrder
  <2>4. ASSUME latency <= 4 PROVE BeforeCancel' /\ AfterCancel'
    BY <1>d, <1>r, <1>t, <2>1, <2>4 DEF BeforeCancel, AfterCancel, CancelPrompt
  <2> QED
    BY <1>d, <2>1, <2>2, <2>3, <2>4 DEF CancelInv
<1>13. CASE Canceled!JoinReturns
  <2>1. Canceled!DetachThread("join", "done", 0)
    BY <1>13 DEF Canceled!JoinReturns
  <2>2. Canceled!TypeOK'
    BY <1>t, <1>d, <2>1 DEF Canceled!TypeOK
  <2>3. CancelPrompt' /\ CancelOrder'
    BY <1>d, <1>r, <1>t, <2>1 DEF CancelPrompt, CancelOrder
  <2>4. ASSUME latency <= 4 PROVE BeforeCancel' /\ AfterCancel'
    BY <1>d, <1>r, <1>t, <2>1, <2>4 DEF BeforeCancel, AfterCancel
  <2> QED
    BY <1>d, <2>1, <2>2, <2>3, <2>4 DEF CancelInv
<1>14. CASE UNCHANGED Canceled!vars
  BY <1>14, <1>t DEF Canceled!vars, CancelInv, Canceled!TypeOK, CancelPrompt,
                     CancelOrder, BeforeCancel, AfterCancel
<1> QED
  BY <1>1, <1>2, <1>3, <1>4, <1>5, <1>6, <1>7, <1>8, <1>9, <1>10, <1>11, <1>12,
     <1>13, <1>14 DEF Canceled!Next
-----------------------------------------------------------------------------
(***************************************************************************)
(* The programs together                                                   *)
(***************************************************************************)
ThreadsInv ==
    /\ CounterInv
    /\ RwInv
    /\ program = "wait_pthread" => WaitInv
    /\ program = "pthread_canceled" => CancelInv

LEMMA ThreadsInvInit == ThreadsInit => ThreadsInv
BY CounterInvInit, RwInvInit, WaitInvInit, CancelInvInit
   DEF ThreadsInit, Init, ThreadsInv

\* A step of one program leaves the others alone.  In pthread_mutex a step of
\* one of the two parts leaves the other part alone, also when threads of the
\* first run on beside the second.
LEMMA ThreadsParts ==
    [ThreadsNext]_threadVars =>
        /\ program' = program
        /\ [MutexNext]_mutexVars /\ [RwNext]_rwVars
        /\ program = "wait_pthread" => [Wait!Next]_(Wait!vars)
        /\ program = "pthread_canceled" => [Canceled!Next]_(Canceled!vars)
<1> SUFFICES ASSUME [ThreadsNext]_threadVars
             PROVE  /\ program' = program
                    /\ [MutexNext]_mutexVars /\ [RwNext]_rwVars
                    /\ program = "wait_pthread" => [Wait!Next]_(Wait!vars)
                    /\ program = "pthread_canceled" =>
                           [Canceled!Next]_(Canceled!vars)
  OBVIOUS
<1>1. CASE MutexRuns(Next)
  BY <1>1 DEF MutexRuns, Next, MutexPart, RwPart
<1>2. CASE WaitRuns(Wait!Next)
  BY <1>2 DEF WaitRuns, allVars
<1>3. CASE CanceledRuns(Canceled!Next)
  BY <1>3 DEF CanceledRuns, allVars
<1>4. CASE UNCHANGED threadVars
  BY <1>4 DEF threadVars, allVars, sleepVars, waitVars, cancelVars, Wait!vars,
              Canceled!vars
<1> QED
  BY <1>1, <1>2, <1>3, <1>4 DEF ThreadsNext

LEMMA ThreadsInvNext == ThreadsInv /\ [ThreadsNext]_threadVars => ThreadsInv'
BY ThreadsParts, CounterInvNext, RwInvNext, WaitInvNext, CancelInvNext DEF ThreadsInv

LEMMA ThreadsInvariant == ThreadsSpec => []ThreadsInv
BY ThreadsInvInit, ThreadsInvNext, PTL DEF ThreadsSpec
-----------------------------------------------------------------------------
\* pthread_mutex: every variable keeps its type; a lock is held at most once more
\* often than an unlock has failed.
THEOREM ThreadsTypeCorrect == ThreadsSpec => []TypeOK
<1>1. ThreadsInv => TypeOK
  BY DEF ThreadsInv, CounterInv, RwInv, TypeOK
<1> QED
  BY <1>1, ThreadsInvariant, PTL

\* wait_pthread and pthread_canceled: every variable keeps its type, and nobody
\* sleeps for longer than the longest sleep.
THEOREM SleepTypeCorrect == ThreadsSpec => []SleepTypeOK
<1>1. ThreadsInv => SleepTypeOK
  BY DEF ThreadsInv, WaitInv, CancelInv, SleepTypeOK
<1> QED
  BY <1>1, ThreadsInvariant, PTL

\* The assertion at the end of RunMutexThreads() holds in every interleaving, for
\* every number of threads.
THEOREM MainCounterExact == ThreadsSpec => []CounterIsExact
<1>1. ThreadsInv => CounterIsExact
  BY CounterInvExact DEF ThreadsInv
<1> QED
  BY <1>1, ThreadsInvariant, PTL

\* counter++ is never executed by two threads at once while its mutex exists.
THEOREM MainMutualExclusion == ThreadsSpec => []MutualExclusion
<1>1. ThreadsInv => MutualExclusion
  BY CounterInvExclusion DEF ThreadsInv
<1> QED
  BY <1>1, ThreadsInvariant, PTL

\* The vector is never pushed to while the consumer looks at it or pops from it,
\* although the consumer has the read lock only, and however many calls fail.
THEOREM MainNoRace == ThreadsSpec => []NoRace
<1>1. ThreadsInv => NoRace
  BY LockInvNoRace DEF ThreadsInv, RwInv
<1> QED
  BY <1>1, ThreadsInvariant, PTL

\* Every element pushed is in exactly one place, once: the vector, the consumer's
\* hand, its output, or lost by a failed unlock.
THEOREM MainEachElementOnce == ThreadsSpec => []EachElementOnce
<1>1. ThreadsInv => EachElementOnce
  BY RwInvEach DEF ThreadsInv
<1> QED
  BY <1>1, ThreadsInvariant, PTL

\* When producer and consumer are joined every element was printed and the
\* vector is empty, for every number of elements.
THEOREM MainAllReadAtTheEnd == ThreadsSpec => []AllReadAtTheEnd
<1>1. ThreadsInv => AllReadAtTheEnd
  BY RwInvAllRead DEF ThreadsInv
<1> QED
  BY <1>1, ThreadsInvariant, PTL

\* assert(state == 0) of WaitThread2 holds if sleep(5) is longer than two times
\* the time a thread that can run may be kept waiting: once for main between the
\* two calls of pthread_create, once for thread 2 before its assertion.  Nothing
\* in the code but the sleep gives that.
THEOREM WaitFirstAssertion ==
    LongSleep > 2 * Latency => (ThreadsSpec => []FirstAssertionHolds)
<1> SUFFICES ASSUME LongSleep > 2 * Latency
             PROVE  ThreadsSpec => []FirstAssertionHolds
  OBVIOUS
<1>1. ThreadsInv => FirstAssertionHolds
  BY DEF ThreadsInv, WaitInv, WaitTimed, FirstAssertionHolds, Wait!FirstAssertionHolds
<1> QED
  BY <1>1, ThreadsInvariant, PTL

\* pthread_cancel gets the identifier of a thread that has not been joined, if
\* nobody is kept waiting for more than 4 seconds.
THEOREM CancelsExisting == ThreadsSpec => []CancelsAnExistingThread
<1>1. ThreadsInv => CancelsAnExistingThread
  BY DEF ThreadsInv, CancelInv, CancelOrder, BeforeCancel, CancelsAnExistingThread,
         Canceled!CancelsAnExistingThread, Canceled!JoinEnded
<1> QED
  BY <1>1, ThreadsInvariant, PTL

\* Before main returns the join thread has been cancelled and the detached one
\* has seen it, if nobody is kept waiting for more than 3 seconds.
THEOREM CancelIsSeen == ThreadsSpec => []CancellationIsSeen
<1>1. ThreadsInv => CancellationIsSeen
  <2>1. ASSUME CancelInv PROVE latency \in Nat
    BY <2>1, CanceledAssumption DEF CancelInv, Canceled!TypeOK
  <2> QED
    BY <2>1 DEF ThreadsInv, CancelInv, AfterCancel, CancellationIsSeen,
                Canceled!CancellationIsSeen
<1> QED
  BY <1>1, ThreadsInvariant, PTL
=============================================================================
