------------------------- MODULE UnixProgramsProofs -------------------------
(***************************************************************************)
(* Proofs about the programs that fork, for every number of runs, bytes,   *)
(* commands and clients and every size of a fifo and of a pipe.  Each      *)
(* program has an inductive invariant of its own; a step of the            *)
(* specification is a step of one program, and which one never changes.    *)
(***************************************************************************)
EXTENDS UnixPrograms, FiniteSetTheorems, SequenceTheorems, TLAPS

\* The values that waitpid can report.
Statuses == {-1, 0, 2, 9, 15, 256}

LEMMA StatusesAre ==
    {Running, SIGINT, SIGKILL, SIGTERM} \union {256 * c : c \in 0..1} = Statuses
<1>1. 0..1 = {0, 1}
  OBVIOUS
<1>2. {256 * c : c \in 0..1} = {0, 256}
  BY <1>1
<1> QED
  BY <1>2 DEF Running, SIGINT, SIGKILL, SIGTERM, Statuses

LEMMA ProcTypeIs ==
    ProcTypeOK <=> /\ status \in Statuses
                   /\ (child = "ended") <=> (status # Running)
                   /\ objects \subseteq {"queue", "in.fifo", "out.fifo"}
                   /\ sent \in BOOLEAN
                   /\ run \in 1..MaxRuns
BY StatusesAre DEF ProcTypeOK

LEMMA ProcTypeNow ==
    ProcTypeOK => /\ status \in Statuses
                  /\ (child = "ended") <=> (status # -1)
                  /\ objects \subseteq {"queue", "in.fifo", "out.fifo"}
                  /\ sent \in BOOLEAN
                  /\ run \in 1..MaxRuns
BY ProcTypeIs DEF Running

LEMMA ProcTypeNext ==
    ASSUME status' \in Statuses, (child' = "ended") <=> (status' # -1),
           objects' \subseteq {"queue", "in.fifo", "out.fifo"},
           sent' \in BOOLEAN, run' \in 1..MaxRuns
    PROVE  ProcTypeOK'
<1>1. ProcTypeOK' <=> /\ status' \in Statuses
                      /\ (child' = "ended") <=> (status' # Running)
                      /\ objects' \subseteq {"queue", "in.fifo", "out.fifo"}
                      /\ sent' \in BOOLEAN
                      /\ run' \in 1..MaxRuns
  BY StatusesAre DEF ProcTypeOK
<1> QED
  BY <1>1 DEF Running

\* Nobody ends.
LEMMA ProcTypeKept ==
    ASSUME ProcTypeOK, status' = status, run' = run, sent' = sent \/ sent' = TRUE,
           objects' \subseteq {"queue", "in.fifo", "out.fifo"},
           (child' = "ended") <=> (child = "ended")
    PROVE  ProcTypeOK'
BY DEF ProcTypeOK

\* The child ends.
LEMMA ProcTypeEnds ==
    ASSUME ProcTypeOK, status' \in Statuses \ {-1}, run' = run, sent' = sent,
           objects' \subseteq {"queue", "in.fifo", "out.fifo"}, child' = "ended"
    PROVE  ProcTypeOK'
BY ProcTypeNow, ProcTypeNext

\* The program is started again.
LEMMA ProcTypeRestart ==
    ASSUME ProcTypeOK, run < MaxRuns, run' = run + 1, child' = "none",
           status' = -1, sent' = FALSE, objects' = objects
    PROVE  ProcTypeOK'
<1>1. run' \in 1..MaxRuns /\ -1 \in Statuses
  BY ProcTypeNow, ProgramsAssumption DEF Statuses
<1> QED
  BY <1>1, ProcTypeNow, ProcTypeNext

LEMMA ProcTypeInit == ProcInit => ProcTypeOK
<1> SUFFICES ASSUME ProcInit PROVE ProcTypeOK
  OBVIOUS
<1>1. 1 \in 1..MaxRuns /\ -1 \in Statuses
  BY ProgramsAssumption DEF Statuses
<1>2. status = Running /\ status = -1 /\ child # "ended" /\ objects = {}
      /\ sent \in BOOLEAN /\ run = 1
  BY DEF ProcInit, Running
<1> QED
  BY <1>1, <1>2, ProcTypeIs
-----------------------------------------------------------------------------
(***************************************************************************)
(* socketpair                                                              *)
(***************************************************************************)
\* Who has forked, who holds which end, and where the one message is.
PairInv ==
    /\ ProcTypeOK /\ Pair!PairTypeOK
    /\ stream = <<>> \/ stream = <<1>>
    /\ run = 1
    /\ parent \in {"start", "fork", "failed", "fork_failed"} <=> child = "none"
    /\ child \in {"none", "close_1", "send"} => ~sent /\ stream = <<>>
    /\ child \in {"close_1", "send", "close_0"} => "child" \in held[0]
    /\ parent \in {"start", "fork", "close_0", "recv"} => got = <<>>
    /\ sent /\ parent \in {"close_0", "recv"} => stream # <<>>
    /\ got = <<0>> => ~sent /\ child = "ended"

LEMMA PairInvInit ==
    ProcInit /\ Pair!PairInit => PairInv
<1> SUFFICES ASSUME ProcInit, Pair!PairInit PROVE PairInv
  OBVIOUS
<1>1. Pair!PairTypeOK
  BY DEF ProcInit, Pair!PairInit, Pair!PairTypeOK
<1>2. <<>> # <<0>>
  OBVIOUS
<1> QED
  BY <1>1, <1>2, ProcTypeInit DEF ProcInit, Pair!PairInit, PairInv

LEMMA PairInvNext ==
    PairInv /\ [Pair!PairNext]_(Pair!pairVars) => PairInv'
<1> SUFFICES ASSUME PairInv, [Pair!PairNext]_(Pair!pairVars) PROVE PairInv'
  OBVIOUS
<1>t. ProcTypeOK /\ objects \subseteq {"queue", "in.fifo", "out.fifo"}
  BY ProcTypeNow DEF PairInv
<1>p. Pair!PairTypeOK
  BY DEF PairInv
<1>e. <<>> # <<0>> /\ <<1>> # <<0>> /\ <<-1>> # <<0>> /\ <<1>> # <<>>
      /\ Append(<<>>, 1) = <<1>>
  OBVIOUS
<1>1. CASE Pair!socketpair
  <2>1. ProcTypeOK'
    BY <1>1, <1>t, ProcTypeKept DEF Pair!socketpair
  <2>2. Pair!PairTypeOK'
    BY <1>1, <1>p DEF Pair!socketpair, Pair!PairTypeOK
  <2> QED
    BY <1>1, <2>1, <2>2 DEF PairInv, Pair!socketpair
<1>2. CASE Pair!fork
  <2>0. parent = "fork" /\ child = "none"
    BY <1>2 DEF Pair!fork, Pair!Fork, Pair!ForkFails, PairInv
  <2>1. ProcTypeOK'
    BY <1>2, <1>t, <2>0, ProcTypeKept DEF Pair!fork, Pair!Fork, Pair!ForkFails
  <2>2. Pair!PairTypeOK'
    BY <1>2, <1>p DEF Pair!fork, Pair!Fork, Pair!ForkFails, Pair!PairTypeOK
  <2> QED
    BY <1>2, <2>0, <2>1, <2>2 DEF PairInv, Pair!fork, Pair!Fork, Pair!ForkFails
<1>3. CASE Pair!ChildCloses
  <2>1. ProcTypeOK'
    BY <1>3, <1>t, ProcTypeKept DEF Pair!ChildCloses
  <2>2. Pair!PairTypeOK' /\ held'[0] = held[0]
    BY <1>3, <1>p DEF Pair!ChildCloses, Pair!Closed, Pair!PairTypeOK
  <2> QED
    BY <1>3, <2>1, <2>2 DEF PairInv, Pair!ChildCloses
<1>4. CASE Pair!Send
  <2>1. ProcTypeOK'
    BY <1>4, <1>t, ProcTypeKept DEF Pair!Send
  <2>2. Pair!PairTypeOK'
    BY <1>4, <1>p DEF Pair!Send, Pair!PairTypeOK
  <2>3. \/ stream' = <<1>> /\ sent'
        \/ stream' = stream /\ sent' = sent
    BY <1>4, <1>e DEF Pair!Send, PairInv
  <2> QED
    BY <1>4, <1>e, <2>1, <2>2, <2>3 DEF PairInv, Pair!Send
<1>5. CASE Pair!ChildReturns
  <2>1. ProcTypeOK'
    BY <1>5, <1>t, ProcTypeEnds
       DEF Pair!ChildReturns, Pair!ChildEnds, Pair!ExitStatus, Statuses
  <2>2. Pair!PairTypeOK'
    BY <1>5, <1>p DEF Pair!ChildReturns, Pair!ChildEnds, Pair!Closed, Pair!PairTypeOK
  <2> QED
    BY <1>5, <2>1, <2>2 DEF PairInv, Pair!ChildReturns, Pair!ChildEnds
<1>6. CASE Pair!ChildDies
  <2>1. ProcTypeOK'
    BY <1>6, <1>t, ProcTypeEnds
       DEF Pair!ChildDies, Pair!ChildKilled, Pair!ChildEnds, Pair!SIGKILL, Statuses
  <2>2. Pair!PairTypeOK'
    BY <1>6, <1>p DEF Pair!ChildDies, Pair!ChildKilled, Pair!ChildEnds, Pair!PairTypeOK
  <2> QED
    BY <1>6, <2>1, <2>2 DEF PairInv, Pair!ChildDies, Pair!ChildKilled, Pair!ChildEnds, Pair!ChildLives
<1>7. CASE Pair!ParentCloses
  <2>1. ProcTypeOK'
    BY <1>7, <1>t, ProcTypeKept DEF Pair!ParentCloses
  <2>2. Pair!PairTypeOK' /\ held'[0] = held[0] \ {"parent"}
    BY <1>7, <1>p DEF Pair!ParentCloses, Pair!ParentClosed, Pair!Closed, Pair!PairTypeOK
  <2> QED
    BY <1>7, <2>1, <2>2 DEF PairInv, Pair!ParentCloses
<1>8. CASE Pair!Recv
  <2>1. ProcTypeOK'
    BY <1>8, <1>t, ProcTypeKept DEF Pair!Recv
  <2>2. Pair!PairTypeOK'
    BY <1>8, <1>p DEF Pair!Recv, Pair!PairTypeOK
  <2>3. CASE stream # <<>>
    BY <1>8, <1>e, <2>1, <2>2, <2>3 DEF PairInv, Pair!Recv
  <2>4. CASE stream = <<>>
    <3>1. child = "ended" /\ ~sent
      BY <1>8, <1>p, <2>4 DEF PairInv, Pair!Recv, Pair!PairTypeOK
    <3> QED
      BY <1>8, <1>e, <2>1, <2>2, <2>4, <3>1 DEF PairInv, Pair!Recv
  <2> QED
    BY <2>3, <2>4
<1>9. CASE Pair!RecvFails
  <2>1. ProcTypeOK'
    BY <1>9, <1>t, ProcTypeKept DEF Pair!RecvFails
  <2>2. Pair!PairTypeOK'
    BY <1>9, <1>p DEF Pair!RecvFails, Pair!PairTypeOK
  <2> QED
    BY <1>9, <1>e, <2>1, <2>2 DEF PairInv, Pair!RecvFails, Pair!Error
<1>10. CASE Pair!ParentReturns
  <2>1. ProcTypeOK'
    BY <1>10, <1>t, ProcTypeKept DEF Pair!ParentReturns
  <2>2. Pair!PairTypeOK' /\ held'[0] = held[0]
    BY <1>10, <1>p DEF Pair!ParentReturns, Pair!Closed, Pair!PairTypeOK
  <2> QED
    BY <1>10, <2>1, <2>2 DEF PairInv, Pair!ParentReturns
<1>11. CASE UNCHANGED Pair!pairVars
  BY <1>11 DEF Pair!pairVars, Pair!procVars, PairInv, ProcTypeOK, Pair!PairTypeOK
<1> QED
  BY <1>1, <1>2, <1>3, <1>4, <1>5, <1>6, <1>7, <1>8, <1>9, <1>10, <1>11
     DEF Pair!PairNext, Pair!ParentStep, Pair!ChildStep

LEMMA PairInvArrives == PairInv => Pair!PairMessageArrives
BY DEF PairInv, Pair!PairMessageArrives, Pair!EndOfStream
-----------------------------------------------------------------------------
(***************************************************************************)
(* sysv_msg_queue                                                          *)
(***************************************************************************)
SysvInv ==
    /\ ProcTypeOK /\ Sysv!SysvTypeOK
    /\ objects \subseteq {"queue"}
    /\ sigterm = "default" => child # "rmid"
    /\ parent \in {"start", "fork", "fork_failed"} => child = "none"
    /\ parent \in {"rmid", "returned"} => child = "ended"
    /\ child \in {"none", "msgsnd"} => ~sent
    /\ Len(stream) <= run /\ (~sent => Len(stream) < run)
    /\ parent \in {"fork", "msgrcv", "waitpid", "rmid"} => msg_id \/ objects = {}
    /\ sigterm = "default" /\ sent /\ parent = "msgrcv" => Sysv!Usable
    /\ parent \in {"returned", "failed"} => objects = {}
    /\ sigterm = "default" /\ parent = "failed" => ~sent

LEMMA SysvInvInit ==
    ProcInit /\ Sysv!SysvInit => SysvInv
<1> SUFFICES ASSUME ProcInit, Sysv!SysvInit PROVE SysvInv
  OBVIOUS
<1>1. Len(<<>>) = 0 /\ <<>> \in Seq(1..MaxRuns) /\ 0 <= MaxRuns
  BY ProgramsAssumption
<1>2. Sysv!SysvTypeOK
  BY <1>1 DEF ProcInit, Sysv!SysvInit, Sysv!SysvTypeOK
<1> QED
  BY <1>1, <1>2, ProcTypeInit DEF ProcInit, SysvInv

LEMMA SysvInvNext ==
    SysvInv /\ [Sysv!SysvNext]_(Sysv!sysvVars) => SysvInv'
<1> SUFFICES ASSUME SysvInv, [Sysv!SysvNext]_(Sysv!sysvVars) PROVE SysvInv'
  OBVIOUS
<1>t. ProcTypeOK /\ objects \subseteq {"queue", "in.fifo", "out.fifo"}
      /\ run \in 1..MaxRuns /\ run \in Nat /\ MaxRuns \in Nat
  BY ProcTypeNow, ProgramsAssumption DEF SysvInv
<1>f. found' \in Seq(1..MaxRuns)
  <2>1. found' = found \/ found' = stream
    BY DEF Sysv!SysvNext, Sysv!sysvVars
  <2> QED
    BY <2>1 DEF SysvInv, Sysv!SysvTypeOK
<1>s. /\ Sysv!SysvTypeOK /\ stream \in Seq(1..MaxRuns) /\ Len(stream) \in Nat
      /\ found' \in Seq(1..MaxRuns)
  BY <1>f DEF SysvInv, Sysv!SysvTypeOK
<1>e. <<>> \in Seq(1..MaxRuns) /\ Len(<<>>) = 0
  BY EmptySeq
<1>1. CASE Sysv!msgget /\ UNCHANGED sigterm
  <2>1. ProcTypeOK'
    BY <1>1, <1>t, ProcTypeKept DEF Sysv!msgget
  <2>2. Sysv!SysvTypeOK'
    BY <1>1, <1>s DEF Sysv!msgget, Sysv!SysvTypeOK
  <2> QED
    BY <1>1, <2>1, <2>2 DEF SysvInv, Sysv!msgget
<1>2. CASE Sysv!fork /\ UNCHANGED sigterm
  <2>0. parent = "fork" /\ child = "none"
    BY <1>2 DEF Sysv!fork, Sysv!Fork, Sysv!ForkFails, SysvInv
  <2>1. ProcTypeOK'
    BY <1>2, <1>t, <2>0, ProcTypeKept DEF Sysv!fork, Sysv!Fork, Sysv!ForkFails
  <2>2. Sysv!SysvTypeOK'
    BY <1>2, <1>s DEF Sysv!fork, Sysv!Fork, Sysv!ForkFails, Sysv!SysvTypeOK
  <2>3. /\ parent' \in {"msgrcv", "fork_failed"}
        /\ parent' = "fork_failed" => child' = "none"
        /\ child' \in {"none", "msgsnd"} /\ ~sent'
        /\ objects' = objects /\ stream' = stream /\ run' = run
        /\ msg_id' = msg_id /\ sent' = sent
    BY <1>2, <2>0 DEF SysvInv, Sysv!fork, Sysv!Fork, Sysv!ForkFails
  <2>4. (msg_id \/ objects = {}) /\ ~sent
    BY <2>0 DEF SysvInv
  <2> QED
    BY <2>1, <2>2, <2>3, <2>4 DEF SysvInv
<1>3. CASE Sysv!msgsnd /\ UNCHANGED sigterm
  <2>1. ProcTypeOK'
    BY <1>3, <1>t, ProcTypeKept DEF Sysv!msgsnd
  <2>2. ~sent /\ Len(stream) < run /\ stream' = Append(stream, run)
    BY <1>3 DEF Sysv!msgsnd, SysvInv
  <2>3. stream' \in Seq(1..MaxRuns) /\ Len(stream') = Len(stream) + 1
    BY <1>s, <1>t, <2>2
  <2>4. Sysv!SysvTypeOK'
    BY <1>3, <1>s, <1>t, <2>2, <2>3 DEF Sysv!msgsnd, Sysv!SysvTypeOK
  <2>5. Len(stream') <= run'
    BY <1>3, <1>s, <1>t, <2>2, <2>3 DEF Sysv!msgsnd
  <2> QED
    BY <1>3, <2>1, <2>4, <2>5 DEF SysvInv, Sysv!msgsnd, Sysv!Usable
<1>4. CASE Sysv!msgsndFails /\ UNCHANGED sigterm
  <2>0. stream' = stream \/ stream' = <<>>
    BY <1>4 DEF Sysv!msgsndFails, Sysv!Removed
  <2>a. objects' \subseteq objects
    BY <1>4 DEF Sysv!msgsndFails, Sysv!Removed
  <2>1. ProcTypeOK'
    BY <1>4, <1>t, <2>a, ProcTypeEnds
       DEF Sysv!msgsndFails, Sysv!ChildEnds, Sysv!ExitStatus, Statuses
  <2>2. stream' \in Seq(1..MaxRuns) /\ Len(stream') <= Len(stream) /\ Len(stream') \in Nat
    <3>1. CASE stream' = stream
      BY <1>s, <3>1
    <3>2. CASE stream' = <<>>
      BY <1>s, <1>e, <3>2
    <3> QED
      BY <2>0, <3>1, <3>2
  <2>3. Sysv!SysvTypeOK'
    BY <1>4, <1>s, <1>t, <2>2 DEF Sysv!msgsndFails, Sysv!ChildEnds, Sysv!SysvTypeOK
  <2>4. Len(stream') < run' /\ ~sent' /\ objects' \subseteq objects
    BY <1>4, <1>s, <1>t, <2>2 DEF Sysv!msgsndFails, Sysv!Removed, SysvInv
  <2> QED
    BY <1>4, <1>t, <2>1, <2>2, <2>3, <2>4
       DEF SysvInv, Sysv!msgsndFails, Sysv!ChildEnds
<1>5. CASE Sysv!raise /\ UNCHANGED sigterm
  <2>1. ProcTypeOK'
    <3>1. CASE sigterm = "default" /\ Sysv!ChildEnds(Sysv!SIGTERM)
      BY <1>5, <1>t, <3>1, ProcTypeEnds
         DEF Sysv!raise, Sysv!ChildEnds, Sysv!SIGTERM, Statuses
    <3>2. CASE child' = "rmid" /\ UNCHANGED status
      BY <1>5, <1>t, <3>2, ProcTypeKept DEF Sysv!raise
    <3> QED
      BY <1>5, <3>1, <3>2 DEF Sysv!raise, Sysv!Raise
  <2>2. Sysv!SysvTypeOK'
    BY <1>5, <1>s DEF Sysv!raise, Sysv!Raise, Sysv!ChildEnds, Sysv!SysvTypeOK
  <2>3. parent \notin {"rmid", "returned"}
    BY <1>5 DEF SysvInv, Sysv!raise
  <2> QED
    BY <1>5, <2>1, <2>2, <2>3
       DEF SysvInv, Sysv!raise, Sysv!Raise, Sysv!ChildEnds, Sysv!Usable
<1>6. CASE Sysv!ChildReturns /\ UNCHANGED sigterm
  <2>0. stream' = stream \/ stream' = <<>>
    BY <1>6 DEF Sysv!ChildReturns, Sysv!Removed
  <2>a. objects' \subseteq objects
    BY <1>6 DEF Sysv!ChildReturns, Sysv!Removed
  <2>1. ProcTypeOK'
    BY <1>6, <1>t, <2>a, ProcTypeEnds
       DEF Sysv!ChildReturns, Sysv!ChildEnds, Sysv!ExitStatus, Statuses
  <2>2. stream' \in Seq(1..MaxRuns) /\ Len(stream') <= Len(stream) /\ Len(stream') \in Nat
    <3>1. CASE stream' = stream
      BY <1>s, <3>1
    <3>2. CASE stream' = <<>>
      BY <1>s, <1>e, <3>2
    <3> QED
      BY <2>0, <3>1, <3>2
  <2>3. Sysv!SysvTypeOK'
    BY <1>6, <1>s, <1>t, <2>2 DEF Sysv!ChildReturns, Sysv!ChildEnds, Sysv!SysvTypeOK
  <2>4. /\ Len(stream') <= run' /\ (~sent' => Len(stream') < run')
        /\ objects' \subseteq objects /\ sigterm # "default"
    BY <1>6, <1>s, <1>t, <2>2 DEF Sysv!ChildReturns, Sysv!Removed, SysvInv
  <2> QED
    BY <1>6, <1>t, <2>1, <2>2, <2>3, <2>4
       DEF SysvInv, Sysv!ChildReturns, Sysv!ChildEnds
<1>7. CASE Sysv!msgrcv /\ UNCHANGED sigterm
  <2>1. ProcTypeOK'
    BY <1>7, <1>t, ProcTypeKept DEF Sysv!msgrcv
  <2>2. Head(stream) \in 1..MaxRuns /\ Tail(stream) \in Seq(1..MaxRuns)
        /\ Len(Tail(stream)) = Len(stream) - 1 /\ Len(stream) > 0
    <3>1. stream # <<>>
      BY <1>7 DEF Sysv!msgrcv
    <3>2. Len(stream) # 0
      BY <1>s, <3>1, EmptySeq
    <3>3. /\ Head(stream) \in 1..MaxRuns /\ Tail(stream) \in Seq(1..MaxRuns)
          /\ Len(Tail(stream)) = Len(stream) - 1
      BY <1>s, <3>1, HeadTailProperties
    <3> QED
      BY <1>s, <3>2, <3>3
  <2>3. <<Head(stream)>> \in [{1} -> 1..MaxRuns]
    BY <2>2
  <2>4. Sysv!SysvTypeOK'
    BY <1>7, <1>s, <1>t, <2>2, <2>3 DEF Sysv!msgrcv, Sysv!SysvTypeOK
  <2>5. Len(stream') <= run' /\ (~sent' => Len(stream') < run')
    BY <1>7, <1>s, <1>t, <2>2 DEF Sysv!msgrcv, SysvInv
  <2> QED
    BY <1>7, <2>1, <2>4, <2>5 DEF SysvInv, Sysv!msgrcv, Sysv!Usable
<1>8. CASE Sysv!msgrcvFails /\ UNCHANGED sigterm
  <2>1. ProcTypeOK'
    BY <1>8, <1>t, ProcTypeKept DEF Sysv!msgrcvFails
  <2>2. Sysv!SysvTypeOK'
    BY <1>8, <1>s DEF Sysv!msgrcvFails, Sysv!SysvTypeOK
  <2>3. objects = {}
    BY <1>8 DEF Sysv!msgrcvFails, Sysv!Usable, SysvInv
  <2> QED
    BY <1>8, <2>1, <2>2, <2>3 DEF SysvInv, Sysv!msgrcvFails, Sysv!Usable
<1>9. CASE Sysv!waitpid /\ UNCHANGED sigterm
  <2>1. ProcTypeOK'
    BY <1>9, <1>t, ProcTypeKept DEF Sysv!waitpid, Sysv!WaitPid
  <2>2. Sysv!SysvTypeOK'
    BY <1>9, <1>s DEF Sysv!waitpid, Sysv!WaitPid, Sysv!SysvTypeOK
  <2> QED
    BY <1>9, <2>1, <2>2 DEF SysvInv, Sysv!waitpid, Sysv!WaitPid, Sysv!Usable
<1>10. CASE Sysv!ParentReturns /\ UNCHANGED sigterm
  <2>0. (stream' = stream \/ stream' = <<>>) /\ objects' = {}
    BY <1>10 DEF Sysv!ParentReturns, Sysv!ParentRemoves, Sysv!Removed, Sysv!Usable, SysvInv
  <2>1. ProcTypeOK'
    BY <1>10, <1>t, <2>0, ProcTypeKept DEF Sysv!ParentReturns
  <2>2. stream' \in Seq(1..MaxRuns) /\ Len(stream') <= Len(stream) /\ Len(stream') \in Nat
    <3>1. CASE stream' = stream
      BY <1>s, <3>1
    <3>2. CASE stream' = <<>>
      BY <1>s, <1>e, <3>2
    <3> QED
      BY <2>0, <3>1, <3>2
  <2>3. Sysv!SysvTypeOK'
    BY <1>10, <1>s, <1>t, <2>2 DEF Sysv!ParentReturns, Sysv!SysvTypeOK
  <2>4. Len(stream') <= run' /\ (~sent' => Len(stream') < run')
    BY <1>10, <1>s, <1>t, <2>2 DEF Sysv!ParentReturns, SysvInv
  <2> QED
    BY <1>10, <2>0, <2>1, <2>3, <2>4 DEF SysvInv, Sysv!ParentReturns
<1>11. CASE Sysv!ChildKilled /\ UNCHANGED <<msg_id, sigterm>>
  <2>1. ProcTypeOK'
    BY <1>11, <1>t, ProcTypeEnds
       DEF Sysv!ChildKilled, Sysv!ChildEnds, Sysv!SIGKILL, Statuses
  <2>2. Sysv!SysvTypeOK'
    BY <1>11, <1>s DEF Sysv!ChildKilled, Sysv!ChildEnds, Sysv!SysvTypeOK
  <2> QED
    BY <1>11, <2>1, <2>2
       DEF SysvInv, Sysv!ChildKilled, Sysv!ChildEnds, Sysv!ChildLives, Sysv!Usable
<1>12. CASE Sysv!Interrupt /\ UNCHANGED <<msg_id, sigterm>>
  <2>1. ProcTypeOK'
    <3>1. CASE Sysv!ChildLives
      BY <1>12, <1>t, <3>1, ProcTypeEnds
         DEF Sysv!Interrupt, Sysv!ChildEnds, Sysv!SIGINT, Statuses
    <3>2. CASE ~Sysv!ChildLives
      BY <1>12, <1>t, <3>2, ProcTypeKept DEF Sysv!Interrupt
    <3> QED
      BY <3>1, <3>2
  <2>2. Sysv!SysvTypeOK'
    BY <1>12, <1>s DEF Sysv!Interrupt, Sysv!ChildEnds, Sysv!SysvTypeOK
  <2> QED
    BY <1>12, <2>1, <2>2
       DEF SysvInv, Sysv!Interrupt, Sysv!ChildEnds, Sysv!ChildLives, Sysv!Usable
<1>13. CASE Sysv!Restart(stream) /\ msg_id' = FALSE /\ UNCHANGED sigterm
  <2>1. ProcTypeOK'
    BY <1>13, <1>t, ProcTypeRestart DEF Sysv!Restart, Sysv!Running
  <2>2. Sysv!SysvTypeOK'
    BY <1>13, <1>s DEF Sysv!Restart, Sysv!SysvTypeOK
  <2>3. Len(stream') < run'
    BY <1>13, <1>s, <1>t DEF Sysv!Restart, SysvInv
  <2>4. Len(stream') <= run'
    BY <1>13, <1>s, <1>t DEF Sysv!Restart, SysvInv
  <2> QED
    BY <1>13, <2>1, <2>2, <2>3, <2>4 DEF SysvInv, Sysv!Restart
<1>14. CASE UNCHANGED Sysv!sysvVars
  BY <1>14 DEF Sysv!sysvVars, Sysv!procVars, SysvInv, ProcTypeOK, Sysv!SysvTypeOK,
               Sysv!Usable
<1> QED
  BY <1>1, <1>2, <1>3, <1>4, <1>5, <1>6, <1>7, <1>8, <1>9, <1>10, <1>11, <1>12,
     <1>13, <1>14 DEF Sysv!SysvNext, Sysv!ParentStep, Sysv!ChildStep

\* The queue in order: what main has taken and what is left in it are the messages
\* that the run has found there, and behind them the child's own once it is sent.
SysvMessages ==
    /\ parent \in {"start", "fork", "msgrcv"} => got = <<>>
    /\ parent \in {"waitpid", "rmid"} => Len(got) = 1
    /\ ~ParentEnded /\ child \in {"none", "msgsnd"} => got \o stream = found
    /\ ~ParentEnded /\ sent /\ sigterm = "default" =>
           got \o stream = Append(found, run)
    /\ parent = "returned" /\ sent /\ sigterm = "default" =>
           got = <<Head(Append(found, run))>>

LEMMA SysvMessagesInit == ProcInit /\ Sysv!SysvInit => SysvMessages
<1>1. <<>> \o <<>> = <<>>
  OBVIOUS
<1> QED
  BY <1>1 DEF ProcInit, Sysv!SysvInit, SysvMessages

\* Facts about sequences: a message is added at the end, one is taken from the
\* front, and the one taken first is the head of them all.
LEMMA SentBehind ==
    ASSUME NEW S, NEW g \in Seq(S), NEW s \in Seq(S), NEW m \in S
    PROVE  g \o Append(s, m) = Append(g \o s, m)
<1>1. <<m>> \in Seq(S) /\ g \o s \in Seq(S)
  BY ConcatProperties
<1>2. Append(s, m) = s \o <<m>> /\ Append(g \o s, m) = (g \o s) \o <<m>>
  BY <1>1, AppendIsConcat
<1> QED
  BY <1>1, <1>2, ConcatAssociative

LEMMA TakenFirst ==
    ASSUME NEW S, NEW s \in Seq(S), s # <<>>
    PROVE  <<Head(s)>> \o Tail(s) = s
<1>1. /\ Head(s) \in S /\ Tail(s) \in Seq(S) /\ Len(Tail(s)) = Len(s) - 1
      /\ \A k \in 1..Len(Tail(s)) : Tail(s)[k] = s[k + 1]
      /\ Len(s) \in Nat /\ Len(s) # 0 /\ Head(s) = s[1]
  BY HeadTailProperties, EmptySeq
<1>2. <<Head(s)>> \in Seq(S) /\ Len(<<Head(s)>>) = 1 /\ <<Head(s)>>[1] = Head(s)
  BY <1>1
<1> DEFINE w == <<Head(s)>> \o Tail(s)
<1>3. /\ w \in Seq(S) /\ Len(w) = 1 + Len(Tail(s))
      /\ \A k \in 1..Len(w) :
            w[k] = IF k <= 1 THEN <<Head(s)>>[k] ELSE Tail(s)[k - 1]
  BY <1>1, <1>2, ConcatProperties
<1> HIDE DEF w
<1>4. Len(w) = Len(s)
  BY <1>1, <1>3
<1>5. \A k \in 1..Len(w) : w[k] = s[k]
  <2>1. TAKE k \in 1..Len(w)
  <2>2. CASE k = 1
    BY <1>1, <1>2, <1>3, <2>2
  <2>3. CASE k # 1
    <3>1. k - 1 \in 1..Len(Tail(s)) /\ ~(k <= 1) /\ (k - 1) + 1 = k
      BY <1>1, <1>4, <2>3
    <3> QED
      BY <1>1, <1>3, <3>1
  <2> QED
    BY <2>2, <2>3
<1>6. w = s
  BY <1>3, <1>4, <1>5, SeqEqual
<1> QED
  BY <1>6 DEF w

LEMMA HeadOfAll ==
    ASSUME NEW S, NEW g \in Seq(S), NEW s \in Seq(S), Len(g) = 1
    PROVE  g = <<Head(g \o s)>>
<1> DEFINE w == g \o s
<1>1. /\ w \in Seq(S) /\ Len(w) = Len(g) + Len(s)
      /\ \A k \in 1..Len(w) : w[k] = IF k <= Len(g) THEN g[k] ELSE s[k - Len(g)]
  BY ConcatProperties
<1> HIDE DEF w
<1>2. Len(w) \in Nat /\ Len(w) >= 1 /\ w # <<>>
  BY <1>1, EmptySeq
<1>3. w[1] = g[1] /\ Head(w) = w[1]
  BY <1>1, <1>2, HeadTailProperties
<1>4. g = <<g[1]>>
  <2>1. <<g[1]>> \in Seq(S) /\ Len(<<g[1]>>) = 1
    OBVIOUS
  <2>2. \A k \in 1..Len(g) : k = 1
    OBVIOUS
  <2> QED
    BY <2>1, <2>2, SeqEqual
<1> QED
  BY <1>3, <1>4 DEF w

LEMMA SysvMessagesNext ==
    SysvInv /\ SysvMessages /\ [Sysv!SysvNext]_(Sysv!sysvVars) => SysvMessages'
<1> SUFFICES ASSUME SysvInv, SysvMessages, [Sysv!SysvNext]_(Sysv!sysvVars)
             PROVE  SysvMessages'
  OBVIOUS
<1> USE DEF ParentEnded, Sysv!ParentEnded
<1>t. /\ stream \in Seq(1..MaxRuns) /\ found \in Seq(1..MaxRuns) /\ run \in 1..MaxRuns
      /\ got \in Seq(1..MaxRuns)
  <2>1. /\ stream \in Seq(1..MaxRuns) /\ found \in Seq(1..MaxRuns)
        /\ got = <<>> \/ got \in [{1} -> 1..MaxRuns]
    BY DEF SysvInv, Sysv!SysvTypeOK
  <2>2. ASSUME got \in [{1} -> 1..MaxRuns] PROVE got \in Seq(1..MaxRuns)
    <3>1. got[1] \in 1..MaxRuns /\ got = <<got[1]>>
      BY <2>2
    <3>2. <<got[1]>> \in Seq(1..MaxRuns)
      BY <3>1
    <3> QED
      BY <3>1, <3>2
  <2>3. run \in 1..MaxRuns
    BY ProcTypeNow DEF SysvInv
  <2> QED
    BY <2>1, <2>2, <2>3, EmptySeq
<1>1. CASE Sysv!msgget /\ UNCHANGED <<sigterm, found>>
  BY <1>1 DEF Sysv!msgget, SysvMessages
<1>2. CASE Sysv!fork /\ UNCHANGED <<sigterm, found>>
  <2>1. parent = "fork" /\ child = "none"
    BY <1>2 DEF Sysv!fork, Sysv!Fork, Sysv!ForkFails, SysvInv
  <2>2. ~sent
    BY <2>1 DEF SysvInv
  <2> QED
    BY <1>2, <2>1, <2>2 DEF Sysv!fork, Sysv!Fork, Sysv!ForkFails, SysvMessages
<1>3. CASE Sysv!msgsnd /\ UNCHANGED <<sigterm, found>>
  <2>1. /\ parent' = parent /\ got' = got /\ run' = run /\ found' = found
        /\ child = "msgsnd" /\ child' = "raise" /\ stream' = Append(stream, run)
    BY <1>3 DEF Sysv!msgsnd
  <2>2. parent # "returned"
    BY <2>1 DEF SysvInv
  <2>3. ~ParentEnded => got \o stream = found
    BY <2>1 DEF SysvMessages
  <2>4. got' \o stream' = Append(got \o stream, run)
    BY <1>t, <2>1, SentBehind
  <2> QED
    BY <1>3, <2>1, <2>2, <2>3, <2>4 DEF SysvMessages
<1>4. CASE Sysv!msgsndFails /\ UNCHANGED <<sigterm, found>>
  <2>1. child = "msgsnd" /\ ~sent
    BY <1>4 DEF Sysv!msgsndFails, SysvInv
  <2> QED
    BY <1>4, <2>1 DEF Sysv!msgsndFails, Sysv!ChildEnds, SysvMessages
<1>5. CASE Sysv!raise /\ UNCHANGED <<sigterm, found>>
  BY <1>5 DEF Sysv!raise, Sysv!Raise, Sysv!ChildEnds, SysvMessages
<1>6. CASE Sysv!ChildReturns /\ UNCHANGED <<sigterm, found>>
  <2>1. sigterm # "default"
    BY <1>6 DEF Sysv!ChildReturns, SysvInv
  <2> QED
    BY <1>6, <2>1 DEF Sysv!ChildReturns, Sysv!ChildEnds, SysvMessages
<1>7. CASE Sysv!msgrcv /\ UNCHANGED <<sigterm, found>>
  <2>1. /\ parent = "msgrcv" /\ parent' = "waitpid" /\ got = <<>> /\ stream # <<>>
        /\ got' = <<Head(stream)>> /\ stream' = Tail(stream)
        /\ child' = child /\ sent' = sent /\ run' = run
    BY <1>7 DEF Sysv!msgrcv, SysvMessages
  <2>2. got' \o stream' = stream
    BY <1>t, <2>1, TakenFirst
  <2>3. got \o stream = stream
    BY <1>t, <2>1, ConcatEmptySeq
  <2>4. Len(got') = 1
    BY <2>1
  <2> QED
    BY <1>7, <2>1, <2>2, <2>3, <2>4 DEF SysvMessages
<1>8. CASE Sysv!msgrcvFails /\ UNCHANGED <<sigterm, found>>
  BY <1>8 DEF Sysv!msgrcvFails, SysvMessages
<1>9. CASE Sysv!waitpid /\ UNCHANGED <<sigterm, found>>
  BY <1>9 DEF Sysv!waitpid, Sysv!WaitPid, SysvMessages
<1>10. CASE Sysv!ParentReturns /\ UNCHANGED <<sigterm, found>>
  <2>1. /\ parent = "rmid" /\ parent' = "returned" /\ Len(got) = 1
        /\ got' = got /\ sent' = sent /\ run' = run
    BY <1>10 DEF Sysv!ParentReturns, SysvMessages
  <2>2. got = <<Head(got \o stream)>>
    BY <1>t, <2>1, HeadOfAll
  <2>3. sent /\ sigterm = "default" => got \o stream = Append(found, run)
    BY <2>1 DEF SysvMessages
  <2> QED
    BY <1>10, <2>1, <2>2, <2>3 DEF SysvMessages
<1>11. CASE Sysv!ChildKilled /\ UNCHANGED <<sigterm, found>>
  BY <1>11 DEF Sysv!ChildKilled, Sysv!ChildEnds, SysvMessages
<1>12. CASE Sysv!Interrupt /\ UNCHANGED <<sigterm, found>>
  BY <1>12 DEF Sysv!Interrupt, SysvMessages
<1>13. CASE Sysv!Restart(stream) /\ found' = stream /\ UNCHANGED sigterm
  <2>1. /\ parent' = "start" /\ child' = "none" /\ got' = <<>> /\ stream' = stream
        /\ sent' = FALSE
    BY <1>13 DEF Sysv!Restart
  <2>2. got' \o stream' = stream
    BY <1>t, <2>1, ConcatEmptySeq
  <2> QED
    BY <1>13, <2>1, <2>2 DEF SysvMessages
<1>14. CASE UNCHANGED Sysv!sysvVars
  BY <1>14 DEF Sysv!sysvVars, Sysv!procVars, SysvMessages
<1> QED
  BY <1>1, <1>2, <1>3, <1>4, <1>5, <1>6, <1>7, <1>8, <1>9, <1>10, <1>11, <1>12,
     <1>13, <1>14 DEF Sysv!SysvNext, Sysv!ParentStep, Sysv!ChildStep

LEMMA SysvInvArrives ==
    SysvInv /\ SysvMessages => Sysv!SysvMessageArrives /\ Sysv!SysvNothingLeft
BY DEF SysvInv, SysvMessages, Sysv!SysvMessageArrives, Sysv!SysvNothingLeft,
       ParentEnded, Sysv!ParentEnded
-----------------------------------------------------------------------------
(***************************************************************************)
(* posix_msg_queue and simple_fork                                         *)
(***************************************************************************)
MqInv ==
    /\ ProcTypeOK /\ Mq!MqTypeOK
    /\ parent \in {"start", "fork"} => child = "none"

LEMMA MqInvInit == ProcInit => MqInv
BY ProcTypeInit DEF ProcInit, MqInv, Mq!MqTypeOK

LEMMA MqInvNext == MqInv /\ [Mq!MqNext]_(Mq!procVars) => MqInv'
<1> SUFFICES ASSUME MqInv, [Mq!MqNext]_(Mq!procVars) PROVE MqInv'
  OBVIOUS
<1>t. ProcTypeOK /\ objects \subseteq {"queue", "in.fifo", "out.fifo"}
  BY ProcTypeNow DEF MqInv
<1>1. CASE Mq!fork
  <2>1. /\ parent \in {"start", "fork"} /\ child = "none" /\ child' # "ended"
        /\ status' = status /\ objects' = objects /\ sent' = sent /\ run' = run
    BY <1>1 DEF Mq!fork, Mq!Fork, Mq!ForkFails, MqInv
  <2>2. ProcTypeOK'
    BY <1>t, <2>1, ProcTypeKept
  <2> QED
    BY <1>1, <2>1, <2>2 DEF Mq!fork, Mq!Fork, Mq!ForkFails, MqInv, Mq!MqTypeOK
<1>2. CASE Mq!waitpid \/ Mq!Check \/ Mq!ParentOpens
  <2>1. /\ child' = child /\ status' = status /\ objects' = objects /\ sent' = sent
        /\ run' = run /\ parent' \notin {"start", "fork"}
    BY <1>2 DEF Mq!waitpid, Mq!WaitPid, Mq!Check, Mq!ParentOpens
  <2>2. ProcTypeOK'
    BY <1>t, <2>1, ProcTypeKept
  <2> QED
    BY <1>2, <2>1, <2>2
       DEF Mq!waitpid, Mq!WaitPid, Mq!Check, Mq!ParentOpens, MqInv, Mq!MqTypeOK
<1>3. CASE Mq!ChildOpens
  <2>1. ProcTypeOK'
    BY <1>3, <1>t, ProcTypeKept DEF Mq!ChildOpens
  <2> QED
    BY <1>3, <2>1 DEF Mq!ChildOpens, MqInv, Mq!MqTypeOK
<1>4. CASE Mq!ChildOpenFails \/ Mq!SendFails \/ Mq!ChildKilled
  <2>1. /\ child' = "ended" /\ status' \in {9, 256} /\ objects' = objects
        /\ sent' = sent /\ run' = run /\ parent' = parent /\ child # "none"
    BY <1>4 DEF Mq!ChildOpenFails, Mq!SendFails, Mq!ChildKilled, Mq!ChildEnds,
                Mq!ChildLives, Mq!ExitStatus, Mq!EXIT_FAILURE, Mq!SIGKILL
  <2>2. ProcTypeOK'
    BY <1>t, <2>1, ProcTypeEnds DEF Statuses
  <2> QED
    BY <2>1, <2>2 DEF MqInv, Mq!MqTypeOK
<1>5. CASE Mq!Interrupt
  <2>1. ProcTypeOK'
    <3>1. CASE Mq!ChildLives
      BY <1>5, <1>t, <3>1, ProcTypeEnds
         DEF Mq!Interrupt, Mq!ChildEnds, Mq!SIGINT, Statuses
    <3>2. CASE ~Mq!ChildLives
      BY <1>5, <1>t, <3>2, ProcTypeKept DEF Mq!Interrupt
    <3> QED
      BY <3>1, <3>2
  <2> QED
    BY <1>5, <2>1 DEF Mq!Interrupt, Mq!ChildEnds, MqInv, Mq!MqTypeOK
<1>6. CASE Mq!Restart(<<>>)
  <2>1. ProcTypeOK'
    BY <1>6, <1>t, ProcTypeRestart DEF Mq!Restart, Mq!Running
  <2> QED
    BY <1>6, <2>1 DEF Mq!Restart, MqInv, Mq!MqTypeOK
<1>7. CASE UNCHANGED Mq!procVars
  BY <1>7 DEF Mq!procVars, MqInv, ProcTypeOK, Mq!MqTypeOK
<1> QED
  BY <1>1, <1>2, <1>3, <1>4, <1>5, <1>6, <1>7
     DEF Mq!MqNext, Mq!ParentStep, Mq!ChildStep

SimpleInv ==
    /\ ProcTypeOK /\ Simple!SimpleTypeOK
    /\ parent \in {"start", "fork"} => child = "none"

LEMMA SimpleInvInit == ProcInit /\ Simple!SimpleInit => SimpleInv
BY ProcTypeInit DEF ProcInit, SimpleInv, Simple!SimpleInit, Simple!SimpleTypeOK

LEMMA SimpleInvNext ==
    SimpleInv /\ [Simple!SimpleNext]_(Simple!forkVars) => SimpleInv'
<1> SUFFICES ASSUME SimpleInv, [Simple!SimpleNext]_(Simple!forkVars)
             PROVE  SimpleInv'
  OBVIOUS
<1>t. ProcTypeOK /\ objects \subseteq {"queue", "in.fifo", "out.fifo"}
      /\ sigtermInvoked \in BOOLEAN
  BY ProcTypeNow DEF SimpleInv, Simple!SimpleTypeOK
<1>1. CASE Simple!fork
  <2>1. /\ parent \in {"start", "fork"} /\ child = "none" /\ child' # "ended"
        /\ status' = status /\ objects' = objects /\ sent' = sent /\ run' = run
    BY <1>1 DEF Simple!fork, Simple!Fork, Simple!ForkFails, SimpleInv
  <2>2. ProcTypeOK'
    BY <1>t, <2>1, ProcTypeKept
  <2> QED
    BY <1>1, <2>1, <2>2
       DEF Simple!fork, Simple!Fork, Simple!ForkFails, SimpleInv, Simple!SimpleTypeOK
<1>2. CASE Simple!waitpid \/ Simple!sigaction \/ Simple!ReadsOnce
  <2>1. ProcTypeOK'
    BY <1>2, <1>t, ProcTypeKept
       DEF Simple!waitpid, Simple!WaitPid, Simple!sigaction, Simple!ReadsOnce
  <2> QED
    BY <1>2, <2>1 DEF Simple!waitpid, Simple!WaitPid, Simple!sigaction,
                      Simple!ReadsOnce, SimpleInv, Simple!SimpleTypeOK
<1>3. CASE Simple!SpinEnds
  <2>1. ProcTypeOK'
    BY <1>3, <1>t, ProcTypeEnds
       DEF Simple!SpinEnds, Simple!ChildEnds, Simple!ExitStatus, Statuses
  <2> QED
    BY <1>3, <2>1 DEF Simple!SpinEnds, Simple!ChildEnds, SimpleInv, Simple!SimpleTypeOK
<1>4. CASE Simple!Sigterm
  <2>1. ProcTypeOK'
    <3>1. CASE child \in {"spin", "stuck"}
      BY <1>4, <1>t, <3>1, ProcTypeKept DEF Simple!Sigterm
    <3>2. CASE child = "sigaction"
      <4>1. /\ child' = "ended" /\ status' = 15 /\ objects' = objects /\ run' = run
            /\ sent' = TRUE
        BY <1>4, <3>2 DEF Simple!Sigterm, Simple!ChildEnds, Simple!SIGTERM
      <4> QED
        BY <1>t, <4>1, ProcTypeNow, ProcTypeNext DEF Statuses
    <3> QED
      BY <1>4, <3>1, <3>2 DEF Simple!Sigterm
  <2>2. sigtermInvoked' \in BOOLEAN
    BY <1>4, <1>t DEF Simple!Sigterm, Simple!ChildHandler
  <2> QED
    BY <1>4, <2>1, <2>2 DEF Simple!Sigterm, Simple!ChildEnds, SimpleInv,
                      Simple!SimpleTypeOK
<1>5. CASE UNCHANGED Simple!forkVars
  BY <1>5 DEF Simple!forkVars, Simple!procVars, SimpleInv, ProcTypeOK,
              Simple!SimpleTypeOK
<1> QED
  BY <1>1, <1>2, <1>3, <1>4, <1>5
     DEF Simple!SimpleNext, Simple!ParentStep, Simple!ChildStep
-----------------------------------------------------------------------------
(***************************************************************************)
(* fifo_channel                                                            *)
(***************************************************************************)
\* The bytes written are numbered; main has copied the first ones, holds the
\* next ones in its buffer, and the others are in in.fifo.
InOrder ==
    /\ \A k \in 1..Len(got) : got[k] = k
    /\ \A k \in 1..Len(buffer) : buffer[k] = Len(got) + k
    /\ \A k \in 1..Len(stream) : stream[k] = Len(got) + Len(buffer) + k
    /\ Len(got) + Len(buffer) + Len(stream) = written

FifoSeqs == got \in Seq(Nat) /\ buffer \in Seq(Nat) /\ stream \in Seq(Nat)

\* Where main is: what it has opened, and that its buffer is in use only between
\* a read and the write after it.
FifoStages ==
    /\ child = "none"
    /\ objects \subseteq {"in.fifo", "out.fifo"}
    /\ parent \in {"start", "mkfifo_out", "open_in"} =>
          /\ fds = {} /\ got = <<>> /\ buffer = <<>> /\ stream = <<>>
          /\ written = 0 /\ writer \in {"away", "opening"}
    /\ parent = "open_out" => "output" \notin fds /\ got = <<>> /\ buffer = <<>>
    /\ parent \in {"read", "unlink_returned", "unlink_failed"} => buffer = <<>>
    /\ parent = "unlink_returned" => writer = "closed" /\ stream = <<>>

FifoInv ==
    /\ ProcTypeOK /\ Fifo!FifoTypeOK /\ FifoSeqs /\ FifoStages
    /\ ~ParentEnded /\ (parent = "open_out" \/ "output" \in fds) => InOrder

LEMMA EmptyNats == <<>> \in Seq(Nat) /\ Len(<<>>) = 0
BY EmptySeq

LEMMA FifoInvInit == ProcInit /\ Fifo!FifoInit => FifoInv
<1> SUFFICES ASSUME ProcInit, Fifo!FifoInit PROVE FifoInv
  OBVIOUS
<1>1. Fifo!FifoTypeOK
  BY EmptyNats, ProgramsAssumption DEF ProcInit, Fifo!FifoInit, Fifo!FifoTypeOK
<1>2. FifoSeqs /\ FifoStages
  BY EmptyNats DEF ProcInit, Fifo!FifoInit, FifoSeqs, FifoStages
<1>3. "output" \notin fds /\ parent # "open_out"
  BY DEF ProcInit, Fifo!FifoInit
<1> QED
  BY <1>1, <1>2, <1>3, ProcTypeInit DEF FifoInv

\* The front of a sequence and what is behind it.
LEMMA FrontBack ==
    ASSUME NEW s \in Seq(Nat), NEW n \in 0..Len(s)
    PROVE  /\ SubSeq(s, 1, n) \in Seq(Nat) /\ Len(SubSeq(s, 1, n)) = n
           /\ \A k \in 1..n : SubSeq(s, 1, n)[k] = s[k]
           /\ SubSeq(s, n + 1, Len(s)) \in Seq(Nat)
           /\ Len(SubSeq(s, n + 1, Len(s))) = Len(s) - n
           /\ \A k \in 1..(Len(s) - n) : SubSeq(s, n + 1, Len(s))[k] = s[n + k]
<1>1. Len(s) \in Nat /\ n \in Nat /\ n <= Len(s) /\ \A k \in 1..Len(s) : s[k] \in Nat
  OBVIOUS
<1>2. (\A k \in 1..n : k \in 1..Len(s)) /\ (\A k \in (n + 1)..Len(s) : k \in 1..Len(s))
  BY <1>1
<1>3. /\ SubSeq(s, 1, n) \in Seq(Nat)
      /\ Len(SubSeq(s, 1, n)) = IF 1 <= n THEN n - 1 + 1 ELSE 0
      /\ \A k \in 1..(n - 1 + 1) : SubSeq(s, 1, n)[k] = s[1 + k - 1]
  BY <1>1, <1>2, SubSeqProperties
<1>4. /\ SubSeq(s, n + 1, Len(s)) \in Seq(Nat)
      /\ Len(SubSeq(s, n + 1, Len(s))) =
             IF n + 1 <= Len(s) THEN Len(s) - (n + 1) + 1 ELSE 0
      /\ \A k \in 1..(Len(s) - (n + 1) + 1) :
             SubSeq(s, n + 1, Len(s))[k] = s[(n + 1) + k - 1]
  BY <1>1, <1>2, SubSeqProperties
<1>5. n - 1 + 1 = n /\ Len(s) - (n + 1) + 1 = Len(s) - n
  BY <1>1
<1>6. \A k \in Int : 1 + k - 1 = k /\ (n + 1) + k - 1 = n + k
  BY <1>1
<1>7. /\ \A k \in 1..n : SubSeq(s, 1, n)[k] = s[k]
      /\ \A k \in 1..(Len(s) - n) : SubSeq(s, n + 1, Len(s))[k] = s[n + k]
  BY <1>1, <1>3, <1>4, <1>5, <1>6
<1>8. Len(SubSeq(s, 1, n)) = n /\ Len(SubSeq(s, n + 1, Len(s))) = Len(s) - n
  BY <1>1, <1>3, <1>4
<1> QED
  BY <1>3, <1>4, <1>7, <1>8

LEMMA FifoInvNext == FifoInv /\ [Fifo!FifoNext]_(Fifo!fifoVars) => FifoInv'
<1> SUFFICES ASSUME FifoInv, [Fifo!FifoNext]_(Fifo!fifoVars) PROVE FifoInv'
  OBVIOUS
<1> USE DEF ParentEnded, Fifo!ParentEnded
<1>f. leftover' \subseteq {"in.fifo", "out.fifo"}
  <2>1. leftover' = leftover \/ leftover' = objects
    BY DEF Fifo!FifoNext, Fifo!fifoVars
  <2> QED
    BY <2>1 DEF FifoInv, FifoStages, Fifo!FifoTypeOK
<1>t. /\ ProcTypeOK /\ objects \subseteq {"queue", "in.fifo", "out.fifo"}
      /\ Fifo!FifoTypeOK /\ FifoSeqs /\ FifoStages
      /\ leftover' \subseteq {"in.fifo", "out.fifo"}
      /\ kFifoBuffer \in Nat /\ kFifoBuffer > 0 /\ FifoSize \in Nat /\ MaxWritten \in Nat
  BY <1>f, ProcTypeNow, ProgramsAssumption DEF FifoInv
<1>l. Len(got) \in Nat /\ Len(buffer) \in Nat /\ Len(stream) \in Nat /\ written \in Nat
  BY <1>t DEF FifoSeqs, Fifo!FifoTypeOK
<1>k. ~ParentEnded /\ (parent = "open_out" \/ "output" \in fds) => InOrder
  BY DEF FifoInv
\* A step that leaves the bytes alone.
<1>q. ASSUME got' = got, buffer' = buffer, stream' = stream, written' = written
      PROVE  FifoSeqs' /\ (InOrder => InOrder')
  BY <1>q, <1>t DEF FifoSeqs, InOrder
<1>z. ASSUME got = <<>>, buffer = <<>>, stream = <<>>, written = 0 PROVE InOrder
  BY <1>z, EmptyNats DEF InOrder
<1>1. ASSUME NEW from, NEW name, NEW next, Fifo!mkfifo(from, name, next),
             \/ from = "start" /\ name = "in.fifo" /\ next = "mkfifo_out"
             \/ from = "mkfifo_out" /\ name = "out.fifo" /\ next = "open_in"
      PROVE  FifoInv'
  <2>1. ProcTypeOK'
    BY <1>1, <1>t, ProcTypeKept DEF Fifo!mkfifo, Fifo!childVars
  <2>2. Fifo!FifoTypeOK' /\ FifoStages'
    BY <1>1, <1>t DEF Fifo!mkfifo, Fifo!childVars, Fifo!copyVars, Fifo!FifoTypeOK, FifoStages
  <2>3. FifoSeqs' /\ "output" \notin fds' /\ parent' # "open_out"
    BY <1>1, <1>q, <1>t DEF Fifo!mkfifo, Fifo!copyVars, FifoStages
  <2> QED
    BY <2>1, <2>2, <2>3 DEF FifoInv
<1>2. CASE Fifo!OpenInput
  <2>1. ProcTypeOK'
    BY <1>2, <1>t, ProcTypeKept DEF Fifo!OpenInput, Fifo!childVars
  <2>2. Fifo!FifoTypeOK' /\ FifoStages'
    BY <1>2, <1>t DEF Fifo!OpenInput, Fifo!childVars, Fifo!copyVars, Fifo!FifoTypeOK, FifoStages
  <2>3. FifoSeqs' /\ InOrder'
    BY <1>2, <1>q, <1>z, <1>t DEF Fifo!OpenInput, Fifo!copyVars, FifoStages
  <2> QED
    BY <2>1, <2>2, <2>3 DEF FifoInv
<1>3. CASE Fifo!OpenOutput
  <2>1. ProcTypeOK'
    BY <1>3, <1>t, ProcTypeKept DEF Fifo!OpenOutput, Fifo!childVars
  <2>2. Fifo!FifoTypeOK' /\ FifoStages'
    BY <1>3, <1>t DEF Fifo!OpenOutput, Fifo!childVars, Fifo!copyVars, Fifo!FifoTypeOK, FifoStages
  <2>3. FifoSeqs' /\ InOrder'
    BY <1>3, <1>k, <1>q, <1>t DEF Fifo!OpenOutput, Fifo!copyVars
  <2> QED
    BY <2>1, <2>2, <2>3 DEF FifoInv
<1>4. CASE Fifo!OpenFails
  <2>1. ProcTypeOK'
    BY <1>4, <1>t, ProcTypeKept DEF Fifo!OpenFails, Fifo!childVars
  <2>2. Fifo!FifoTypeOK' /\ FifoStages'
    BY <1>4, <1>t DEF Fifo!OpenFails, Fifo!childVars, Fifo!copyVars, Fifo!FifoTypeOK, FifoStages
  <2>3. FifoSeqs' /\ (parent' = "open_out" => InOrder')
    BY <1>4, <1>q, <1>z, <1>t DEF Fifo!OpenFails, Fifo!copyVars, FifoStages
  <2>4. "output" \notin fds'
    BY <1>4, <1>t DEF Fifo!OpenFails, FifoStages
  <2> QED
    BY <2>1, <2>2, <2>3, <2>4 DEF FifoInv
<1>5. CASE Fifo!Read
  <2> DEFINE n == Fifo!Shorter(Len(stream))
  <2>0. n \in 0..Len(stream) /\ n <= kFifoBuffer /\ (n = 0 => Len(stream) = 0)
    BY <1>l, <1>t DEF Fifo!Shorter
  <2>1. ProcTypeOK' /\ fds' = fds /\ got' = got /\ written' = written /\ parent = "read"
    BY <1>5, <1>t, ProcTypeKept DEF Fifo!Read, Fifo!childVars
  <2>2. CASE n > 0 /\ buffer' = SubSeq(stream, 1, n)
             /\ stream' = SubSeq(stream, n + 1, Len(stream)) /\ parent' = "write"
    <3> HIDE DEF n
    <3>1. /\ buffer' \in Seq(Nat) /\ Len(buffer') = n
          /\ \A k \in 1..n : buffer'[k] = stream[k]
          /\ stream' \in Seq(Nat) /\ Len(stream') = Len(stream) - n
          /\ \A k \in 1..(Len(stream) - n) : stream'[k] = stream[n + k]
      BY <1>t, <2>0, <2>2, FrontBack DEF FifoSeqs
    <3>2. Fifo!FifoTypeOK' /\ FifoStages'
      BY <1>5, <1>t, <2>0, <2>1, <2>2, <3>1
         DEF Fifo!Read, Fifo!childVars, Fifo!FifoTypeOK, FifoStages
    <3>3. FifoSeqs'
      BY <1>t, <2>1, <3>1 DEF FifoSeqs
    <3>4. ASSUME "output" \in fds' PROVE InOrder'
      <4>1. InOrder /\ Len(buffer) = 0
        BY <1>k, <1>t, <2>1, <3>4, EmptyNats DEF FifoStages
      <4>2. \A k \in 1..(Len(stream) - n) : n + k \in 1..Len(stream)
        BY <1>l, <2>0
      <4>3. \A k \in 1..(Len(stream) - n) : stream'[k] = Len(got) + n + k
        BY <1>l, <2>0, <3>1, <4>1, <4>2 DEF InOrder
      <4>4. \A k \in 1..n : buffer'[k] = Len(got) + k
        BY <1>l, <2>0, <3>1, <4>1 DEF InOrder
      <4>5. Len(got) + Len(buffer) + Len(stream) = written
        BY <4>1 DEF InOrder
      <4>6. Len(got) + n + (Len(stream) - n) = written
        <5>1. n \in Int
          BY <1>l, <2>0
        <5> QED
          BY <1>l, <4>1, <4>5, <5>1
      <4> QED
        BY <2>1, <3>1, <4>1, <4>3, <4>4, <4>6 DEF InOrder
    <3> QED
      BY <2>1, <2>2, <3>2, <3>3, <3>4 DEF FifoInv
  <2>3. CASE UNCHANGED <<buffer, stream>>
             /\ \/ n = 0 /\ writer = "closed" /\ parent' = "unlink_returned"
                \/ parent' = "unlink_failed"
    <3>1. n = 0 => stream = <<>>
      BY <1>t, <2>0, EmptySeq DEF FifoSeqs
    <3>2. Fifo!FifoTypeOK' /\ FifoStages'
      BY <1>5, <1>t, <2>1, <2>3, <3>1
         DEF Fifo!Read, Fifo!childVars, Fifo!FifoTypeOK, FifoStages
    <3> QED
      BY <1>k, <1>q, <2>1, <2>3, <3>2 DEF FifoInv
  <2> QED
    BY <1>5, <2>2, <2>3 DEF Fifo!Read
<1>6. CASE Fifo!ReadFails
  <2>1. ProcTypeOK'
    BY <1>6, <1>t, ProcTypeKept DEF Fifo!ReadFails, Fifo!childVars
  <2>2. Fifo!FifoTypeOK' /\ FifoStages'
    BY <1>6, <1>t DEF Fifo!ReadFails, Fifo!childVars, Fifo!copyVars, Fifo!FifoTypeOK, FifoStages
  <2>3. FifoSeqs' /\ ("output" \in fds' => InOrder')
    BY <1>6, <1>k, <1>q DEF Fifo!ReadFails, Fifo!copyVars
  <2> QED
    BY <1>6, <2>1, <2>2, <2>3 DEF FifoInv, Fifo!ReadFails
<1>7. CASE Fifo!Write
  <2>1. /\ ProcTypeOK' /\ fds' = fds /\ stream' = stream /\ written' = written
        /\ parent = "write" /\ buffer' = <<>>
    BY <1>7, <1>t, ProcTypeKept DEF Fifo!Write, Fifo!childVars
  <2>2. Fifo!FifoTypeOK' /\ FifoStages'
    BY <1>7, <1>t, <1>l, <2>1, EmptyNats
       DEF Fifo!Write, Fifo!childVars, Fifo!FifoTypeOK, FifoStages
  <2>3. CASE got' = got \o buffer /\ parent' = "read" /\ "output" \in fds
    <3>1. /\ got' \in Seq(Nat) /\ Len(got') = Len(got) + Len(buffer)
          /\ \A k \in 1..Len(got') :
                got'[k] = IF k <= Len(got) THEN got[k] ELSE buffer[k - Len(got)]
      BY <1>t, <2>3, ConcatProperties DEF FifoSeqs
    <3>2. FifoSeqs'
      BY <1>t, <2>1, <3>1, EmptyNats DEF FifoSeqs
    <3>3. InOrder
      BY <1>k, <2>1, <2>3
    <3>4. \A k \in 1..Len(got') : got'[k] = k
      <4>1. TAKE k \in 1..Len(got')
      <4>2. CASE k <= Len(got)
        <5>1. k \in 1..Len(got) /\ got'[k] = got[k]
          BY <1>l, <3>1, <4>2
        <5> QED
          BY <3>3, <5>1 DEF InOrder
      <4>3. CASE ~(k <= Len(got))
        <5>1. k - Len(got) \in 1..Len(buffer)
          BY <1>l, <3>1, <4>3
        <5>2. buffer[k - Len(got)] = Len(got) + (k - Len(got))
          BY <3>3, <5>1 DEF InOrder
        <5> QED
          BY <1>l, <3>1, <4>3, <5>2
      <4> QED
        BY <4>2, <4>3
    <3>5. InOrder'
      BY <1>l, <2>1, <3>1, <3>3, <3>4, EmptyNats DEF InOrder
    <3> QED
      BY <2>1, <2>2, <3>2, <3>5 DEF FifoInv
  <2>4. CASE got' = got /\ ("output" \notin fds \/ parent' = "killed") /\ parent' # "open_out"
    <3>1. FifoSeqs'
      BY <1>t, <2>1, <2>4, EmptyNats DEF FifoSeqs
    <3> QED
      BY <2>1, <2>2, <2>4, <3>1 DEF FifoInv
  <2> QED
    BY <1>7, <2>3, <2>4 DEF Fifo!Write
<1>8. CASE Fifo!CloseAndUnlink
  <2>1. ProcTypeOK'
    BY <1>8, <1>t, ProcTypeKept DEF Fifo!CloseAndUnlink, Fifo!Unlinked, Fifo!childVars
  <2>2. Fifo!FifoTypeOK' /\ FifoStages'
    BY <1>8, <1>t DEF Fifo!CloseAndUnlink, Fifo!Unlinked, Fifo!childVars, Fifo!copyVars,
                      Fifo!FifoTypeOK, FifoStages
  <2>3. FifoSeqs'
    BY <1>8, <1>q DEF Fifo!CloseAndUnlink, Fifo!copyVars
  <2> QED
    BY <1>8, <2>1, <2>2, <2>3 DEF FifoInv, Fifo!CloseAndUnlink
<1>9. CASE Fifo!Arrive \/ Fifo!WriterCloses \/ Fifo!ReaderTakes \/ Fifo!ReaderCloses
  <2>1. ProcTypeOK'
    BY <1>9, <1>t, ProcTypeKept
       DEF Fifo!Arrive, Fifo!WriterCloses, Fifo!ReaderTakes, Fifo!ReaderCloses, Fifo!procVars
  <2>3. /\ got' = got /\ buffer' = buffer /\ stream' = stream /\ written' = written
        /\ fds' = fds /\ parent' = parent /\ child' = child /\ objects' = objects
    BY <1>9 DEF Fifo!Arrive, Fifo!WriterCloses, Fifo!ReaderTakes, Fifo!ReaderCloses,
                Fifo!procVars, Fifo!copyVars
  <2>4. /\ writer' \in {"away", "opening", "open", "closed"}
        /\ reader' \in {"away", "opening", "open", "closed"}
        /\ writer \in {"away", "opening"} => writer' \in {"away", "opening"}
        /\ writer = "closed" => writer' = "closed"
    BY <1>9, <1>t DEF Fifo!Arrive, Fifo!WriterCloses, Fifo!ReaderTakes, Fifo!ReaderCloses,
                      Fifo!FifoTypeOK
  <2>5. unread' \in 0..FifoSize
    <3>1. \/ unread' = unread
          \/ unread > 0 /\ unread' = unread - 1
      BY <1>9 DEF Fifo!Arrive, Fifo!WriterCloses, Fifo!ReaderTakes, Fifo!ReaderCloses,
                  Fifo!copyVars
    <3> QED
      BY <1>t, <3>1 DEF Fifo!FifoTypeOK
  <2>2. Fifo!FifoTypeOK' /\ FifoStages'
    BY <1>t, <2>3, <2>4, <2>5 DEF Fifo!FifoTypeOK, FifoStages
  <2> QED
    BY <1>k, <1>q, <2>1, <2>2, <2>3 DEF FifoInv
<1>10. CASE Fifo!WriterWrites
  <2>1. ProcTypeOK'
    BY <1>10, <1>t, ProcTypeKept DEF Fifo!WriterWrites, Fifo!childVars
  <2>2. /\ stream' \in Seq(Nat) /\ Len(stream') = Len(stream) + 1
        /\ \A k \in 1..Len(stream) : stream'[k] = stream[k]
        /\ stream'[Len(stream) + 1] = written + 1
    BY <1>10, <1>t, <1>l, AppendProperties DEF Fifo!WriterWrites, FifoSeqs
  <2>3. Fifo!FifoTypeOK' /\ FifoStages'
    BY <1>10, <1>t, <1>l DEF Fifo!WriterWrites, Fifo!childVars, Fifo!FifoTypeOK, FifoStages
  <2>4. FifoSeqs'
    BY <1>10, <1>t, <2>2 DEF Fifo!WriterWrites, FifoSeqs
  <2>5. ASSUME InOrder PROVE InOrder'
    <3>1. \A k \in 1..(Len(stream) + 1) : k \in 1..Len(stream) \/ k = Len(stream) + 1
      BY <1>l
    <3>2. \A k \in 1..(Len(stream) + 1) : stream'[k] = Len(got) + Len(buffer) + k
      <4>1. TAKE k \in 1..(Len(stream) + 1)
      <4>2. CASE k \in 1..Len(stream)
        BY <2>2, <2>5, <4>2 DEF InOrder
      <4>3. CASE k = Len(stream) + 1
        <5>1. Len(got) + Len(buffer) + Len(stream) = written
          BY <2>5 DEF InOrder
        <5> QED
          BY <1>l, <2>2, <4>3, <5>1
      <4> QED
        BY <3>1, <4>2, <4>3
    <3>3. got' = got /\ buffer' = buffer /\ written' = written + 1
      BY <1>10 DEF Fifo!WriterWrites
    <3>4. Len(got) + Len(buffer) + (Len(stream) + 1) = written + 1
      <4>1. Len(got) + Len(buffer) + Len(stream) = written
        BY <2>5 DEF InOrder
      <4> QED
        BY <1>l, <4>1
    <3> QED
      BY <2>2, <2>5, <3>2, <3>3, <3>4 DEF InOrder
  <2> QED
    BY <1>10, <1>k, <2>1, <2>3, <2>4, <2>5 DEF FifoInv, Fifo!WriterWrites
<1>11. CASE Fifo!Interrupt /\ UNCHANGED <<writer, reader, fds, Fifo!copyVars>>
  <2>0. child = "none" /\ child' = child /\ status' = status
    BY <1>11, <1>t DEF Fifo!Interrupt, Fifo!ChildLives, FifoStages
  <2>1. ProcTypeOK'
    BY <1>11, <1>t, <2>0, ProcTypeKept DEF Fifo!Interrupt
  <2>2. Fifo!FifoTypeOK' /\ FifoStages'
    BY <1>11, <1>t, <2>0 DEF Fifo!Interrupt, Fifo!copyVars, Fifo!FifoTypeOK, FifoStages
  <2>3. FifoSeqs'
    BY <1>11, <1>q DEF Fifo!Interrupt, Fifo!copyVars
  <2> QED
    BY <1>11, <2>1, <2>2, <2>3 DEF FifoInv, Fifo!Interrupt
<1>12. CASE /\ Fifo!Restart(<<>>)
            /\ writer' = "away" /\ reader' = "away" /\ fds' = {}
            /\ buffer' = <<>> /\ written' = 0 /\ unread' = 0
  <2>1. ProcTypeOK'
    BY <1>12, <1>t, ProcTypeRestart DEF Fifo!Restart, Fifo!Running
  <2>2. Fifo!FifoTypeOK' /\ FifoStages'
    BY <1>12, <1>t, EmptyNats DEF Fifo!Restart, Fifo!FifoTypeOK, FifoStages
  <2>3. FifoSeqs' /\ "output" \notin fds' /\ parent' # "open_out"
    BY <1>12, EmptyNats DEF Fifo!Restart, FifoSeqs
  <2> QED
    BY <2>1, <2>2, <2>3 DEF FifoInv
<1>13. CASE UNCHANGED Fifo!fifoVars
  <2>1. ProcTypeOK' /\ Fifo!FifoTypeOK' /\ FifoStages'
    BY <1>13, <1>t DEF Fifo!fifoVars, Fifo!procVars, ProcTypeOK, Fifo!FifoTypeOK, FifoStages
  <2> QED
    BY <1>13, <1>k, <1>q, <2>1 DEF FifoInv, Fifo!fifoVars, Fifo!procVars
<1> QED
  BY <1>1, <1>2, <1>3, <1>4, <1>5, <1>6, <1>7, <1>8, <1>9, <1>10, <1>11, <1>12,
     <1>13 DEF Fifo!FifoNext, Fifo!MainStep, Fifo!PeerStep

LEMMA FifoInvKeeps == FifoInv => Fifo!FifoKeepsBytes
<1> SUFFICES ASSUME FifoInv PROVE Fifo!FifoKeepsBytes
  OBVIOUS
<1> USE DEF ParentEnded, Fifo!ParentEnded
<1>1. got \in Seq(Nat) /\ buffer \in Seq(Nat) /\ stream \in Seq(Nat) /\ written \in Nat
      /\ Len(got) \in Nat /\ Len(buffer) \in Nat /\ Len(stream) \in Nat
  BY DEF FifoInv, FifoSeqs, Fifo!FifoTypeOK
<1>2. ASSUME fds = {"input", "output"}, ~ParentEnded
      PROVE  got \o buffer \o stream = [k \in 1..written |-> k]
  <2>1. InOrder
    BY <1>2 DEF FifoInv
  <2> DEFINE g == got \o buffer
             w == g \o stream
  <2>2. /\ g \in Seq(Nat) /\ Len(g) = Len(got) + Len(buffer)
        /\ \A k \in 1..Len(g) : g[k] = IF k <= Len(got) THEN got[k] ELSE buffer[k - Len(got)]
    BY <1>1, ConcatProperties
  <2>3. \A k \in 1..Len(g) : g[k] = k
    <3>1. TAKE k \in 1..Len(g)
    <3>2. CASE k <= Len(got)
      BY <1>1, <2>1, <2>2, <3>2 DEF InOrder
    <3>3. CASE ~(k <= Len(got))
      <4>1. k - Len(got) \in 1..Len(buffer)
        BY <1>1, <2>2, <3>3
      <4> QED
        BY <1>1, <2>1, <2>2, <3>3, <4>1 DEF InOrder
    <3> QED
      BY <3>2, <3>3
  <2> HIDE DEF g
  <2>4. /\ w \in Seq(Nat) /\ Len(w) = written
        /\ \A k \in 1..Len(w) : w[k] = IF k <= Len(g) THEN g[k] ELSE stream[k - Len(g)]
    BY <1>1, <2>1, <2>2, ConcatProperties DEF InOrder
  <2>5. \A k \in 1..Len(w) : w[k] = k
    <3>1. TAKE k \in 1..Len(w)
    <3>2. CASE k <= Len(g)
      BY <1>1, <2>2, <2>3, <2>4, <3>2
    <3>3. CASE ~(k <= Len(g))
      <4>1. k - Len(g) \in 1..Len(stream)
        BY <1>1, <2>1, <2>2, <2>4, <3>3 DEF InOrder
      <4> QED
        BY <1>1, <2>1, <2>2, <2>4, <3>3, <4>1 DEF InOrder
    <3> QED
      BY <3>2, <3>3
  <2> HIDE DEF w
  <2>6. w = [k \in 1..written |-> k]
    BY <1>1, <2>4, <2>5
  <2> QED
    BY <2>6 DEF w, g
<1>3. ASSUME parent = "unlink_returned", "output" \in fds PROVE Len(got) = written
  <2>1. InOrder /\ Len(buffer) = 0 /\ Len(stream) = 0
    BY <1>3, EmptyNats DEF FifoInv, FifoStages
  <2> QED
    BY <1>1, <2>1 DEF InOrder
<1> QED
  BY <1>2, <1>3 DEF Fifo!FifoKeepsBytes

\* Which fifos there are: in.fifo is made first and both are removed at once, and
\* only a run that has found none gets past its first mkfifo.
FifoObjects ==
    /\ objects # {} => "in.fifo" \in objects
    /\ parent = "start" => objects = leftover
    /\ parent = "mkfifo_out" => objects = {"in.fifo"}
    /\ Fifo!LeftoverFifosStay
    /\ Fifo!FifoNothingLeft

LEMMA FifoObjectsInit == ProcInit /\ Fifo!FifoInit => FifoObjects
BY DEF ProcInit, Fifo!FifoInit, FifoObjects, Fifo!LeftoverFifosStay, Fifo!FifoNothingLeft

LEMMA FifoObjectsNext ==
    FifoInv /\ FifoObjects /\ [Fifo!FifoNext]_(Fifo!fifoVars) => FifoObjects'
<1> SUFFICES ASSUME FifoInv, FifoObjects, [Fifo!FifoNext]_(Fifo!fifoVars)
             PROVE  FifoObjects'
  OBVIOUS
<1> USE DEF FifoObjects, Fifo!LeftoverFifosStay, Fifo!FifoNothingLeft
<1>t. objects \subseteq {"in.fifo", "out.fifo"}
  BY DEF FifoInv, FifoStages
<1>1. CASE /\ Fifo!mkfifo("start", "in.fifo", "mkfifo_out")
           /\ UNCHANGED leftover
  BY <1>1, <1>t DEF Fifo!mkfifo
<1>2. CASE /\ Fifo!mkfifo("mkfifo_out", "out.fifo", "open_in")
           /\ UNCHANGED leftover
  BY <1>2, <1>t DEF Fifo!mkfifo
<1>3. CASE Fifo!CloseAndUnlink /\ UNCHANGED leftover
  <2>1. objects' = {} /\ parent' \in {"returned", "failed"}
    BY <1>3, <1>t DEF Fifo!CloseAndUnlink, Fifo!Unlinked
  <2>2. leftover = {}
    BY <1>3 DEF Fifo!CloseAndUnlink
  <2> QED
    BY <1>3, <2>1, <2>2
\* Main goes on from one call to the next.
<1>4. CASE /\ Fifo!OpenInput \/ Fifo!OpenOutput \/ Fifo!OpenFails \/ Fifo!Read
              \/ Fifo!ReadFails \/ Fifo!Write
           /\ UNCHANGED leftover
  <2>1. /\ parent \in {"open_in", "open_out", "read", "write"}
        /\ parent' \in {"open_out", "read", "write", "unlink_returned",
                        "unlink_failed", "killed"}
        /\ objects' = objects
    BY <1>4 DEF Fifo!OpenInput, Fifo!OpenOutput, Fifo!OpenFails, Fifo!Read,
                Fifo!ReadFails, Fifo!Write
  <2>2. leftover = {}
    BY <2>1
  <2> QED
    BY <1>4, <2>1, <2>2
<1>5. CASE /\ Fifo!PeerStep \/ Fifo!WriterWrites \/ Fifo!ReaderCloses
           /\ UNCHANGED leftover
  <2>1. parent' = parent /\ objects' = objects
    BY <1>5 DEF Fifo!PeerStep, Fifo!Arrive, Fifo!WriterCloses, Fifo!ReaderTakes,
                Fifo!WriterWrites, Fifo!ReaderCloses, Fifo!procVars
  <2> QED
    BY <1>5, <2>1
<1>6. CASE Fifo!Interrupt /\ UNCHANGED leftover
  BY <1>6 DEF Fifo!Interrupt, Fifo!ParentEnded
<1>7. CASE Fifo!Restart(<<>>) /\ leftover' = objects
  BY <1>7 DEF Fifo!Restart
<1>8. CASE UNCHANGED Fifo!fifoVars
  BY <1>8 DEF Fifo!fifoVars, Fifo!procVars
<1> QED
  BY <1>1, <1>2, <1>3, <1>4, <1>5, <1>6, <1>7, <1>8 DEF Fifo!FifoNext, Fifo!MainStep
-----------------------------------------------------------------------------
(***************************************************************************)
(* bash_commands                                                           *)
(***************************************************************************)
\* The descriptors left for pipes are enough for all commands.
Enough == Len(Bash!commands) + 2 <= limit

BashData ==
    /\ tokens \in Seq({"|", "word"})
    /\ limit \in Limits
    /\ stream \in Seq(Nat \X Nat) /\ made \in Seq(Nat \X Nat)

\* Where main is: a child exists only while main waits for it, and a command is
\* up from the pipe that is made for it until its end.
BashStages ==
    /\ parent = "wait" <=> child # "none"
    /\ parent = "start" => idx = 0
    /\ parent \in {"fork", "wait"} => idx < Len(Bash!commands)
    /\ parent \in {"start", "pipe", "fork"} => made = <<>>

\* Every command has cost one descriptor, and two are in use for its own pipe,
\* which holds what it has written.
BashPipes ==
    /\ writable => used >= 2
    /\ Enough /\ parent = "pipe" /\ idx < Len(Bash!commands) =>
           used = idx + 2 /\ (idx > 0 => input = prev)
    /\ Enough /\ parent \in {"fork", "wait"} /\ idx + 4 <= limit =>
           used = idx + 4 /\ writable /\ stream = made
    /\ Enough /\ (parent = "fork" \/ child = "execvp") /\ idx > 0 => input = prev

BashInv == ProcTypeOK /\ Bash!PipelineTypeOK /\ BashData /\ BashStages /\ BashPipes

\* The number of commands is that of the places where one ends.
LEMMA CommandsAre ==
    ASSUME tokens \in Seq({"|", "word"})
    PROVE  Len(Bash!commands) \in Nat
<1> DEFINE n == Cardinality(Bash!CommandEnds(tokens))
<1>1. n \in Nat
  <2>1. Len(tokens) \in Nat
    OBVIOUS
  <2>2. IsFiniteSet(1..(Len(tokens) + 1))
    BY <2>1, FS_Interval
  <2>3. Bash!CommandEnds(tokens) \subseteq 1..(Len(tokens) + 1)
    BY <2>1 DEF Bash!CommandEnds
  <2> QED
    BY <2>2, <2>3, FS_Subset, FS_CardinalityType
<1>2. DOMAIN Bash!commands = 1..n /\ Bash!commands = [k \in 1..n |-> Bash!commands[k]]
  <2> DEFINE ends == Bash!CommandEnds(tokens)
             end(k) == CHOOSE e \in ends : Cardinality({f \in ends : f <= e}) = k
             length(k) == end(k) - (IF k = 1 THEN 0 ELSE end(k - 1)) - 1
  <2>1. Bash!commands = [k \in 1..n |-> length(k)]
    BY DEF Bash!commands, Bash!Cardinality, Cardinality, Bash!IsFiniteSet, IsFiniteSet
  <2> HIDE DEF length, n
  <2> QED
    BY <2>1
<1> HIDE DEF n
<1> DEFINE S == {Bash!commands[k] : k \in 1..n}
<1>3. Bash!commands \in [1..n -> S]
  BY <1>2
<1>4. Bash!commands \in Seq(S)
  BY <1>1, <1>3
<1> HIDE DEF S
<1> QED
  BY <1>4, LenProperties

LEMMA EmptyUnits == <<>> \in Seq(Nat \X Nat) /\ Len(<<>>) = 0
BY EmptySeq

LEMMA BashInvInit == ProcInit /\ Bash!PipelineInit => BashInv
<1> SUFFICES ASSUME ProcInit, Bash!PipelineInit PROVE BashInv
  OBVIOUS
<1>1. BashData
  <2>1. PICK n \in 0..MaxTokens : tokens \in [1..n -> {"|", "word"}]
    BY DEF Bash!PipelineInit
  <2>2. n \in Nat
    BY ProgramsAssumption
  <2>3. tokens \in Seq({"|", "word"})
    BY <2>1, <2>2
  <2> QED
    BY <2>3, EmptyUnits DEF ProcInit, Bash!PipelineInit, BashData
<1>2. Len(Bash!commands) \in Nat /\ limit \in Nat
  BY <1>1, CommandsAre, ProgramsAssumption DEF BashData
<1>3. Bash!PipelineTypeOK
  <2>1. 0 \in 0..Len(Bash!commands) /\ 0 \in 0..limit /\ 0 \in 0..MaxOutput /\ 0 <= PipeSize
    BY <1>2, ProgramsAssumption
  <2> QED
    BY <2>1, EmptyUnits DEF ProcInit, Bash!PipelineInit, Bash!PipelineTypeOK
<1>4. BashStages /\ BashPipes
  BY DEF ProcInit, Bash!PipelineInit, BashStages, BashPipes
<1> QED
  BY <1>1, <1>3, <1>4, ProcTypeInit DEF BashInv

LEMMA BashInvNext == BashInv /\ [Bash!PipelineNext]_(Bash!bashVars) => BashInv'
<1> SUFFICES ASSUME BashInv, [Bash!PipelineNext]_(Bash!bashVars) PROVE BashInv'
  OBVIOUS
<1>t. /\ ProcTypeOK /\ objects \subseteq {"queue", "in.fifo", "out.fifo"}
      /\ status \in Statuses /\ sent \in BOOLEAN /\ run \in 1..MaxRuns
      /\ Bash!PipelineTypeOK /\ BashData /\ BashStages /\ BashPipes
  BY ProcTypeNow DEF BashInv
<1>l. /\ Len(Bash!commands) \in Nat /\ limit \in Nat /\ limit >= 4
      /\ PipeSize \in Nat /\ MaxOutput \in Nat
      /\ idx \in Nat /\ used \in Nat /\ used <= limit /\ idx <= Len(Bash!commands)
  BY <1>t, CommandsAre, ProgramsAssumption DEF BashData, Bash!PipelineTypeOK
<1>c. /\ tokens' = tokens /\ limit' = limit /\ Bash!commands' = Bash!commands
      /\ Enough' <=> Enough
  <2>1. tokens' = tokens /\ limit' = limit
    BY DEF Bash!PipelineNext, Bash!ParentStep, Bash!ChildStep, Bash!FirstPipe, Bash!pipe,
           Bash!LoopEnds, Bash!fork, Bash!wait, Bash!execvp, Bash!execvpFails,
           Bash!CommandReads, Bash!CommandWrites, Bash!CommandExits, Bash!bashVars
  <2>2. Bash!commands' = Bash!commands
    BY <2>1 DEF Bash!commands
  <2> QED
    BY <2>1, <2>2 DEF Enough
\* A step that leaves the channel and the output alone.
<1>q. ASSUME stream' = stream, made' = made
      PROVE  BashData' /\ Len(stream') <= PipeSize
  BY <1>c, <1>q, <1>t DEF BashData, Bash!PipelineTypeOK
<1>1. CASE Bash!FirstPipe
  <2>0. idx = 0 /\ child = "none" /\ made = <<>> /\ parent = "start"
    BY <1>1, <1>t DEF BashStages, Bash!FirstPipe
  <2>1. ProcTypeOK'
    BY <1>1, <1>t, ProcTypeKept DEF Bash!FirstPipe
  <2>2. Bash!PipelineTypeOK'
    BY <1>1, <1>t, <1>l, <1>c, <1>q DEF Bash!FirstPipe, Bash!PipelineTypeOK
  <2>3. BashStages'
    BY <1>1, <1>c, <2>0 DEF Bash!FirstPipe, BashStages
  <2>4. BashPipes'
    BY <1>1, <1>c, <2>0 DEF Bash!FirstPipe, BashPipes
  <2> QED
    BY <1>1, <1>q, <2>1, <2>2, <2>3, <2>4 DEF BashInv, Bash!FirstPipe
<1>2. CASE Bash!pipe
  <2>0. /\ parent = "pipe" /\ parent' = "fork" /\ child = "none" /\ child' = child
        /\ made = <<>> /\ made' = made /\ idx < Len(Bash!commands) /\ idx' = idx
        /\ input' = input /\ prev' = prev /\ todo' = todo
    BY <1>2, <1>t DEF BashStages, Bash!pipe
  <2>1. ProcTypeOK'
    BY <1>2, <1>t, ProcTypeKept DEF Bash!pipe
  <2>2. BashStages'
    BY <1>c, <2>0 DEF BashStages
  <2>3. CASE /\ used + 2 <= limit /\ used' = used + 2 /\ writable' = TRUE
             /\ stream' = <<>>
    <3>1. BashData' /\ Len(stream') <= PipeSize
      BY <1>c, <1>l, <1>t, <2>0, <2>3, EmptyUnits DEF BashData
    <3>2. used' \in 0..limit /\ used' >= 2
      BY <1>l, <2>3
    <3>3. Bash!PipelineTypeOK'
      BY <1>c, <1>t, <2>0, <2>3, <3>1, <3>2 DEF Bash!PipelineTypeOK
    <3>4. ASSUME Enough PROVE used' = idx + 4 /\ (idx > 0 => input = prev)
      BY <1>t, <1>l, <2>0, <2>3, <3>4 DEF BashPipes
    <3>5. BashPipes'
      BY <1>c, <2>0, <2>3, <3>2, <3>4 DEF BashPipes
    <3> QED
      BY <2>1, <2>2, <3>1, <3>3, <3>5 DEF BashInv
  <2>4. CASE /\ ~(used + 2 <= limit) /\ used' = used /\ writable' = writable
             /\ stream' = stream
    <3>1. Bash!PipelineTypeOK'
      BY <1>c, <1>t, <1>q, <2>0, <2>4 DEF Bash!PipelineTypeOK
    <3>2. ASSUME Enough PROVE ~(idx + 4 <= limit) /\ (idx > 0 => input = prev)
      <4>1. used = idx + 2 /\ (idx > 0 => input = prev)
        BY <1>t, <2>0, <3>2 DEF BashPipes
      <4> QED
        BY <1>l, <2>4, <4>1
    <3>3. BashPipes'
      BY <1>c, <1>t, <2>0, <2>4, <3>2 DEF BashPipes
    <3> QED
      BY <1>q, <2>0, <2>1, <2>2, <2>4, <3>1, <3>3 DEF BashInv
  <2> QED
    BY <1>2, <2>3, <2>4 DEF Bash!pipe
<1>3. CASE Bash!LoopEnds
  <2>1. ProcTypeOK'
    BY <1>3, <1>t, ProcTypeKept DEF Bash!LoopEnds
  <2>2. Bash!PipelineTypeOK'
    BY <1>3, <1>t, <1>c, <1>q DEF Bash!LoopEnds, Bash!PipelineTypeOK
  <2>3. BashStages' /\ BashPipes'
    BY <1>3, <1>t, <1>c DEF Bash!LoopEnds, BashStages, BashPipes
  <2> QED
    BY <1>3, <1>q, <2>1, <2>2, <2>3 DEF BashInv, Bash!LoopEnds
<1>4. CASE Bash!fork
  <2>0. /\ parent = "fork" /\ child = "none"
        /\ \/ parent' = "wait" /\ child' = "execvp"
           \/ parent' = "fork_failed" /\ child' = child
        /\ UNCHANGED <<status, objects, stream, sent, got, run, idx, used, writable,
                       input, prev, made, todo>>
    BY <1>4, <1>t DEF Bash!fork, Bash!Fork, Bash!ForkFails, BashStages
  <2>1. ProcTypeOK'
    BY <1>t, <2>0, ProcTypeKept
  <2>2. Bash!PipelineTypeOK'
    BY <1>t, <1>c, <1>q, <2>0 DEF Bash!PipelineTypeOK
  <2>3. BashStages' /\ BashPipes'
    BY <1>t, <1>c, <2>0 DEF BashStages, BashPipes
  <2> QED
    BY <1>q, <2>0, <2>1, <2>2, <2>3 DEF BashInv
<1>5. CASE Bash!execvp \/ Bash!CommandReads
  <2>0. /\ child \in {"execvp", "command"} /\ child' = "command" /\ parent' = parent
        /\ parent = "wait"
        /\ todo' \in 0..MaxOutput
        /\ UNCHANGED <<status, objects, stream, sent, got, run, idx, used, writable,
                       prev, made>>
    BY <1>5, <1>t DEF Bash!execvp, Bash!CommandReads, BashStages, Bash!PipelineTypeOK
  <2>1. ProcTypeOK'
    BY <1>t, <2>0, ProcTypeKept
  <2>2. Bash!PipelineTypeOK'
    BY <1>t, <1>c, <1>q, <2>0 DEF Bash!PipelineTypeOK
  <2>3. BashStages' /\ BashPipes'
    BY <1>t, <1>c, <2>0 DEF BashStages, BashPipes
  <2> QED
    BY <1>q, <2>0, <2>1, <2>2, <2>3 DEF BashInv
<1>6. CASE Bash!execvpFails \/ Bash!CommandExits
  <2>0. /\ child \in {"execvp", "command"} /\ child' = "ended" /\ parent' = parent
        /\ parent = "wait" /\ status' = 256 * 0
        /\ UNCHANGED <<objects, stream, sent, got, run, idx, used, writable, input,
                       prev, made, todo>>
    BY <1>6, <1>t DEF Bash!execvpFails, Bash!CommandExits, Bash!ChildEnds, Bash!ExitStatus,
                      BashStages
  <2>1. status' \in Statuses \ {-1}
    BY <2>0 DEF Statuses
  <2>2. ProcTypeOK'
    BY <1>t, <2>0, <2>1, ProcTypeEnds
  <2>3. Bash!PipelineTypeOK'
    BY <1>t, <1>c, <1>q, <2>0 DEF Bash!PipelineTypeOK
  <2>4. BashStages' /\ BashPipes'
    BY <1>t, <1>c, <2>0 DEF BashStages, BashPipes
  <2> QED
    BY <1>q, <2>0, <2>2, <2>3, <2>4 DEF BashInv
\* What a command writes goes into its pipe and counts as its output, or neither.
<1>7. CASE Bash!CommandWrites
  <2>0. /\ child = "command" /\ child' = child /\ parent' = parent /\ parent = "wait"
        /\ todo > 0 /\ todo' = todo - 1
        /\ UNCHANGED <<status, objects, sent, got, run, idx, used, writable, input, prev>>
    BY <1>7, <1>t DEF Bash!CommandWrites, BashStages
  <2>1. ProcTypeOK'
    BY <1>t, <2>0, ProcTypeKept
  <2>2. todo' \in 0..MaxOutput
    BY <1>t, <1>l, <2>0 DEF Bash!PipelineTypeOK
  <2>3. BashStages'
    BY <1>t, <1>c, <2>0 DEF BashStages
  <2>4. CASE stream' = stream /\ made' = made
    <3>1. Bash!PipelineTypeOK'
      BY <1>t, <1>c, <1>q, <2>0, <2>2, <2>4 DEF Bash!PipelineTypeOK
    <3>2. BashPipes'
      BY <1>t, <1>c, <2>0, <2>4 DEF BashPipes
    <3> QED
      BY <1>q, <2>1, <2>3, <2>4, <3>1, <3>2 DEF BashInv
  <2>5. CASE /\ Len(stream) < PipeSize
             /\ stream' = Append(stream, Bash!Unit) /\ made' = Append(made, Bash!Unit)
    <3>1. Bash!Unit \in Nat \X Nat
      <4>1. Len(made) \in Nat
        BY <1>t DEF BashData
      <4> QED
        BY <1>l, <4>1 DEF Bash!Unit
    <3>2. stream \in Seq(Nat \X Nat) /\ made \in Seq(Nat \X Nat) /\ Len(stream) \in Nat
      BY <1>t DEF BashData
    <3>3. stream' \in Seq(Nat \X Nat) /\ made' \in Seq(Nat \X Nat)
          /\ Len(stream') = Len(stream) + 1
      BY <2>5, <3>1, <3>2, AppendProperties
    <3>4. BashData' /\ Len(stream') <= PipeSize
      BY <1>c, <1>l, <1>t, <2>5, <3>2, <3>3 DEF BashData
    <3>5. Bash!PipelineTypeOK'
      BY <1>t, <1>c, <2>0, <2>2, <3>4 DEF Bash!PipelineTypeOK
    <3>6. BashPipes'
      BY <1>t, <1>c, <2>0, <2>5 DEF BashPipes
    <3> QED
      BY <2>1, <2>3, <3>4, <3>5, <3>6 DEF BashInv
  <2> QED
    BY <1>7, <2>4, <2>5 DEF Bash!CommandWrites
\* What is in the pipe is what the next command gets.
<1>8. CASE Bash!wait
  <2>0. /\ parent = "wait" /\ parent' = "pipe" /\ child' = "none" /\ status' = -1
        /\ writable' = FALSE /\ idx' = idx + 1 /\ prev' = made /\ made' = <<>>
        /\ stream' = stream /\ input' = (IF writable THEN stream ELSE input)
        /\ used' = (IF writable THEN used - 1 ELSE used)
        /\ UNCHANGED <<objects, sent, got, run, todo>>
    BY <1>8 DEF Bash!wait, Bash!NextInput, Bash!Running
  <2>1. ProcTypeOK'
    <3>1. -1 \in Statuses
      BY DEF Statuses
    <3> QED
      BY <1>t, <2>0, <3>1, ProcTypeNext
  <2>2. idx < Len(Bash!commands)
    BY <1>t, <2>0 DEF BashStages
  <2>3. idx' \in 0..Len(Bash!commands)
    BY <1>l, <2>0, <2>2
  <2>4. used' \in 0..limit
    <3>1. writable => used >= 2
      BY <1>t DEF BashPipes
    <3>2. CASE writable
      BY <1>l, <2>0, <3>1, <3>2
    <3>3. CASE ~writable
      BY <1>l, <2>0, <3>3
    <3> QED
      BY <3>2, <3>3
  <2>5. BashData' /\ Len(stream') <= PipeSize
    BY <1>c, <1>t, <2>0, EmptyUnits DEF BashData, Bash!PipelineTypeOK
  <2>6. Bash!PipelineTypeOK'
    BY <1>c, <1>t, <2>0, <2>3, <2>4, <2>5 DEF Bash!PipelineTypeOK
  <2>7. BashStages'
    BY <2>0 DEF BashStages
  <2>8. ASSUME Enough, idx' < Len(Bash!commands) PROVE used' = idx' + 2 /\ input' = prev'
    <3>1. idx + 4 <= limit
      BY <1>l, <2>0, <2>8 DEF Enough
    <3>2. used = idx + 4 /\ writable /\ stream = made
      BY <1>t, <2>0, <2>8, <3>1 DEF BashPipes
    <3>3. used' = used - 1 /\ input' = stream
      BY <2>0, <3>2
    <3>4. used' = idx' + 2
      BY <1>l, <2>0, <3>2, <3>3
    <3> QED
      BY <2>0, <3>2, <3>3, <3>4
  <2>9. BashPipes'
    BY <1>c, <2>0, <2>8 DEF BashPipes
  <2> QED
    BY <2>1, <2>5, <2>6, <2>7, <2>9 DEF BashInv
<1>9. CASE UNCHANGED Bash!bashVars
  <2>1. ProcTypeOK' /\ Bash!PipelineTypeOK'
    BY <1>9, <1>t, <1>c DEF Bash!bashVars, Bash!procVars, ProcTypeOK, Bash!PipelineTypeOK
  <2>2. BashStages' /\ BashPipes'
    BY <1>9, <1>t, <1>c DEF Bash!bashVars, Bash!procVars, BashStages, BashPipes
  <2> QED
    BY <1>9, <1>q, <2>1, <2>2 DEF BashInv, Bash!bashVars, Bash!procVars
<1> QED
  BY <1>1, <1>2, <1>3, <1>4, <1>5, <1>6, <1>7, <1>8, <1>9
     DEF Bash!PipelineNext, Bash!ParentStep, Bash!ChildStep

LEMMA BashInvKeeps == BashInv => Bash!PipelineKeepsData
BY DEF BashInv, BashPipes, Enough, Bash!PipelineKeepsData
-----------------------------------------------------------------------------
(***************************************************************************)
(* The TCP server                                                          *)
(***************************************************************************)
\* The start-up: one descriptor at most, and an address left while one is tried.
TcpSetupInv ==
    /\ stage \in {"getaddrinfo", "socket", "setsockopt", "bind", "found",
                  "queue", "listen", "sigaction", "serve", "failed"}
    /\ left \in 0..MaxAddrs
    /\ stage \in {"socket", "setsockopt", "bind"} => left > 0
    /\ socket_fd \in {-1, 0}
    /\ DOMAIN files \subseteq {0}
    /\ files \in [DOMAIN files -> Tcp!Setup!Kinds]
    /\ stage \in {"getaddrinfo", "socket"} => DOMAIN files = {}
    /\ stage \in {"setsockopt", "bind"} => socket_fd = 0 /\ DOMAIN files = {0}

LEMMA TcpFirstFree ==
    ASSUME DOMAIN files = {}
    PROVE  Tcp!Setup!LowestFree = 0
<1> DEFINE P(fd) == fd \notin DOMAIN files /\ \A g \in 0..(fd - 1) : g \in DOMAIN files
<1>1. 0 \in 0..2 /\ P(0)
  OBVIOUS
<1>2. \A fd \in 0..2 : P(fd) => fd = 0
  OBVIOUS
<1>3. Tcp!Setup!LowestFree = CHOOSE fd \in 0..2 : P(fd)
  BY DEF Tcp!Setup!LowestFree
<1> QED
  BY <1>1, <1>2, <1>3

LEMMA TcpSetupInit == Tcp!Setup!SetupInit => TcpSetupInv
BY ProgramsAssumption DEF TcpSetupInv, Tcp!Setup!SetupInit, Tcp!Setup!ERROR

LEMMA TcpSetupNext == TcpSetupInv /\ Tcp!StartUp => TcpSetupInv'
<1> SUFFICES ASSUME TcpSetupInv, Tcp!StartUp PROVE TcpSetupInv'
  OBVIOUS
<1> USE ProgramsAssumption DEF TcpSetupInv, Tcp!Setup!ERROR
<1>1. CASE Tcp!initialize_address
  <2>1. /\ stage = "getaddrinfo" /\ socket_fd' = socket_fd /\ files' = files
        /\ \/ stage' = "socket" /\ left' \in 1..MaxAddrs
           \/ stage' = "failed" /\ left' = left
    BY <1>1 DEF Tcp!initialize_address, Tcp!Setup!Fail
  <2>2. left' \in 0..MaxAddrs /\ (stage' = "socket" => left' > 0)
    BY <2>1
  <2> QED
    BY <2>1, <2>2
<1>2. CASE Tcp!Setup!OpenSocket
  <2>1. stage = "socket" /\ DOMAIN files = {}
    BY <1>2 DEF Tcp!Setup!OpenSocket
  <2>2. Tcp!Setup!LowestFree = 0
    BY <2>1, TcpFirstFree
  <2>3. CASE /\ socket_fd' = 0 /\ files' = Tcp!Setup!Opened(0, "socket")
             /\ stage' = "setsockopt" /\ left' = left
    <3>1. files' = [g \in {0} |-> "socket"]
      BY <2>1, <2>3 DEF Tcp!Setup!Opened
    <3> QED
      BY <2>1, <2>3, <3>1 DEF Tcp!Setup!Kinds
  <2>4. CASE socket_fd' = Tcp!Setup!ERROR /\ Tcp!Setup!Continue /\ files' = files
    BY <2>1, <2>4 DEF Tcp!Setup!Continue
  <2> QED
    BY <1>2, <2>2, <2>3, <2>4 DEF Tcp!Setup!OpenSocket
<1>3. CASE Tcp!Setup!SetSockOpt
  BY <1>3 DEF Tcp!Setup!SetSockOpt, Tcp!Setup!Fail
<1>4. CASE Tcp!Setup!Bind
  <2>1. stage = "bind" /\ DOMAIN files = {0} /\ socket_fd = 0 /\ socket_fd' = 0
    BY <1>4 DEF Tcp!Setup!Bind
  <2>2. CASE /\ files' = [files EXCEPT ![socket_fd] = "bound"]
             /\ stage' = "found" /\ left' = left
    <3>1. DOMAIN files' = {0} /\ files' \in [{0} -> Tcp!Setup!Kinds]
      BY <2>1, <2>2 DEF Tcp!Setup!Kinds
    <3> QED
      BY <2>1, <2>2, <3>1
  <2>3. CASE files' = Tcp!Setup!UnboundClosed /\ Tcp!Setup!Continue
    <3>1. DOMAIN files' = {} /\ files' \in [{} -> Tcp!Setup!Kinds]
      BY <2>1, <2>3 DEF Tcp!Setup!UnboundClosed
    <3> QED
      BY <2>1, <2>3, <3>1 DEF Tcp!Setup!Continue
  <2> QED
    BY <1>4, <2>2, <2>3 DEF Tcp!Setup!Bind
<1>5. CASE Tcp!Setup!Found
  BY <1>5 DEF Tcp!Setup!Found, Tcp!Setup!Fail
<1>6. CASE Tcp!listen
  <2>1. CASE socket_fd \in DOMAIN files /\ files' = [files EXCEPT ![socket_fd] = "listening"]
    <3>1. DOMAIN files' = DOMAIN files /\ files' \in [DOMAIN files -> Tcp!Setup!Kinds]
      BY <2>1 DEF Tcp!Setup!Kinds
    <3> QED
      BY <1>6, <2>1, <3>1 DEF Tcp!listen
  <2>2. CASE files' = files
    BY <1>6, <2>2 DEF Tcp!listen
  <2> QED
    BY <1>6, <2>1, <2>2 DEF Tcp!listen
<1>7. CASE Tcp!reset_sigaction
  BY <1>7 DEF Tcp!reset_sigaction
<1> QED
  BY <1>1, <1>2, <1>3, <1>4, <1>5, <1>6, <1>7 DEF Tcp!StartUp, Tcp!get_socket_fd

\* What main and its processes hold.
TcpData ==
    /\ pc \in {"accept", "report_accept", "fork", "report_fork", "close"}
    /\ copy \subseteq Clients
    /\ backlog \in Seq(Clients)
    /\ conn \in [Clients -> {"new", "queued", "accepted"}]
    /\ process \in [Clients -> {"none", "send", "exit", "zombie", "reaped"}]
    /\ DOMAIN holders = Clients
    /\ \A c \in Clients : holders[c] \subseteq {Tcp!Server, c}

\* The error to be reported is in errno, or saved by the handler that runs.
TcpErrno ==
    /\ handler \in {"none", "waitpid", "restore"}
    /\ errno \in {"none", "accept", "fork", "waitpid"}
    /\ saved_errno \in {"none", "accept", "fork", "waitpid"}
    /\ pc = "report_accept" => (IF handler = "none" THEN errno ELSE saved_errno) = "accept"
    /\ pc = "report_fork" => (IF handler = "none" THEN errno ELSE saved_errno) = "fork"

TcpInv == TcpSetupInv /\ TcpData /\ TcpErrno

LEMMA TcpInvInit == Tcp!TcpInit => TcpInv
<1> SUFFICES ASSUME Tcp!TcpInit PROVE TcpInv
  OBVIOUS
<1>1. TcpSetupInv
  BY TcpSetupInit DEF Tcp!TcpInit
<1>2. TcpData
  BY EmptySeq DEF Tcp!TcpInit, TcpData
<1>3. TcpErrno
  BY DEF Tcp!TcpInit, TcpErrno
<1> QED
  BY <1>1, <1>2, <1>3 DEF TcpInv

LEMMA TcpInvNext == TcpInv /\ [Tcp!TcpNext]_(Tcp!tcpVars) => TcpInv'
<1> SUFFICES ASSUME TcpInv, [Tcp!TcpNext]_(Tcp!tcpVars) PROVE TcpInv'
  OBVIOUS
<1> USE DEF Tcp!startVars, Tcp!clientVars, Tcp!handlerVars, Tcp!At
<1>s. ASSUME UNCHANGED Tcp!startVars PROVE TcpSetupInv'
  BY <1>s DEF TcpInv, TcpSetupInv
<1>d. ASSUME UNCHANGED <<pc, copy, Tcp!clientVars, holders, process>> PROVE TcpData'
  BY <1>d DEF TcpInv, TcpData
<1>e. ASSUME UNCHANGED <<handler, errno, saved_errno>>,
             pc' \in {"accept", "fork", "close"} \/ pc' = pc
      PROVE  TcpErrno'
  BY <1>e DEF TcpInv, TcpErrno
<1>1. CASE Tcp!StartUp
  <2>1. TcpData' /\ TcpErrno'
    BY <1>1, <1>d, <1>e DEF Tcp!StartUp
  <2> QED
    BY <1>1, <2>1, TcpSetupNext DEF TcpInv
<1>2. CASE Tcp!accept
  <2>1. TcpSetupInv' /\ TcpErrno'
    BY <1>2, <1>s, <1>e DEF Tcp!accept
  <2>2. Head(backlog) \in Clients /\ Tail(backlog) \in Seq(Clients)
    BY <1>2, HeadTailProperties DEF Tcp!accept, TcpInv, TcpData
  <2>3. TcpData'
    BY <1>2, <2>2 DEF Tcp!accept, TcpInv, TcpData
  <2> QED
    BY <2>1, <2>3 DEF TcpInv
<1>3. CASE Tcp!acceptFails
  <2>1. TcpSetupInv'
    BY <1>3, <1>s DEF Tcp!acceptFails
  <2>2. TcpData' /\ TcpErrno'
    BY <1>3 DEF Tcp!acceptFails, TcpInv, TcpData, TcpErrno
  <2> QED
    BY <2>1, <2>2 DEF TcpInv
<1>4. CASE Tcp!report
  <2>1. TcpSetupInv' /\ TcpErrno'
    BY <1>4, <1>s, <1>e DEF Tcp!report
  <2>2. TcpData'
    BY <1>4 DEF Tcp!report, TcpInv, TcpData
  <2> QED
    BY <2>1, <2>2 DEF TcpInv
<1>5. CASE Tcp!fork
  <2>1. TcpSetupInv' /\ TcpErrno'
    BY <1>5, <1>s, <1>e DEF Tcp!fork
  <2>2. TcpData'
    BY <1>5 DEF Tcp!fork, TcpInv, TcpData
  <2> QED
    BY <2>1, <2>2 DEF TcpInv
<1>6. CASE Tcp!forkFails
  <2>1. TcpSetupInv'
    BY <1>6, <1>s DEF Tcp!forkFails
  <2>2. TcpData' /\ TcpErrno'
    BY <1>6 DEF Tcp!forkFails, TcpInv, TcpData, TcpErrno
  <2> QED
    BY <2>1, <2>2 DEF TcpInv
<1>7. CASE Tcp!close
  <2>1. TcpSetupInv' /\ TcpErrno'
    BY <1>7, <1>s, <1>e DEF Tcp!close
  <2>2. TcpData'
    BY <1>7 DEF Tcp!close, Tcp!MainCloses, TcpInv, TcpData
  <2> QED
    BY <2>1, <2>2 DEF TcpInv
<1>8. ASSUME NEW c \in Clients, Tcp!ProcessStep(c) PROVE TcpInv'
  <2>1. TcpSetupInv' /\ TcpErrno'
    BY <1>8, <1>s, <1>e DEF Tcp!ProcessStep, Tcp!Send, Tcp!Exit, Tcp!Exits
  <2>2. TcpData'
    BY <1>8 DEF Tcp!ProcessStep, Tcp!Send, Tcp!Exit, Tcp!Exits, TcpInv, TcpData
  <2> QED
    BY <2>1, <2>2 DEF TcpInv
\* The handler saves what main has to report, and puts it back.
<1>9. CASE Tcp!EnterHandler
  <2>1. TcpSetupInv' /\ TcpData'
    BY <1>9, <1>s, <1>d DEF Tcp!EnterHandler
  <2>2. TcpErrno'
    BY <1>9 DEF Tcp!EnterHandler, TcpInv, TcpErrno
  <2> QED
    BY <2>1, <2>2 DEF TcpInv
<1>10. CASE Tcp!waitpid
  <2>1. TcpSetupInv'
    BY <1>10, <1>s DEF Tcp!waitpid
  <2>2. TcpData'
    BY <1>10 DEF Tcp!waitpid, TcpInv, TcpData
  <2>3. TcpErrno'
    BY <1>10 DEF Tcp!waitpid, Tcp!AfterReap, TcpInv, TcpErrno
  <2> QED
    BY <2>1, <2>2, <2>3 DEF TcpInv
<1>11. CASE Tcp!LeaveHandler
  <2>1. TcpSetupInv' /\ TcpData'
    BY <1>11, <1>s, <1>d DEF Tcp!LeaveHandler
  <2>2. TcpErrno'
    BY <1>11 DEF Tcp!LeaveHandler, Tcp!Restored, TcpInv, TcpErrno
  <2> QED
    BY <2>1, <2>2 DEF TcpInv
<1>12. CASE Tcp!ClientStep
  <2>1. TcpSetupInv' /\ TcpErrno'
    BY <1>12, <1>s, <1>e DEF Tcp!ClientStep
  <2>2. TcpData'
    BY <1>12, AppendProperties DEF Tcp!ClientStep, TcpInv, TcpData
  <2> QED
    BY <2>1, <2>2 DEF TcpInv
<1>13. CASE UNCHANGED Tcp!tcpVars
  BY <1>13, <1>s, <1>d, <1>e DEF Tcp!tcpVars, TcpInv
<1> QED
  BY <1>1, <1>2, <1>3, <1>4, <1>5, <1>6, <1>7, <1>8, <1>9, <1>10, <1>11, <1>12, <1>13
     DEF Tcp!TcpNext, Tcp!MainStep, Tcp!HandlerStep

LEMMA TcpInvKeeps == TcpInv => Tcp!TcpTypeOK /\ Tcp!ErrnoKept
<1> SUFFICES ASSUME TcpInv PROVE Tcp!TcpTypeOK /\ Tcp!ErrnoKept
  OBVIOUS
<1>1. Tcp!Setup!SetupTypeOK \/ stage = "sigaction"
  BY DEF TcpInv, TcpSetupInv, Tcp!Setup!SetupTypeOK, Tcp!Setup!ERROR
<1>2. Tcp!TcpTypeOK
  BY <1>1 DEF TcpInv, TcpData, TcpErrno, Tcp!TcpTypeOK
<1>3. Tcp!ErrnoKept
  BY DEF TcpInv, TcpErrno, Tcp!ErrnoKept
<1> QED
  BY <1>2, <1>3
-----------------------------------------------------------------------------
(***************************************************************************)
(* All programs                                                            *)
(***************************************************************************)
UnixInv ==
    /\ program \in Programs
    /\ ProcTypeOK
    /\ program = "socketpair" => PairInv
    /\ program = "sysv_msg_queue" => SysvInv /\ SysvMessages
    /\ program = "posix_msg_queue" => MqInv
    /\ program = "simple_fork" => SimpleInv
    /\ program = "fifo_channel" => FifoInv /\ FifoObjects
    /\ program = "bash_commands" => BashInv
    /\ program = "tcp_server" => TcpInv

LEMMA UnixInvInit == Init => UnixInv
BY ProcTypeInit, PairInvInit, SysvInvInit, SysvMessagesInit, MqInvInit,
   SimpleInvInit, FifoInvInit, FifoObjectsInit, BashInvInit, TcpInvInit DEF Init, UnixInv

\* Only the program that was chosen takes steps.
LEMMA ProgramSteps ==
    [Next]_allVars =>
        /\ program' = program
        /\ program = "socketpair" => [Pair!PairNext]_(Pair!pairVars)
        /\ program = "sysv_msg_queue" => [Sysv!SysvNext]_(Sysv!sysvVars)
        /\ program = "posix_msg_queue" => [Mq!MqNext]_(Mq!procVars)
        /\ program = "simple_fork" => [Simple!SimpleNext]_(Simple!forkVars)
        /\ program = "fifo_channel" => [Fifo!FifoNext]_(Fifo!fifoVars)
        /\ program = "bash_commands" => [Bash!PipelineNext]_(Bash!bashVars)
        /\ program = "tcp_server" => [Tcp!TcpNext]_(Tcp!tcpVars)
        /\ program \notin {"socketpair", "sysv_msg_queue", "posix_msg_queue",
                           "simple_fork", "fifo_channel", "bash_commands"} =>
               UNCHANGED procVars
<1>1. CASE PairRuns(Pair!PairNext)
  BY <1>1 DEF PairRuns
<1>2. CASE SysvRuns(Sysv!SysvNext)
  BY <1>2 DEF SysvRuns
<1>3. CASE MqRuns(Mq!MqNext)
  BY <1>3 DEF MqRuns
<1>4. CASE SimpleRuns(Simple!SimpleNext)
  BY <1>4 DEF SimpleRuns
<1>5. CASE FifoRuns(Fifo!FifoNext)
  BY <1>5 DEF FifoRuns
<1>6. CASE BashRuns(Bash!PipelineNext)
  BY <1>6 DEF BashRuns
<1>7. CASE TcpRuns(Tcp!TcpNext)
  BY <1>7 DEF TcpRuns
<1>8. CASE UNCHANGED allVars
  BY <1>8 DEF allVars, procVars, sysvOnly, fifoOnly, bashOnly, tcpOnly,
              Pair!pairVars, Pair!procVars, Sysv!sysvVars, Sysv!procVars, Mq!procVars,
              Simple!forkVars, Simple!procVars, Fifo!fifoVars, Fifo!procVars,
              Bash!bashVars, Bash!procVars, Tcp!tcpVars, Tcp!startVars,
              Tcp!clientVars, Tcp!handlerVars
<1> QED
  BY <1>1, <1>2, <1>3, <1>4, <1>5, <1>6, <1>7, <1>8 DEF Next

LEMMA UnixInvNext == UnixInv /\ [Next]_allVars => UnixInv'
<1> SUFFICES ASSUME UnixInv, [Next]_allVars PROVE UnixInv'
  OBVIOUS
<1>1. /\ program' = program /\ program' \in Programs
      /\ program = "socketpair" => PairInv'
      /\ program = "sysv_msg_queue" => SysvInv' /\ SysvMessages'
      /\ program = "posix_msg_queue" => MqInv'
      /\ program = "simple_fork" => SimpleInv'
      /\ program = "fifo_channel" => FifoInv' /\ FifoObjects'
      /\ program = "bash_commands" => BashInv'
      /\ program = "tcp_server" => TcpInv'
  BY ProgramSteps, PairInvNext, SysvInvNext, SysvMessagesNext, MqInvNext,
     SimpleInvNext, FifoInvNext, FifoObjectsNext, BashInvNext, TcpInvNext DEF UnixInv
<1>2. UNCHANGED procVars => ProcTypeOK'
  BY DEF UnixInv, procVars, ProcTypeOK
<1>3. ProcTypeOK'
  BY <1>1, <1>2, ProgramSteps
     DEF PairInv, SysvInv, MqInv, SimpleInv, FifoInv, BashInv
<1> QED
  BY <1>1, <1>3 DEF UnixInv

LEMMA UnixInvariant == Spec => []UnixInv
BY UnixInvInit, UnixInvNext, PTL DEF Spec
-----------------------------------------------------------------------------
\* Every variable of the program that runs keeps its type; the buffers, the pipes
\* and the descriptors stay within their bounds.
THEOREM UnixTypeCorrect == Spec => []TypeOK
<1>1. UnixInv => TypeOK
  BY TcpInvKeeps DEF UnixInv, TypeOK, PairInv, SysvInv, MqInv, SimpleInv, FifoInv, BashInv
<1> QED
  BY <1>1, UnixInvariant, PTL

\* What one process has sent another one gets, in whatever order they run and
\* whoever is interrupted: over the socket pair, the fifos and the pipes between
\* commands, for every number of commands and every size of a fifo, a buffer and a
\* pipe.  Over the System V queue main gets the oldest message, the child's own
\* unless an interrupted run has left one.
THEOREM UnixSentIsReceived == Spec => []SentIsReceived
<1>1. UnixInv => SentIsReceived
  BY PairInvArrives, SysvInvArrives, FifoInvKeeps, BashInvKeeps
     DEF UnixInv, SentIsReceived
<1> QED
  BY <1>1, UnixInvariant, PTL

\* sysv_msg_queue: a run that ends by itself and could fork leaves no queue, however
\* often runs before it were interrupted.  fifo_channel: a run that has made both
\* fifos removes both, and one whose mkfifo fails leaves at most in.fifo of its own.
THEOREM UnixNothingLeftBehind == Spec => []NothingLeftBehind
<1>1. UnixInv => NothingLeftBehind
  BY SysvInvArrives DEF UnixInv, NothingLeftBehind, FifoObjects
<1> QED
  BY <1>1, UnixInvariant, PTL

\* fifo_channel: once a run has left a fifo, killed or because its second mkfifo
\* failed, every later run fails at its first mkfifo and the fifo stays.
THEOREM UnixLeftoverFifosStay == Spec => []LeftoverFifosStay
<1>1. UnixInv => LeftoverFifosStay
  BY DEF UnixInv, LeftoverFifosStay, FifoObjects
<1> QED
  BY <1>1, UnixInvariant, PTL

\* server.c: the error that main reports is the one of the call that has failed,
\* although sigchld_handler interrupts main at any step, for every number of
\* clients.
THEOREM UnixErrnoKept == Spec => []ErrnoKept
<1>1. UnixInv => ErrnoKept
  BY TcpInvKeeps DEF UnixInv, ErrnoKept
<1> QED
  BY <1>1, UnixInvariant, PTL
=============================================================================
