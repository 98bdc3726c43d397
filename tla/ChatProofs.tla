----------------------------- MODULE ChatProofs -----------------------------
(***************************************************************************)
(* The chat, for every number of clients, descriptors and bytes: its set   *)
(* of members agrees with the descriptor table, and what it sends to all   *)
(* is what its author wrote.                                               *)
(***************************************************************************)
EXTENDS Chat, EchoSocketsProofs

\* The bytes of s are those that client c wrote after the first n.
Consecutive(s, c, n) == \A k \in 1..Len(s) : s[k] = <<c, n + k>>

\* What has not been received yet are the last bytes that the client wrote.
QueueInv ==
    \A c \in Clients : Consecutive(rx[c], c, sent[c] - Len(rx[c]))

\* The text in message is what was received before them.
TextInv ==
    message # <<>> =>
        \E c \in Clients :
            Consecutive(message, c, sent[c] - Len(rx[c]) - Len(message))

LoopInv ==
    /\ pc \in {"wait", "serve", "send_to_all", "killed"}
    /\ reach \in {"unknown", "port", "elsewhere", "nowhere"}
    /\ slave_sockets \subseteq Fds \union {NoSocket}
    /\ slave_sockets \ {NoSocket} = Open
    /\ watched \subseteq Fds \union {ServerFd}
    /\ watched \ {ServerFd} = Open \ unwatched
    /\ events \subseteq watched
    /\ unwatched \subseteq Open
    /\ reach = "unknown" => Open = {} /\ events = {} /\ pc = "wait"

Inv ==
    /\ server = "chat"
    /\ KernelInv
    /\ received = 0
    /\ message \in Seq(Byte)
    /\ LoopInv
    /\ QueueInv
    /\ TextInv
-----------------------------------------------------------------------------
LEMMA InvInit == Init => Inv
<1> SUFFICES ASSUME Init PROVE Inv
  OBVIOUS
<1>1. KernelInv
  BY KernelInit DEF Init
<1>2. Open = {} /\ received = 0 /\ pc = "wait"
  BY DEF Init, EchoInit, Open
<1>3. LoopInv
  BY <1>2 DEF Init, LoopInv, NoSocket
<1>4. message \in Seq(Byte) /\ TextInv
  BY EmptySeq DEF Init, TextInv
<1>5. QueueInv
  BY EmptySeq DEF Init, EchoInit, QueueInv, Consecutive
<1> QED
  BY <1>1, <1>2, <1>3, <1>4, <1>5 DEF Init, Inv

\* Nothing is written or received.
LEMMA SameText ==
    ASSUME QueueInv, TextInv, UNCHANGED <<sent, rx>>,
           message' = <<>> \/ UNCHANGED message
    PROVE  QueueInv' /\ TextInv'
  BY DEF QueueInv, TextInv, Consecutive

\* A client writes while the server is anywhere in its loop.
LEMMA WriteText ==
    ASSUME EchoTypeOK, QueueInv, TextInv, NEW c \in Clients, Write(c),
           message \in Seq(Byte), UNCHANGED message
    PROVE  QueueInv' /\ TextInv'
<1> DEFINE b == <<c, sent[c] + 1>>
           q == Append(rx[c], b)
<1>1. /\ sent \in [Clients -> 0..MaxSent] /\ rx \in [Clients -> Seq(Byte)]
      /\ MaxSent \in Nat
      /\ sent' = [sent EXCEPT ![c] = sent[c] + 1]
      /\ rx' = [rx EXCEPT ![c] = q]
      /\ sent[c] < MaxSent
  BY EchoAssumption DEF EchoTypeOK, Write
<1>2. b \in Byte
  BY <1>1 DEF Byte
<1>3. /\ Len(rx[c]) \in Nat /\ Len(q) = Len(rx[c]) + 1
      /\ \A k \in 1..Len(rx[c]) : q[k] = rx[c][k]
      /\ q[Len(rx[c]) + 1] = b
  BY <1>1, <1>2, AppendProperties, LenProperties
<1> HIDE DEF q
<1>4. ASSUME NEW d \in Clients
      PROVE  sent'[d] - Len(rx'[d]) = sent[d] - Len(rx[d])
  BY <1>1, <1>3, LenProperties
<1>5. QueueInv'
  <2> SUFFICES ASSUME NEW d \in Clients, NEW k \in 1..Len(rx'[d])
               PROVE  rx'[d][k] = <<d, sent'[d] - Len(rx'[d]) + k>>
    BY DEF QueueInv, Consecutive
  <2>1. \A j \in 1..Len(rx[d]) : rx[d][j] = <<d, sent[d] - Len(rx[d]) + j>>
    BY DEF QueueInv, Consecutive
  <2>2. CASE d # c
    BY <1>1, <1>4, <2>1, <2>2
  <2>3. CASE d = c
    <3>1. rx'[d] = q
      BY <1>1, <2>3
    <3>2. CASE k = Len(rx[c]) + 1
      <4>1. sent[c] - Len(rx[c]) + (Len(rx[c]) + 1) = sent[c] + 1
        BY <1>1, <1>3
      <4> QED
        BY <1>3, <1>4, <2>3, <3>1, <3>2, <4>1
    <3>3. CASE k # Len(rx[c]) + 1
      <4>1. k \in 1..Len(rx[c])
        BY <1>3, <3>1, <3>3
      <4> QED
        BY <1>3, <1>4, <2>1, <2>3, <3>1, <4>1
    <3> QED
      BY <3>2, <3>3
  <2> QED
    BY <2>2, <2>3
<1>6. TextInv'
  BY <1>4 DEF TextInv, Consecutive
<1> QED
  BY <1>5, <1>6

\* The first n bytes of the queue of c become the text.
LEMMA ReceivedText ==
    ASSUME EchoTypeOK, QueueInv, NEW c \in Clients, NEW n \in 1..Len(rx[c]),
           rx' = [rx EXCEPT ![c] = SubSeq(rx[c], n + 1, Len(rx[c]))],
           message' = SubSeq(rx[c], 1, n), UNCHANGED sent
    PROVE  QueueInv' /\ TextInv' /\ message' \in Seq(Byte)
<1> DEFINE q == SubSeq(rx[c], n + 1, Len(rx[c]))
           m == SubSeq(rx[c], 1, n)
<1>1. /\ sent \in [Clients -> 0..MaxSent] /\ rx \in [Clients -> Seq(Byte)]
      /\ MaxSent \in Nat /\ Len(rx[c]) \in Nat /\ sent[c] \in Nat
      /\ n \in Nat /\ n <= Len(rx[c]) /\ n \in Int /\ n >= 1
      /\ rx[c] \in Seq(Byte)
  BY EchoAssumption, LenProperties DEF EchoTypeOK
<1>2. /\ Len(q) = Len(rx[c]) - n
      /\ \A k \in 1..(Len(rx[c]) - n) : q[k] = rx[c][n + k]
  BY <1>1, BackIsSeq
<1>3. /\ Len(m) = n /\ m \in Seq(Byte)
      /\ \A k \in 1..n : m[k] = rx[c][k]
  BY <1>1, FrontIsSeq
<1>4. \A k \in 1..Len(rx[c]) : rx[c][k] = <<c, sent[c] - Len(rx[c]) + k>>
  BY DEF QueueInv, Consecutive
<1>5. rx' = [rx EXCEPT ![c] = q] /\ message' = m
  OBVIOUS
<1> HIDE DEF q, m
<1>6. rx'[c] = q /\ \A d \in Clients \ {c} : rx'[d] = rx[d]
  BY <1>1, <1>5
<1>7. Consecutive(q, c, sent[c] - Len(q))
  <2> SUFFICES ASSUME NEW k \in 1..Len(q)
               PROVE  q[k] = <<c, sent[c] - Len(q) + k>>
    BY DEF Consecutive
  <2>1. /\ n + k \in 1..Len(rx[c]) /\ k \in 1..(Len(rx[c]) - n)
        /\ sent[c] - Len(rx[c]) + (n + k) = sent[c] - Len(q) + k
    BY <1>1, <1>2
  <2> QED
    BY <1>2, <1>4, <2>1
<1>8. QueueInv'
  <2>1. ASSUME NEW d \in Clients, d # c
        PROVE  Consecutive(rx[d], d, sent[d] - Len(rx[d])) /\ rx'[d] = rx[d]
    BY <1>6, <2>1 DEF QueueInv
  <2>2. ASSUME NEW d \in Clients PROVE Consecutive(rx'[d], d, sent[d] - Len(rx'[d]))
    BY <1>6, <1>7, <2>1
  <2> QED
    BY <2>2 DEF QueueInv, Consecutive
<1>9. Consecutive(m, c, sent[c] - Len(q) - Len(m))
  <2> SUFFICES ASSUME NEW k \in 1..n
               PROVE  m[k] = <<c, sent[c] - Len(q) - Len(m) + k>>
    BY <1>3 DEF Consecutive
  <2>1. /\ k \in 1..Len(rx[c])
        /\ sent[c] - Len(q) - Len(m) + k = sent[c] - Len(rx[c]) + k
    BY <1>1, <1>2, <1>3
  <2> QED
    BY <1>3, <1>4, <2>1
<1>10. TextInv'
  BY <1>5, <1>6, <1>9 DEF TextInv, Consecutive
<1> QED
  BY <1>3, <1>5, <1>8, <1>10
-----------------------------------------------------------------------------
\* Nothing happens to the descriptors.
LEMMA SameLoop ==
    ASSUME LoopInv, reach # "unknown", Open' = Open,
           UNCHANGED <<reach, watched, unwatched>>,
           slave_sockets' \in {slave_sockets, slave_sockets \union {NoSocket}},
           events' \subseteq events,
           pc' \in {"wait", "serve", "send_to_all", "killed"}
    PROVE  LoopInv'
  BY DEF LoopInv

LEMMA InvNext == Inv /\ [Next]_chatVars => Inv'
<1> SUFFICES ASSUME Inv, [Next]_chatVars PROVE Inv'
  OBVIOUS
<1>1. /\ Open \subseteq Fds /\ \A s \in Open : owner[s] \in Clients
      /\ errno \in Errno /\ received \in Int /\ ServerFd \notin Fds /\ NoSocket \notin Fds
      /\ EchoTypeOK /\ NoSocket # ServerFd
  BY EchoAssumption DEF Inv, KernelInv, EchoTypeOK, Errno, Fds, ServerFd, NoSocket
<1>2. \A s : AfterGetPeerName(s) \in Errno
  BY <1>1 DEF AfterGetPeerName, Errno
<1>3. \A s \in events \ {ServerFd} : s \in Open \ unwatched /\ s \in watched
  BY DEF Inv, LoopInv
<1>4. pc # "wait" => reach # "unknown"
  BY DEF Inv, LoopInv
<1>5. CASE StartUp /\ UNCHANGED server
  <2>1. UNCHANGED <<conn, link, sent, rx, echoed, unread, backlog, owner, pc, errno,
                    buffer, received, socket, slave_sockets, events, unwatched, message>>
    BY <1>5 DEF StartUp, kernelVars, echoVars
  <2>2. KernelInv'
    BY <1>1, <2>1, QuietKeeps DEF Inv, kernelVars
  <2>3. /\ Open' = Open /\ Open = {} /\ events = {} /\ watched' \subseteq {ServerFd}
        /\ reach' \in {"port", "elsewhere", "nowhere"} /\ unwatched = {}
        /\ watched' \ {ServerFd} = {}
    BY <1>5, <2>1 DEF StartUp, Open, Inv, LoopInv
  <2>4. LoopInv'
    <3>1. watched' \subseteq Fds \union {ServerFd} /\ Open' \ unwatched' = {}
      BY <2>1, <2>3
    <3> QED
      BY <2>1, <2>3, <3>1 DEF LoopInv, Inv
  <2>5. QueueInv' /\ TextInv'
    BY <2>1, SameText DEF Inv
  <2> QED
    BY <1>5, <2>1, <2>2, <2>4, <2>5 DEF Inv
<1>6. CASE epoll_wait /\ UNCHANGED server
  <2>1. UNCHANGED <<conn, link, sent, rx, echoed, unread, backlog, owner, errno, buffer,
                    received, socket, reach, slave_sockets, watched, unwatched, message>>
    BY <1>6 DEF epoll_wait, kernelVars, echoVars
  <2>2. KernelInv' /\ Open' = Open
    BY <1>1, <2>1, QuietKeeps DEF Inv, kernelVars, Open
  <2>3. events' \subseteq watched /\ pc' = "serve" /\ reach = "port"
    BY <1>6 DEF epoll_wait
  <2>4. LoopInv'
    BY <2>1, <2>2, <2>3 DEF LoopInv, Inv
  <2>5. QueueInv' /\ TextInv'
    BY <2>1, SameText DEF Inv
  <2> QED
    BY <1>6, <2>1, <2>2, <2>4, <2>5 DEF Inv
<1>7. CASE Accepts /\ UNCHANGED server
  <2>1. /\ UNCHANGED <<link, sent, rx, echoed, unread, buffer, received, socket, reach>>
        /\ errno' \in Errno /\ message' = <<>> /\ pc' = "send_to_all" /\ pc = "serve"
        /\ events' \subseteq events
    BY <1>2, <1>7 DEF Accepts, Accept, SendsToAll, kernelVars
  <2>2. QueueInv' /\ TextInv' /\ message' \in Seq(Byte)
    BY <2>1, SameText, EmptySeq DEF Inv
  <2>3. CASE /\ slave_sockets' = Inserted(NoSocket)
             /\ UNCHANGED <<kernelVars, watched, unwatched>>
    <3>1. KernelInv' /\ Open' = Open
      BY <2>1, <2>3, QuietKeeps DEF Inv, kernelVars, Open
    <3>2. LoopInv'
      BY <1>4, <2>1, <2>3, <3>1, SameLoop DEF Inserted, Inv
    <3> QED
      BY <1>7, <2>1, <2>2, <3>1, <3>2 DEF Inv
  <2>4. ASSUME NEW s \in Fds, Accept(s), slave_sockets' = Inserted(s),
               \/ watched' = watched \union {s} /\ UNCHANGED unwatched
               \/ unwatched' = unwatched \union {s} /\ UNCHANGED watched
        PROVE  Inv'
    <3>1. KernelInv' /\ Open' = Open \union {s} /\ s \notin Open
      BY <2>1, <2>4, AcceptKeeps DEF Inv
    <3>2. LoopInv'
      <4>1. s # NoSocket /\ s # ServerFd /\ s \notin unwatched
        BY <1>1, <3>1 DEF Inv, LoopInv
      <4> QED
        BY <1>4, <2>1, <2>4, <3>1, <4>1 DEF LoopInv, Inv, Inserted
    <3> QED
      BY <1>7, <2>1, <2>2, <3>1, <3>2 DEF Inv
  <2> QED
    BY <1>7, <2>3, <2>4 DEF Accepts, SendsToAll
<1>8. ASSUME NEW s \in Fds, Receives(s), UNCHANGED server PROVE Inv'
  <2>1. PICK c \in Clients : c = owner[s] /\ s \in Open
    BY <1>1, <1>3, <1>8 DEF Receives
  <2> DEFINE n == Least(kBufferSize, Len(rx[c]))
  <2>2. /\ n > 0 /\ buffer' = Filled(n, c)
        /\ rx' = [rx EXCEPT ![c] = SubSeq(rx[c], n + 1, Len(rx[c]))]
        /\ message' = SubSeq(Filled(n, c), 1, n)
        /\ UNCHANGED <<conn, link, sent, echoed, unread, backlog, owner, received,
                       socket, reach, slave_sockets, watched, unwatched>>
        /\ events' \subseteq events /\ pc' = "send_to_all" /\ pc = "serve"
        /\ errno' \in Errno
    BY <1>2, <1>8, <2>1 DEF Receives, SendsToAll, Text
  <2>3. n \in 1..Len(rx[c]) /\ n \in Nat /\ n <= kBufferSize
    BY <1>1, <2>2, LenProperties, EchoAssumption DEF EchoTypeOK, Least
  <2> HIDE DEF n
  <2>4. /\ buffer' \in Seq(Byte) /\ Len(buffer') <= kBufferSize
        /\ message' = SubSeq(rx[c], 1, n)
    BY <1>1, <2>2, <2>3, FilledBuffer
  <2>5. rx' \in [Clients -> Seq(Byte)]
    BY <1>1, <2>2, <2>3, Taken
  <2>6. QueueInv' /\ TextInv' /\ message' \in Seq(Byte)
    BY <1>1, <2>2, <2>3, <2>4, ReceivedText DEF Inv
  <2>7. Open' = Open
    BY <2>2 DEF Open
  <2>8. EchoTypeOK'
    BY <1>1, <2>2, <2>4, <2>5, <2>7 DEF EchoTypeOK, Errno
  <2>9. KernelInv'
    BY <1>1, <2>2, <2>7, <2>8
    DEF Inv, KernelInv, DescriptorsMatch, BacklogInv, Unserved, Holding
  <2>10. LoopInv'
    BY <1>4, <2>2, <2>7, SameLoop DEF Inv
  <2> QED
    BY <1>8, <2>2, <2>6, <2>9, <2>10 DEF Inv
<1>9. ASSUME NEW s \in Fds, ReceiveFails(s), UNCHANGED server PROVE Inv'
  <2>1. /\ UNCHANGED <<conn, sent, rx, echoed, unread, backlog, owner, received, buffer,
                       socket, reach, slave_sockets, watched, unwatched>>
        /\ link' = [link EXCEPT ![owner[s]] = "dead"]
        /\ message' = <<>> /\ events' \subseteq events
        /\ pc' = "send_to_all" /\ pc = "serve" /\ errno' \in Errno
    BY <1>9 DEF ReceiveFails, SendsToAll, Errno
  <2>2. link' \in [Clients -> {"up", "fin", "reset", "dead"}] /\ Open' = Open
    BY <1>1, <2>1 DEF EchoTypeOK, Open
  <2>3. EchoTypeOK'
    BY <1>1, <2>1, <2>2 DEF EchoTypeOK, Errno
  <2>4. KernelInv'
    BY <1>1, <2>1, <2>2, <2>3
    DEF Inv, KernelInv, DescriptorsMatch, BacklogInv, Unserved, Holding
  <2>5. QueueInv' /\ TextInv' /\ message' \in Seq(Byte)
    BY <2>1, SameText, EmptySeq DEF Inv
  <2>6. LoopInv'
    BY <1>4, <2>1, <2>2, SameLoop DEF Inv
  <2> QED
    BY <1>9, <2>1, <2>4, <2>5, <2>6 DEF Inv
<1>10. ASSUME NEW s \in Fds, Leaves(s), UNCHANGED server PROVE Inv'
  <2>1. /\ UNCHANGED <<link, sent, rx, echoed, unread, buffer, received, socket, reach,
                       unwatched>>
        /\ message' = <<>> /\ events' = events \ {s}
        /\ pc' = "send_to_all" /\ pc = "serve" /\ errno' \in Errno
        /\ s \in events \ {ServerFd}
    BY <1>2, <1>10 DEF Leaves, SendsToAll, Close, kernelVars
  <2>2. QueueInv' /\ TextInv' /\ message' \in Seq(Byte)
    BY <2>1, SameText, EmptySeq DEF Inv
  <2>3. CASE slave_sockets' = slave_sockets /\ UNCHANGED <<kernelVars, watched>>
    <3>1. KernelInv' /\ Open' = Open
      BY <2>1, <2>3, QuietKeeps DEF Inv, kernelVars, Open
    <3>2. LoopInv'
      BY <1>4, <2>1, <2>3, <3>1, SameLoop DEF Inv
    <3> QED
      BY <1>10, <2>1, <2>2, <3>1, <3>2 DEF Inv
  <2>4. CASE Close(s) /\ slave_sockets' = Erased(s) /\ watched' = watched \ {s}
    <3>1. s \in Open /\ s \notin unwatched
      BY <1>3, <2>1
    <3>2. KernelInv' /\ Open' = Open \ {s}
      <4>1. received <= 0 /\ socket' \in Fds \union {ServerFd}
        BY <1>1, <2>1 DEF Inv, EchoTypeOK
      <4> QED
        BY <2>1, <2>4, <3>1, <4>1, CloseKeeps DEF Inv
    <3>3. LoopInv'
      BY <1>1, <1>4, <2>1, <2>4, <3>1, <3>2 DEF LoopInv, Inv, Erased
    <3> QED
      BY <1>10, <2>1, <2>2, <3>2, <3>3 DEF Inv
  <2> QED
    BY <1>10, <2>3, <2>4 DEF Leaves, SendsToAll
<1>11. CASE SendToAll /\ UNCHANGED server
  <2>1. /\ UNCHANGED <<conn, sent, rx, echoed, backlog, owner, buffer, received,
                       socket, reach, slave_sockets, watched, events, unwatched>>
        /\ message' = <<>> /\ pc = "send_to_all" /\ pc' \in {"wait", "serve"}
    BY <1>11 DEF SendToAll
  <2>2. PICK taken \in SUBSET Open :
            /\ \A s \in taken : MayTake(s)
            /\ unread' = [c \in Clients |->
                   unread[c] + IF \E s \in taken : owner[s] = c THEN 1 ELSE 0]
            /\ link' = [c \in Clients |->
                   IF link[c] = "reset" /\ \E s \in (slave_sockets \ taken) \ {NoSocket} :
                                             owner[s] = c
                   THEN "dead" ELSE link[c]]
            /\ errno' = AfterSends(slave_sockets \ taken)
    BY <1>11 DEF SendToAll
  <2>3. unread' \in [Clients -> 0..SndBuf]
    <3> SUFFICES ASSUME NEW c \in Clients
                 PROVE  unread[c] + (IF \E s \in taken : owner[s] = c THEN 1 ELSE 0)
                           \in 0..SndBuf
      BY <2>2
    <3>1. unread[c] \in 0..SndBuf /\ SndBuf \in Nat
      BY <1>1, EchoAssumption DEF EchoTypeOK
    <3>2. CASE \E s \in taken : owner[s] = c
      <4>1. Room(c) > 0
        BY <2>2, <3>2 DEF MayTake
      <4> QED
        BY <3>1, <3>2, <4>1 DEF Room
    <3> QED
      BY <3>1, <3>2
  <2>4. link' \in [Clients -> {"up", "fin", "reset", "dead"}]
    BY <1>1, <2>2 DEF EchoTypeOK
  <2>5. errno' \in Errno /\ Open' = Open
    BY <1>1, <2>1, <2>2 DEF AfterSends, Errno, Open
  <2>6. EchoTypeOK'
    BY <1>1, <2>1, <2>3, <2>4, <2>5 DEF EchoTypeOK, Errno
  <2>7. KernelInv'
    BY <1>1, <2>1, <2>5, <2>6
    DEF Inv, KernelInv, DescriptorsMatch, BacklogInv, Unserved, Holding
  <2>8. QueueInv' /\ TextInv' /\ message' \in Seq(Byte)
    BY <2>1, SameText, EmptySeq DEF Inv
  <2>9. LoopInv'
    BY <1>4, <2>1, <2>5, SameLoop DEF Inv
  <2> QED
    BY <1>11, <2>1, <2>7, <2>8, <2>9 DEF Inv
<1>12. CASE EpollWaitFails /\ UNCHANGED server
  <2>1. /\ UNCHANGED <<conn, link, sent, rx, echoed, unread, backlog, owner, buffer,
                       received, socket, reach, slave_sockets, watched, events,
                       unwatched, message>>
        /\ errno' \in Errno /\ pc' = "killed" /\ reach # "unknown"
    BY <1>12 DEF EpollWaitFails, WaitError, kernelVars, loopVars, Errno
  <2>2. KernelInv' /\ Open' = Open
    BY <2>1, QuietKeeps DEF Inv, kernelVars, Open
  <2>3. LoopInv'
    BY <2>1, <2>2, SameLoop DEF Inv
  <2>4. QueueInv' /\ TextInv'
    BY <2>1, SameText DEF Inv
  <2> QED
    BY <1>12, <2>1, <2>2, <2>3, <2>4 DEF Inv
<1>13. CASE reach = "port" /\ ClientStep /\ UNCHANGED <<server, loopVars>>
  <2>1. UNCHANGED <<owner, pc, received, reach, slave_sockets, watched, events, unwatched,
                    message, server>>
    BY <1>13
    DEF loopVars, ClientStep, Connect, Write, Read, Shutdown, Reset, Abort, echoVars
  <2>2. KernelInv' /\ Open' = Open
    BY <1>13, <2>1, ClientKeeps DEF Inv, Open
  <2>3. LoopInv'
    BY <1>13, <2>1, <2>2, SameLoop DEF Inv, LoopInv
  <2>4. PICK c \in Clients : \/ Connect(c) \/ Write(c) \/ Read(c)
                             \/ Shutdown(c) \/ Reset(c) \/ Abort(c)
    BY <1>13 DEF ClientStep
  <2>5. QueueInv' /\ TextInv'
    <3>1. CASE Write(c)
      BY <1>1, <2>1, <3>1, WriteText DEF Inv
    <3>2. CASE ~Write(c)
      <4>1. UNCHANGED <<sent, rx>>
        BY <2>4, <3>2 DEF Connect, Read, Shutdown, Reset, Abort
      <4> QED
        BY <2>1, <4>1, SameText DEF Inv
    <3> QED
      BY <3>1, <3>2
  <2> QED
    BY <2>1, <2>2, <2>3, <2>5 DEF Inv
<1>14. CASE UNCHANGED chatVars
  <2>1. UNCHANGED <<conn, link, sent, rx, echoed, unread, backlog, owner, pc, errno,
                    buffer, received, socket, reach, slave_sockets, watched, events,
                    unwatched, message, server>>
    BY <1>14 DEF chatVars, vars, kernelVars, echoVars, loopVars
  <2>2. KernelInv' /\ Open' = Open
    BY <1>1, <2>1, QuietKeeps DEF Inv, kernelVars, Open
  <2>3. LoopInv'
    BY <2>1, <2>2 DEF Inv, LoopInv
  <2>4. QueueInv' /\ TextInv'
    BY <2>1, SameText DEF Inv
  <2> QED
    BY <2>1, <2>2, <2>3, <2>4 DEF Inv
<1> QED
  BY <1>5, <1>6, <1>7, <1>8, <1>9, <1>10, <1>11, <1>12, <1>13, <1>14 DEF Next, ServerStep

LEMMA SpecInv == Spec => []Inv
BY InvInit, InvNext, PTL DEF Spec

LEMMA InvGenuine == Inv => TextIsGenuine
<1> SUFFICES ASSUME Inv, message # <<>> PROVE TextIsGenuine
  BY DEF TextIsGenuine
<1>1. PICK c \in Clients :
          \A k \in 1..Len(message) :
              message[k] = <<c, sent[c] - Len(rx[c]) - Len(message) + k>>
  BY DEF Inv, TextInv, Consecutive
<1>2. /\ message \in Seq(Byte) /\ Len(message) \in Nat /\ Len(message) # 0
      /\ message = [k \in 1..Len(message) |-> message[k]]
  BY LenProperties, EmptySeq DEF Inv
<1>3. 1 \in 1..Len(message)
  BY <1>2
<1>4. message[1][1] = c
  BY <1>1, <1>3
<1>5. message = [k \in 1..Len(message) |->
                    <<c, sent[c] - Len(rx[c]) - Len(message) + k>>]
  BY <1>1, <1>2
<1> QED
  BY <1>4, <1>5 DEF TextIsGenuine

\* The variables of the chat keep their types: the static buffer its size, the
\* send buffers theirs, the sets of descriptors their members.
THEOREM ChatTypeCorrect == Spec => []TypeOK
<1>1. Inv => TypeOK
  <2> SUFFICES ASSUME Inv PROVE TypeOK
    OBVIOUS
  <2>1. Open \subseteq Fds /\ EchoTypeOK
    BY DEF Inv, KernelInv, EchoTypeOK
  <2> QED
    BY <2>1 DEF Inv, LoopInv, TypeOK
<1> QED
  BY SpecInv, <1>1, PTL

\* SendToAll sends to open connections only, misses none, and no event of a batch
\* is left for a descriptor that was closed since epoll_wait.
THEOREM ChatMembersAreConnections == Spec => []MembersAreConnections
<1>1. Inv => MembersAreConnections
  BY DEF Inv, LoopInv, MembersAreConnections
<1> QED
  BY SpecInv, <1>1, PTL

\* What SendToAll sends is what the author wrote, from the first byte that was
\* not sent before: nothing of what other clients left in the static buffer.
THEOREM ChatTextIsGenuine == Spec => []TextIsGenuine
BY SpecInv, InvGenuine, PTL
=============================================================================
