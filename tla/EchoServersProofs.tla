------------------------- MODULE EchoServersProofs --------------------------
(***************************************************************************)
(* The eight echo servers, for every number of clients, descriptors and    *)
(* bytes.  Every step of a server is one of a few kinds as far as the      *)
(* sockets are concerned (KernelStep).  Each server is shown to take only  *)
(* such steps and to keep its own records right; what all of them promise  *)
(* is shown once, from the kinds.                                          *)
(***************************************************************************)
EXTENDS EchoServers, EchoSocketsProofs, FiniteSetTheorems

\* The servers whose library keeps bytes between two callbacks.
Buffering == {"asio", "libevent"}

\* Only an open socket of such a server has output, and echo() is not theirs.
OutputInv ==
    /\ output \in [Fds -> Seq(Byte)]
    /\ \A s \in Fds \ Open : output[s] = <<>>
    /\ server \notin Buffering => \A s \in Fds : output[s] = <<>>
    /\ server \in Buffering => received = 0

\* echo() is between recv and send only there.
PhaseInv == received # 0 => pc \in {"send", "killed"}
-----------------------------------------------------------------------------
(***************************************************************************)
(* The kinds of steps                                                      *)
(***************************************************************************)
Quiet ==
    /\ UNCHANGED <<kernelVars, buffer, received, socket, output>>
    /\ errno' \in Errno

Accepting(s) ==
    /\ Accept(s)
    /\ UNCHANGED <<buffer, received, socket, output>>
    /\ errno' \in Errno

\* Only a connection that its client has ended is closed.
Closing(s) ==
    /\ s \in Open /\ Close(s)
    /\ link[owner[s]] # "up"
    /\ received = 0
    /\ UNCHANGED <<errno, buffer, received>>
    /\ socket' \in Fds \union {ServerFd}
    /\ \/ server \notin Buffering /\ UNCHANGED output
       \/ output' = [output EXCEPT ![s] = <<>>]
    /\ ~Down'

Receiving(s) ==
    /\ received = 0
    /\ server \notin Buffering
    /\ EchoRecv(s)
    /\ UNCHANGED output

FailingToReceive(s) ==
    /\ received = 0
    /\ server \notin AsyncServers
    /\ EchoRecvFails(s)
    /\ UNCHANGED output

Sending ==
    /\ server \notin AsyncServers
    /\ SendData \/ SendFails
    /\ received' = 0 /\ socket' = ServerFd
    /\ UNCHANGED <<buffer, output>>
    /\ ~Down'

\* What a library does besides.
InLibrary ==
    \/ \E s \in Open : \/ Async!Take(s) \/ Async!Flush(s)
                        \/ Async!ReadCbFails(s)
    \/ received > 0 /\ Async!BlockingSend

KernelStep ==
    /\ ~Down
    /\ UNCHANGED server
    /\ \/ ClientStep /\ UNCHANGED output
       \/ Quiet
       \/ \E s \in Fds : Accepting(s) \/ Closing(s) \/ Receiving(s)
                          \/ FailingToReceive(s)
       \/ Sending
       \/ server \in AsyncServers /\ InLibrary
-----------------------------------------------------------------------------
LEMMA AsyncCalls ==
    /\ Async!ClientStep = ClientStep
    /\ \A s : /\ Async!Accept(s) = Accept(s) /\ Async!Close(s) = Close(s)
             /\ Async!EchoRecv(s) = EchoRecv(s) /\ Async!Eof(s) = Eof(s)
             /\ Async!HungUp(s) = HungUp(s)
    /\ \A c : Async!Room(c) = Room(c)
    /\ \A a, b : Async!Least(a, b) = Least(a, b)
    /\ Async!EchoTypeOK = EchoTypeOK /\ Async!EchoTypeOK' = EchoTypeOK'
    /\ Async!Open = Open /\ Async!Open' = Open' /\ Async!Fds = Fds /\ Async!ServerFd = ServerFd
    /\ Async!Byte = Byte
  BY
  DEF Async!ClientStep, ClientStep, Async!Down, Down, Async!Connect, Connect,
      Async!Write, Write, Async!Connected, Connected, Async!Read, Read,
      Async!Shutdown, Shutdown, Async!Reset, Reset, Async!BSD, BSD,
      Async!Abort, Abort, Async!echoVars, echoVars, Async!kernelVars,
      kernelVars, Async!Accept, Accept, Async!Open, Open, Async!Fds, Fds,
      Async!ServerFd, ServerFd, Async!Close, Close, Async!EchoRecv, EchoRecv,
      Async!Eof, Eof, Async!HungUp, HungUp, Async!Filled, Filled, Async!Least,
      Least, Async!Room, Room, Async!EchoTypeOK, EchoTypeOK, Async!Byte, Byte

LEMMA TakeKeeps ==
    ASSUME KernelInv, OutputInv, NEW s \in Open, Async!Take(s), UNCHANGED server
    PROVE  /\ KernelInv' /\ OutputInv'
           /\ \E n \in 1..Len(rx[owner[s]]) :
                 /\ output' = [output EXCEPT ![s] =
                                  output[s] \o SubSeq(rx[owner[s]], 1, n)]
                 /\ rx' = [rx EXCEPT ![owner[s]] =
                              SubSeq(rx[owner[s]], n + 1, Len(rx[owner[s]]))]
<1> USE AsyncCalls DEF KernelInv
<1> DEFINE c == owner[s]
           n == Least(kBufferSize, Len(rx[c]))
<1>1. c \in Clients /\ s \in Fds
  BY DEF EchoTypeOK
<1>2. Len(rx[c]) \in Nat /\ rx[c] \in Seq(Byte)
  BY <1>1, LenProperties DEF EchoTypeOK
<1>3. /\ n > 0
      /\ output' = [output EXCEPT ![s] = output[s] \o SubSeq(rx[c], 1, n)]
      /\ rx' = [rx EXCEPT ![c] = SubSeq(rx[c], n + 1, Len(rx[c]))]
      /\ server \in Buffering
      /\ UNCHANGED <<conn, link, sent, echoed, unread, backlog, owner, echoVars>>
  BY DEF Async!Take, Async!Reading, Async!Buffered, Buffering, Async!echoVars, echoVars
<1>4. n \in 1..Len(rx[c]) /\ n \in Nat /\ n <= Len(rx[c])
  BY <1>2, <1>3, EchoAssumption DEF Least
<1> HIDE DEF c, n
<1>5. rx' \in [Clients -> Seq(Byte)]
  BY <1>1, <1>3, <1>4, Taken
<1>6. output[s] \o SubSeq(rx[c], 1, n) \in Seq(Byte)
  <2>1. SubSeq(rx[c], 1, n) \in Seq(Byte)
    BY <1>2, <1>4, FrontIsSeq
  <2> QED
    BY <1>1, <2>1, ConcatProperties DEF OutputInv
<1>7. Open' = Open
  BY <1>3 DEF Open
<1>8. EchoTypeOK'
  BY <1>3, <1>5, <1>7 DEF EchoTypeOK, echoVars
<1>9. DescriptorsMatch' /\ BacklogInv' /\ Unserved' /\ Holding'
  BY <1>3, <1>7 DEF DescriptorsMatch, BacklogInv, Unserved, Holding, echoVars
<1>10. OutputInv'
  BY <1>1, <1>3, <1>6, <1>7 DEF OutputInv, echoVars
<1> QED
  BY <1>3, <1>4, <1>8, <1>9, <1>10 DEF c

LEMMA FlushKeeps ==
    ASSUME KernelInv, OutputInv, NEW s \in Open, Async!Flush(s), UNCHANGED server
    PROVE  /\ KernelInv' /\ OutputInv'
           /\ \E n \in 1..Len(output[s]) :
                 /\ echoed' = [echoed EXCEPT ![owner[s]] =
                                  echoed[owner[s]] \o SubSeq(output[s], 1, n)]
                 /\ output' = [output EXCEPT ![s] =
                                  SubSeq(output[s], n + 1, Len(output[s]))]
<1> USE AsyncCalls DEF KernelInv
<1> DEFINE c == owner[s]
           o == output[s]
<1>1. c \in Clients /\ s \in Fds
  BY DEF EchoTypeOK
<1>2. o \in Seq(Byte) /\ Len(o) \in Nat
  BY <1>1, LenProperties DEF OutputInv
<1>3. PICK n \in 1..Least(Len(o), Room(c)) :
          /\ echoed' = [echoed EXCEPT ![c] = echoed[c] \o SubSeq(o, 1, n)]
          /\ unread' = [unread EXCEPT ![c] = unread[c] + n]
          /\ output' = [output EXCEPT ![s] = SubSeq(o, n + 1, Len(o))]
  BY DEF Async!Flush, Async!Rest
<1>4. /\ UNCHANGED <<conn, link, sent, rx, backlog, owner, echoVars>>
      /\ server \in Buffering
  BY DEF Async!Flush, Async!Buffered, Buffering, Async!echoVars, echoVars
<1>5. n \in 1..Len(o) /\ n \in Nat /\ n <= Len(o) /\ n <= Room(c) /\ 1 <= n
  <2>1. Room(c) \in Int
    BY <1>1, EchoAssumption DEF Room, EchoTypeOK
  <2> QED
    BY <1>2, <2>1 DEF Least
<1> HIDE DEF c, o
<1>6. SubSeq(o, 1, n) \in Seq(Byte) /\ Len(SubSeq(o, 1, n)) = n
  BY <1>2, <1>5, FrontIsSeq
<1>7. SubSeq(o, n + 1, Len(o)) \in Seq(Byte)
  BY <1>2, <1>5, BackIsSeq
<1>8. /\ echoed' \in [Clients -> Seq(Byte)]
      /\ unread' \in [Clients -> 0..SndBuf]
      /\ Unserved'
  BY <1>3, <1>4, <1>5, <1>6, EchoedKeeps DEF c
<1>9. Open' = Open
  BY <1>4 DEF Open
<1>10. EchoTypeOK'
  BY <1>4, <1>8, <1>9 DEF EchoTypeOK, echoVars
<1>11. DescriptorsMatch' /\ BacklogInv' /\ Holding'
  BY <1>4, <1>9 DEF DescriptorsMatch, BacklogInv, Holding, echoVars
<1>12. OutputInv'
  BY <1>1, <1>3, <1>4, <1>7, <1>9 DEF OutputInv, echoVars
<1> QED
  BY <1>3, <1>5, <1>8, <1>10, <1>11, <1>12 DEF c, o

LEMMA BlockingSendKeeps ==
    ASSUME KernelInv, OutputInv, received > 0, Async!BlockingSend,
           UNCHANGED server
    PROVE  /\ KernelInv' /\ OutputInv'
           /\ socket \in Open /\ received \in Nat /\ received <= Len(buffer)
           /\ \/ \E n \in 1..received :
                    /\ echoed' = [echoed EXCEPT ![owner[socket]] =
                           echoed[owner[socket]] \o SubSeq(buffer, 1, n)]
                    /\ received' = received - n
                    /\ buffer' = SubSeq(buffer, n + 1, received)
                    /\ UNCHANGED link
              \/ /\ link[owner[socket]] # "up"
                 /\ link' = [link EXCEPT ![owner[socket]] = "dead"]
                 /\ received' = 0
                 /\ UNCHANGED echoed
<1> USE AsyncCalls DEF KernelInv
<1> DEFINE c == owner[socket]
<1>1. /\ socket \in Open /\ socket \in Fds /\ c \in Clients
      /\ received \in Nat /\ received <= kBufferSize /\ received <= Len(buffer)
      /\ buffer \in Seq(Byte) /\ Len(buffer) \in Nat
      /\ kBufferSize \in Nat
  BY LenProperties, EchoAssumption DEF EchoTypeOK, Holding
<1>2. /\ UNCHANGED <<conn, sent, rx, backlog, owner, errno, output>>
      /\ server = "libev"
  BY DEF Async!BlockingSend, Async!asyncVars
<1>3. \/ received' = 0 /\ socket' = ServerFd
      \/ received' # 0 /\ socket' = socket
  BY DEF Async!BlockingSend
<1>4. Open' = Open
  BY <1>2 DEF Open
<1>5. OutputInv'
  BY <1>2, <1>4 DEF OutputInv, Buffering
<1>6. CASE /\ link[c] \in {"reset", "dead"}
           /\ link' = [link EXCEPT ![c] = "dead"]
           /\ received' = 0
           /\ buffer' = <<>>
           /\ UNCHANGED <<echoed, unread>>
  <2>1. /\ buffer' \in Seq(Byte) /\ Len(buffer') <= kBufferSize
        /\ received' \in -1..kBufferSize /\ ~(0 > 0)
    BY <1>1, <1>6, EmptySeq
  <2>2. EchoTypeOK'
    BY <1>1, <1>2, <1>3, <1>4, <1>6, <2>1 DEF EchoTypeOK, ServerFd
  <2>3. DescriptorsMatch' /\ BacklogInv' /\ Unserved' /\ Holding'
    BY <1>2, <1>4, <1>6, <2>1 DEF DescriptorsMatch, BacklogInv, Unserved, Holding
  <2> QED
    BY <1>1, <1>5, <1>6, <2>2, <2>3
<1>7. CASE /\ \E n \in 1..Least(received, Room(c)) :
                /\ echoed' = [echoed EXCEPT ![c] = echoed[c] \o SubSeq(buffer, 1, n)]
                /\ unread' = [unread EXCEPT ![c] = unread[c] + n]
                /\ received' = received - n
                /\ buffer' = SubSeq(buffer, n + 1, received)
           /\ UNCHANGED link
  <2>1. PICK n \in 1..Least(received, Room(c)) :
                /\ echoed' = [echoed EXCEPT ![c] = echoed[c] \o SubSeq(buffer, 1, n)]
                /\ unread' = [unread EXCEPT ![c] = unread[c] + n]
                /\ received' = received - n
                /\ buffer' = SubSeq(buffer, n + 1, received)
    BY <1>7
  <2>2. /\ n \in Nat /\ 1 <= n /\ n <= received /\ n <= Room(c)
        /\ n \in 1..received /\ n <= Len(buffer)
    <3>1. Room(c) \in Int
      BY <1>1, EchoAssumption DEF Room, EchoTypeOK
    <3> QED
      BY <1>1, <3>1 DEF Least
  <2> HIDE DEF c
  <2>3. SubSeq(buffer, 1, n) \in Seq(Byte) /\ Len(SubSeq(buffer, 1, n)) = n
    BY <1>1, <2>2, FrontIsSeq
  <2>4. /\ echoed' \in [Clients -> Seq(Byte)]
        /\ unread' \in [Clients -> 0..SndBuf]
        /\ Unserved'
    BY <1>1, <1>2, <2>1, <2>2, <2>3, EchoedKeeps DEF c
  <2>5. buffer' \in Seq(Byte) /\ Len(buffer') = received - n
    <3>1. \A k \in (n + 1)..received : buffer[k] \in Byte
      BY <1>1, <2>2, ElementOfSeq
    <3>2. /\ SubSeq(buffer, n + 1, received) \in Seq(Byte)
          /\ Len(SubSeq(buffer, n + 1, received)) =
                IF n + 1 <= received THEN received - (n + 1) + 1 ELSE 0
      BY <1>1, <2>2, <3>1, SubSeqProperties
    <3> QED
      BY <1>1, <2>1, <2>2, <3>2
  <2>6. received' \in -1..kBufferSize /\ Len(buffer') <= kBufferSize
    BY <1>1, <2>1, <2>2, <2>5
  <2>7. EchoTypeOK'
    BY <1>1, <1>2, <1>3, <1>4, <1>7, <2>4, <2>5, <2>6 DEF EchoTypeOK, ServerFd
  <2>8. Holding'
    <3>1. received' <= Len(buffer')
      BY <1>1, <2>1, <2>2, <2>5
    <3>2. received' > 0 => received' # 0
      OBVIOUS
    <3> QED
      BY <1>1, <1>3, <1>4, <3>1, <3>2 DEF Holding
  <2>9. DescriptorsMatch' /\ BacklogInv'
    BY <1>2, <1>4 DEF DescriptorsMatch, BacklogInv
  <2> QED
    BY <1>1, <1>5, <1>7, <2>1, <2>2, <2>4, <2>7, <2>8, <2>9 DEF c
<1> QED
  BY <1>6, <1>7 DEF Async!BlockingSend

\* Every kind of step preserves the invariants of the sockets.
LEMMA KernelStepKeeps ==
    ASSUME KernelInv, OutputInv, KernelStep
    PROVE  KernelInv' /\ OutputInv'
<1>0. server' = server /\ received \in Int
  BY EchoAssumption DEF KernelStep, KernelInv, EchoTypeOK
<1>1. CASE ClientStep /\ UNCHANGED output
  <2>1. UNCHANGED <<owner, received>>
    BY <1>1 DEF ClientStep, Connect, Write, Read, Shutdown, Reset, Abort, echoVars
  <2> QED
    BY <1>0, <1>1, <2>1, ClientKeeps DEF OutputInv, Open
<1>2. CASE Quiet
  BY <1>0, <1>2, QuietKeeps DEF Quiet, OutputInv, Open, kernelVars
<1>3. ASSUME NEW s \in Fds, Accepting(s) PROVE KernelInv' /\ OutputInv'
  BY <1>0, <1>3, AcceptKeeps DEF Accepting, OutputInv
<1>4. ASSUME NEW s \in Fds, Closing(s) PROVE KernelInv' /\ OutputInv'
  <2>1. KernelInv' /\ Open' = Open \ {s} /\ s \in Open
    <3>1. received <= 0 /\ errno' \in Errno
      BY <1>4 DEF Closing, Errno, KernelInv, EchoTypeOK
    <3> QED
      BY <1>4, <3>1, CloseKeeps DEF Closing
  <2>2. received' = received /\ <<>> \in Seq(Byte)
    BY <1>4, EmptySeq DEF Closing
  <2>3. CASE server \notin Buffering /\ UNCHANGED output
    BY <1>0, <2>1, <2>2, <2>3 DEF OutputInv
  <2>4. CASE output' = [output EXCEPT ![s] = <<>>]
    BY <1>0, <1>4, <2>1, <2>2, <2>4 DEF OutputInv
  <2> QED
    BY <1>4, <2>1, <2>3, <2>4 DEF Closing
<1>5. ASSUME NEW s \in Fds, Receiving(s) PROVE KernelInv' /\ OutputInv'
  <2>1. KernelInv'
    BY <1>5, RecvKeeps DEF Receiving
  <2> QED
    BY <1>0, <1>5, <2>1 DEF Receiving, EchoRecv, OutputInv, Open
<1>6. ASSUME NEW s \in Fds, FailingToReceive(s) PROVE KernelInv' /\ OutputInv'
  <2>1. KernelInv'
    BY <1>6, RecvFailsKeeps DEF FailingToReceive
  <2> QED
    BY <1>0, <1>6, <2>1
    DEF FailingToReceive, EchoRecvFails, OutputInv, Open, AsyncServers, Buffering
<1>7. CASE Sending
  <2>1. KernelInv'
    BY <1>7, SendKeeps DEF Sending
  <2>2. UNCHANGED <<owner, output>> /\ received' = 0
    BY <1>7 DEF Sending, SendData, SendFails
  <2> QED
    BY <1>0, <2>1, <2>2 DEF OutputInv, Open
<1>8. CASE server \in AsyncServers /\ InLibrary
  <2>1. ASSUME NEW s \in Open, Async!ReadCbFails(s) PROVE KernelInv' /\ OutputInv'
    <3>1. link' = [link EXCEPT ![owner[s]] = "dead"]
      BY <2>1 DEF Async!ReadCbFails
    <3>2. link' \in [Clients -> {"up", "fin", "reset", "dead"}]
      BY <3>1 DEF KernelInv, EchoTypeOK
    <3>3. UNCHANGED <<conn, sent, rx, echoed, unread, backlog, owner, echoVars,
                      output>>
      BY <2>1 DEF Async!ReadCbFails, Async!asyncVars, Async!echoVars, echoVars
    <3> QED
      BY <1>0, <3>2, <3>3, LinkKeeps DEF OutputInv, Open, echoVars
  <2> QED
    BY <1>0, <1>8, <2>1, TakeKeeps, FlushKeeps, BlockingSendKeeps DEF InLibrary
<1> QED
  BY <1>1, <1>2, <1>3, <1>4, <1>5, <1>6, <1>7, <1>8 DEF KernelStep
-----------------------------------------------------------------------------
(***************************************************************************)
(* The steps of a server that has a loop of its own                        *)
(***************************************************************************)
OwnLoop == server \notin AsyncServers /\ UNCHANGED <<server, output>>

\* A connection that is gone does not come back.
LinksStay ==
    \A c \in Clients :
        /\ link[c] # "up" => link'[c] # "up"
        /\ link[c] \in {"reset", "dead"} => link'[c] \in {"reset", "dead"}

LEMMA ClientsMove ==
    ASSUME KernelInv, UNCHANGED <<server, output>>, PhaseInv, ClientStep
    PROVE  /\ KernelStep /\ PhaseInv' /\ Open' = Open /\ LinksStay
           /\ UNCHANGED <<owner, pc, socket>>
<1>1. ~Down /\ UNCHANGED <<owner, pc, received, socket>>
  BY DEF ClientStep, Connect, Write, Read, Shutdown, Reset, Abort, echoVars
<1>2. LinksStay
  BY DEF ClientStep, Connect, Write, Read, Shutdown, Reset, Abort, LinksStay,
         KernelInv, EchoTypeOK
<1> QED
  BY <1>1, <1>2 DEF KernelStep, PhaseInv, Open

\* Nothing happens to the sockets, and echo() is not under way.
LEMMA NothingMoves ==
    ASSUME KernelInv, PhaseInv, OwnLoop, pc \notin {"send", "exited", "killed"},
           UNCHANGED <<kernelVars, buffer, received, socket>>,
           errno' \in Errno \/ UNCHANGED errno
    PROVE  /\ KernelStep /\ PhaseInv' /\ UNCHANGED owner /\ Open' = Open
           /\ LinksStay
<1>1. errno' \in Errno /\ received = 0 /\ received' = 0
  BY DEF KernelInv, EchoTypeOK, Errno, PhaseInv
<1>2. KernelStep
  BY <1>1 DEF KernelStep, Quiet, Down, OwnLoop
<1> QED
  BY <1>1, <1>2 DEF PhaseInv, Open, kernelVars, LinksStay

LEMMA RecvMoves ==
    ASSUME KernelInv, PhaseInv, OwnLoop, pc \notin {"send", "exited", "killed"},
           NEW s \in Fds, EchoRecv(s) \/ EchoRecvFails(s)
    PROVE  /\ KernelStep /\ PhaseInv' /\ UNCHANGED owner /\ Open' = Open
           /\ pc' = "send" /\ LinksStay
<1>1. received = 0 /\ server \notin Buffering /\ ~Down
  BY DEF PhaseInv, OwnLoop, AsyncServers, Buffering, Down
<1>2. pc' = "send" /\ UNCHANGED owner /\ LinksStay
  BY DEF EchoRecv, EchoRecvFails, LinksStay, KernelInv, EchoTypeOK
<1>3. CASE EchoRecv(s)
  <2>1. Receiving(s)
    BY <1>1, <1>3 DEF Receiving, OwnLoop
  <2> QED
    BY <1>1, <1>2, <2>1 DEF KernelStep, OwnLoop, PhaseInv, Open
<1>4. CASE EchoRecvFails(s)
  <2>1. FailingToReceive(s)
    BY <1>1, <1>4 DEF FailingToReceive, OwnLoop
  <2> QED
    BY <1>1, <1>2, <2>1 DEF KernelStep, OwnLoop, PhaseInv, Open
<1> QED
  BY <1>3, <1>4

LEMMA CloseMoves ==
    ASSUME KernelInv, PhaseInv, OwnLoop, pc \notin {"send", "exited", "killed"},
           pc' \notin {"exited", "killed"}, NEW s \in Open, link[owner[s]] # "up",
           Close(s), UNCHANGED <<errno, buffer, received>>,
           socket' \in Fds \union {ServerFd}
    PROVE  /\ KernelStep /\ PhaseInv' /\ LinksStay
           /\ Open' = Open \ {s} /\ \A t \in Open' : owner'[t] = owner[t]
<1>1. received = 0 /\ server \notin Buffering /\ ~Down /\ ~Down'
  BY DEF PhaseInv, OwnLoop, AsyncServers, Buffering, Down
<1>2. Closing(s)
  BY <1>1 DEF Closing, OwnLoop
<1>3. s \in Fds
  BY DEF KernelInv, EchoTypeOK
<1>4. KernelStep
  BY <1>1, <1>2, <1>3 DEF KernelStep, OwnLoop
<1>5. Open' = Open \ {s} /\ \A t \in Open' : owner'[t] = owner[t]
  BY DEF Close, Open
<1> QED
  BY <1>1, <1>4, <1>5 DEF PhaseInv, Close, LinksStay

LEMMA AcceptMoves ==
    ASSUME KernelInv, PhaseInv, OwnLoop, pc \notin {"send", "exited", "killed"},
           NEW s \in Fds, Accept(s), UNCHANGED <<buffer, received, socket>>,
           errno' \in Errno \/ UNCHANGED errno
    PROVE  /\ KernelStep /\ PhaseInv' /\ LinksStay
           /\ Open' = Open \union {s} /\ s \notin Open
           /\ \A t \in Open : owner'[t] = owner[t]
<1>1. received = 0 /\ ~Down /\ errno' \in Errno
  BY DEF PhaseInv, Down, KernelInv, EchoTypeOK, Errno
<1>2. Accepting(s)
  BY <1>1 DEF Accepting, OwnLoop
<1>3. KernelStep
  BY <1>1, <1>2 DEF KernelStep, OwnLoop
<1>4. /\ Open' = Open \union {s} /\ s \notin Open
      /\ \A t \in Open : owner'[t] = owner[t]
  BY <1>1, AcceptKeeps
<1> QED
  BY <1>1, <1>3, <1>4 DEF PhaseInv, Accept, LinksStay

LEMMA SendMoves ==
    ASSUME KernelInv, OwnLoop, NEW next, next \notin {"exited", "killed"},
           EchoSend(next) \/ SendKills
    PROVE  /\ KernelStep /\ PhaseInv' /\ UNCHANGED owner /\ Open' = Open
           /\ LinksStay
           /\ pc = "send"
           /\ \/ EchoSend(next) /\ pc' = next
              \/ SendKills /\ pc' = "killed"
<1>1. CASE EchoSend(next)
  <2>1. KernelStep
    BY <1>1 DEF KernelStep, EchoSend, Sending, Down, OwnLoop
  <2>2. UNCHANGED owner /\ pc = "send" /\ pc' = next /\ received' = 0
    BY <1>1 DEF EchoSend, SendData, SendFails
  <2>3. LinksStay
    BY <1>1 DEF EchoSend, SendData, SendFails, LinksStay, KernelInv, EchoTypeOK
  <2> QED
    BY <1>1, <2>1, <2>2, <2>3 DEF PhaseInv, Open
<1>2. CASE SendKills
  <2>1. Quiet
    BY <1>2 DEF Quiet, SendKills, OwnLoop, echoVars, KernelInv, EchoTypeOK, Errno
  <2>2. UNCHANGED owner /\ pc = "send" /\ pc' = "killed"
    BY <1>2 DEF SendKills, kernelVars
  <2>3. KernelStep
    BY <2>1, <2>2 DEF KernelStep, Down, OwnLoop
  <2> QED
    BY <1>2, <2>2, <2>3 DEF PhaseInv, Open, LinksStay, SendKills, kernelVars
<1> QED
  BY <1>1, <1>2
-----------------------------------------------------------------------------
(***************************************************************************)
(* The server with select                                                  *)
(***************************************************************************)
LEMMA SelectCalls ==
    /\ Select!ClientStep = ClientStep
    /\ \A s : /\ Select!Accept(s) = Accept(s) /\ Select!Close(s) = Close(s)
             /\ Select!EchoRecv(s) = EchoRecv(s) /\ Select!Eof(s) = Eof(s)
             /\ Select!EchoRecvFails(s) = EchoRecvFails(s)
             /\ Select!Readable(s) = Readable(s)
    /\ \A next : Select!EchoSend(next) = EchoSend(next)
    /\ \A e : Select!WaitError(e) = WaitError(e)
    /\ Select!AcceptFails = AcceptFails /\ Select!SendKills = SendKills
    /\ Select!EchoTypeOK = EchoTypeOK /\ Select!EchoTypeOK' = EchoTypeOK'
    /\ Select!Open = Open /\ Select!Open' = Open'
    /\ Select!Fds = Fds /\ Select!ServerFd = ServerFd
  BY
  DEF Select!ClientStep, ClientStep, Select!Down, Down, Select!Connect,
      Connect, Select!Write, Write, Select!Connected, Connected, Select!Read,
      Read, Select!Shutdown, Shutdown, Select!Reset, Reset, Select!BSD, BSD,
      Select!Abort, Abort, Select!echoVars, echoVars, Select!kernelVars,
      kernelVars, Select!Accept, Accept, Select!AcceptFails, AcceptFails,
      Select!Open, Open, Select!Fds, Fds, Select!ServerFd, ServerFd,
      Select!Close, Close, Select!EchoRecv, EchoRecv, Select!EchoRecvFails,
      EchoRecvFails, Select!Eof, Eof, Select!Filled, Filled, Select!Least,
      Least, Select!Message, Message, Select!Room, Room, Select!SendData,
      SendData, Select!SendFails, SendFails, Select!EchoSend, EchoSend,
      Select!SendKills, SendKills, Select!WaitError, WaitError,
      Select!Readable, Readable, Select!EchoTypeOK, EchoTypeOK, Select!Byte,
      Byte

SelectLoop ==
    /\ pc \in {"wait", "serve", "send", "exited", "killed"}
    /\ open_sockets \subseteq Fds
    /\ set \subseteq Fds \union {ServerFd}
    /\ closed_sockets \subseteq open_sockets
    /\ open_sockets \ closed_sockets = Open
    /\ closed_sockets \intersect Open = {}
    /\ set \ {ServerFd} \subseteq Open
    /\ pc = "wait" => closed_sockets = {} /\ set = {}

LEMMA SelectStep ==
    ASSUME KernelInv, PhaseInv, SelectLoop, SelectRuns(Select!Next)
    PROVE  KernelStep /\ PhaseInv' /\ SelectLoop'
<1> USE SelectCalls DEF SelectLoop
<1>1. server = "select" /\ OwnLoop
  BY DEF SelectRuns, asyncVars, OwnLoop, AsyncServers
<1>2. Open \subseteq Fds /\ ServerFd \notin Fds
  BY DEF KernelInv, EchoTypeOK, Fds, ServerFd
<1>3. CASE ClientStep /\ UNCHANGED Select!loopVars
  <2>1. KernelStep /\ PhaseInv' /\ UNCHANGED pc /\ Open' = Open
    BY <1>1, <1>3, ClientsMove DEF OwnLoop
  <2> QED
    BY <1>3, <2>1 DEF Select!loopVars
<1>4. CASE Select!SelectFails
  <2>1. /\ pc = "wait" /\ pc' \in {"wait", "exited"} /\ errno' \in Errno
        /\ UNCHANGED <<kernelVars, buffer, received, socket>>
        /\ UNCHANGED <<open_sockets, set, closed_sockets>>
    BY <1>4 DEF Select!SelectFails, WaitError, Errno, Select!loopVars
  <2>2. KernelStep /\ PhaseInv' /\ Open' = Open
    BY <1>1, <2>1, NothingMoves
  <2> QED
    BY <2>1, <2>2
<1>5. CASE Select!Select
  <2>1. /\ pc = "wait" /\ pc' = "serve"
        /\ UNCHANGED <<kernelVars, errno, buffer, received, socket>>
        /\ set' \subseteq open_sockets \union {ServerFd}
        /\ open_sockets' = open_sockets /\ closed_sockets' = {}
    BY <1>5 DEF Select!Select, Select!Ready, Select!kernelVars, kernelVars,
                Select!echoVars
  <2>2. KernelStep /\ PhaseInv' /\ Open' = Open
    BY <1>1, <2>1, NothingMoves
  <2> QED
    BY <1>2, <2>1, <2>2
<1>6. ASSUME NEW s \in Fds, Select!Serve(s)
      PROVE  KernelStep /\ PhaseInv' /\ SelectLoop'
  <2>1. /\ pc = "serve"
        /\ EchoRecv(s) \/ EchoRecvFails(s)
        /\ set' = set \ {s}
        /\ UNCHANGED <<open_sockets, closed_sockets>>
    BY <1>6 DEF Select!Serve, Select!IsNext
  <2>2. KernelStep /\ PhaseInv' /\ pc' = "send" /\ Open' = Open
    BY <1>1, <2>1, RecvMoves
  <2> QED
    BY <2>1, <2>2
\* recv returned 0 for a socket of the set, which is open: the client has ended
\* the connection.
<1>7. ASSUME NEW s \in Fds, Select!ServeEof(s)
      PROVE  KernelStep /\ PhaseInv' /\ SelectLoop'
  <2>1. /\ pc = "serve" /\ Eof(s) /\ UNCHANGED pc
        /\ UNCHANGED <<errno, buffer, received, socket, open_sockets>>
        /\ set' = set \ {s}
    BY <1>7 DEF Select!ServeEof, Select!IsNext, Select!echoVars
  <2>2. CASE UNCHANGED <<kernelVars, closed_sockets>>
    <3>1. KernelStep /\ PhaseInv' /\ Open' = Open
      BY <1>1, <2>1, <2>2, NothingMoves
    <3> QED
      BY <2>1, <2>2, <3>1
  <2>3. CASE Close(s) /\ closed_sockets' = closed_sockets \union {s}
    <3>1. s \in Open /\ link[owner[s]] # "up" /\ socket' \in Fds \union {ServerFd}
      BY <2>1 DEF Eof, KernelInv, EchoTypeOK
    <3>2. KernelStep /\ PhaseInv' /\ Open' = Open \ {s}
      BY <1>1, <2>1, <2>3, <3>1, CloseMoves
    <3> QED
      BY <1>2, <2>1, <2>3, <3>1, <3>2
  <2> QED
    BY <1>7, <2>2, <2>3 DEF Select!ServeEof, Select!kernelVars, kernelVars
<1>8. CASE Select!Send
  <2>1. UNCHANGED <<open_sockets, set, closed_sockets>>
    BY <1>8 DEF Select!Send, Select!loopVars
  <2>2. /\ KernelStep /\ PhaseInv' /\ Open' = Open
        /\ pc = "send" /\ pc' \in {"serve", "killed"}
    BY <1>1, <1>8, SendMoves DEF Select!Send
  <2> QED
    BY <2>1, <2>2
<1>9. CASE Select!Finish
  <2>1. /\ pc = "serve" /\ set' = {} /\ closed_sockets' = {}
        /\ UNCHANGED <<buffer, received, socket>>
    BY <1>9 DEF Select!Finish
  <2>2. CASE /\ open_sockets' = open_sockets \ closed_sockets
             /\ pc' \in {"wait", "exited"}
             /\ errno' \in Errno \/ UNCHANGED errno
             /\ UNCHANGED kernelVars
    <3>1. KernelStep /\ PhaseInv' /\ Open' = Open
      BY <1>1, <2>1, <2>2, NothingMoves
    <3> QED
      BY <2>1, <2>2, <3>1
  <2>3. ASSUME NEW s \in Fds, Accept(s), pc' = "wait", UNCHANGED errno,
               open_sockets' = (open_sockets \ closed_sockets) \union {s}
        PROVE  KernelStep /\ PhaseInv' /\ SelectLoop'
    <3>1. KernelStep /\ PhaseInv' /\ Open' = Open \union {s}
      BY <1>1, <2>1, <2>3, AcceptMoves
    <3> QED
      BY <1>2, <2>1, <2>3, <3>1
  <2> QED
    BY <1>9, <2>2, <2>3
    DEF Select!Finish, Select!kernelVars, kernelVars, AcceptFails, Errno
<1> QED
  BY <1>3, <1>4, <1>5, <1>6, <1>7, <1>8, <1>9
  DEF SelectRuns, Select!Next, Select!ServerStep
-----------------------------------------------------------------------------
(***************************************************************************)
(* The server with poll                                                    *)
(***************************************************************************)
LEMMA PollCalls ==
    /\ Poll!ClientStep = ClientStep
    /\ \A s : /\ Poll!Accept(s) = Accept(s) /\ Poll!Close(s) = Close(s)
             /\ Poll!EchoRecv(s) = EchoRecv(s) /\ Poll!Eof(s) = Eof(s)
             /\ Poll!EchoRecvFails(s) = EchoRecvFails(s)
             /\ Poll!Readable(s) = Readable(s)
    /\ \A next : Poll!EchoSend(next) = EchoSend(next)
    /\ \A e : Poll!WaitError(e) = WaitError(e)
    /\ Poll!AcceptFails = AcceptFails /\ Poll!SendKills = SendKills
    /\ Poll!EchoTypeOK = EchoTypeOK /\ Poll!EchoTypeOK' = EchoTypeOK'
    /\ Poll!Open = Open /\ Poll!Open' = Open'
    /\ Poll!Fds = Fds /\ Poll!ServerFd = ServerFd
  BY
  DEF Poll!ClientStep, ClientStep, Poll!Down, Down, Poll!Connect, Connect,
      Poll!Write, Write, Poll!Connected, Connected, Poll!Read, Read,
      Poll!Shutdown, Shutdown, Poll!Reset, Reset, Poll!BSD, BSD, Poll!Abort,
      Abort, Poll!echoVars, echoVars, Poll!kernelVars, kernelVars,
      Poll!Accept, Accept, Poll!AcceptFails, AcceptFails, Poll!Open, Open,
      Poll!Fds, Fds, Poll!ServerFd, ServerFd, Poll!Close, Close,
      Poll!EchoRecv, EchoRecv, Poll!EchoRecvFails, EchoRecvFails, Poll!Eof,
      Eof, Poll!Filled, Filled, Poll!Least, Least, Poll!Message, Message,
      Poll!Room, Room, Poll!SendData, SendData, Poll!SendFails, SendFails,
      Poll!EchoSend, EchoSend, Poll!SendKills, SendKills, Poll!WaitError,
      WaitError, Poll!Readable, Readable, Poll!EchoTypeOK, EchoTypeOK,
      Poll!Byte, Byte

PollLoop ==
    /\ pc \in {"wait", "serve", "send", "exited", "killed"}
    /\ open_sockets \subseteq Fds
    /\ entries \in Seq(Fds \union {-1}) /\ Len(entries) <= NFds
    /\ revents \subseteq 0..NFds
    /\ i \in 1..(NFds + 1)
    /\ closed_sockets \subseteq open_sockets
    /\ open_sockets \ closed_sockets = Open
    /\ closed_sockets \intersect Open = {}
    /\ \A j \in DOMAIN entries : j >= i => entries[j] \in Open
    /\ \A j, k \in DOMAIN entries :
          entries[j] = entries[k] /\ entries[j] # -1 => j = k
    /\ pc = "send" => i \in DOMAIN entries
    /\ pc = "wait" => closed_sockets = {}

\* The array is no longer than there are descriptors.
LEMMA PollEntries ==
    ASSUME open_sockets \subseteq Fds, NEW f, f \in Poll!Entries
    PROVE  /\ f \in Seq(open_sockets) /\ Len(f) <= NFds
           /\ DOMAIN f = 1..Len(f) /\ DOMAIN f \subseteq 1..NFds
           /\ \A j, k \in DOMAIN f : f[j] = f[k] => j = k
<1>1. /\ IsFiniteSet(Fds) /\ Cardinality(Fds) = NFds /\ NFds \in Nat
  <2>1. 1 \in Int /\ NFds \in Int /\ NFds >= 1
    BY EchoAssumption
  <2> QED
    BY <2>1, FS_Interval, EchoAssumption DEF Fds
<1>2. Cardinality(open_sockets) \in Nat /\ Cardinality(open_sockets) <= NFds
  BY <1>1, FS_Subset, FS_CardinalityType
<1>3. /\ f \in [1..Cardinality(open_sockets) -> open_sockets]
      /\ \A j, k \in DOMAIN f : j < k => f[j] < f[k]
  <2>1. \A S : Poll!Cardinality(S) = Cardinality(S)
    BY DEF Poll!Cardinality, Cardinality
  <2> QED
    BY <2>1 DEF Poll!Entries
<1>4. f \in Seq(open_sockets) /\ Len(f) = Cardinality(open_sockets)
  BY <1>2, <1>3
<1>5. ASSUME NEW j \in DOMAIN f, NEW k \in DOMAIN f, f[j] = f[k] PROVE j = k
  <2>1. f[j] \in Fds /\ f[k] \in Fds /\ j \in 1..Cardinality(open_sockets)
        /\ k \in 1..Cardinality(open_sockets)
    BY <1>3
  <2>2. j \in Int /\ k \in Int /\ f[j] \in Int /\ f[k] \in Int
    BY <1>1, <1>2, <2>1 DEF Fds
  <2> QED
    BY <1>3, <1>5, <2>2
<1>6. DOMAIN f = 1..Len(f) /\ DOMAIN f \subseteq 1..NFds
  <2>1. DOMAIN f = 1..Cardinality(open_sockets)
    BY <1>3
  <2> QED
    BY <1>1, <1>2, <1>4, <2>1
<1> QED
  BY <1>2, <1>4, <1>5, <1>6

\* The entry of a socket is invalidated and the loop goes on.
LEMMA PollPass ==
    ASSUME PollLoop, NEW P, P \subseteq Open, P \subseteq Fds,
           i \in DOMAIN entries, Open \ P \subseteq {entries[i]}, Poll!Pass
    PROVE  /\ entries' \in Seq(Fds \union {-1}) /\ Len(entries') <= NFds
           /\ i' \in 1..(NFds + 1)
           /\ \A j \in DOMAIN entries' : j >= i' => entries'[j] \in P
           /\ \A j, k \in DOMAIN entries' :
                 entries'[j] = entries'[k] /\ entries'[j] # -1 => j = k
<1> USE DEF PollLoop
<1>1. /\ entries \in Seq(Fds \union {-1}) /\ DOMAIN entries = 1..Len(entries)
      /\ Len(entries) \in Nat /\ i \in 1..Len(entries) /\ NFds \in Nat
  BY LenProperties, EchoAssumption
<1>2. entries' = [entries EXCEPT ![i] = -1] /\ i' = i + 1
  BY DEF Poll!Pass
<1>3. /\ entries' \in Seq(Fds \union {-1}) /\ Len(entries') = Len(entries)
      /\ \A j \in 1..Len(entries) : entries'[j] = IF j = i THEN -1 ELSE entries[j]
  BY <1>1, <1>2, ExceptSeq
<1>4. DOMAIN entries' = 1..Len(entries)
  BY <1>1, <1>2
<1>5. i' \in 1..(NFds + 1)
  BY <1>1, <1>2
<1>6. ASSUME NEW j \in DOMAIN entries', j >= i' PROVE entries'[j] \in P
  <2>1. j \in 1..Len(entries) /\ j >= i /\ j # i
    BY <1>1, <1>2, <1>4, <1>6
  <2>2. entries'[j] = entries[j] /\ entries[j] \in Open
    BY <1>1, <1>3, <2>1
  <2>3. entries[j] # -1
    BY <1>1, <2>1, <2>2, EchoAssumption DEF Fds
  <2>4. entries[j] # entries[i]
    BY <1>1, <2>1, <2>3
  <2> QED
    BY <2>2, <2>4
<1>7. \A j, k \in DOMAIN entries' :
         entries'[j] = entries'[k] /\ entries'[j] # -1 => j = k
  BY <1>1, <1>3, <1>4
<1> QED
  BY <1>3, <1>5, <1>6, <1>7

LEMMA PollStep ==
    ASSUME KernelInv, PhaseInv, PollLoop, PollRuns(Poll!Next)
    PROVE  KernelStep /\ PhaseInv' /\ PollLoop'
<1> USE PollCalls
<1>1. server = "poll" /\ OwnLoop
  BY DEF PollRuns, asyncVars, OwnLoop, AsyncServers
<1>2. Open \subseteq Fds /\ ServerFd \notin Fds
  BY DEF KernelInv, EchoTypeOK, Fds, ServerFd
<1>3. CASE ClientStep /\ UNCHANGED Poll!loopVars
  <2>1. KernelStep /\ PhaseInv' /\ UNCHANGED pc /\ Open' = Open
    BY <1>1, <1>3, ClientsMove DEF OwnLoop
  <2> QED
    BY <1>3, <2>1 DEF Poll!loopVars, PollLoop
<1>4. CASE Poll!PollFails
  <2>1. /\ pc = "wait" /\ pc' \in {"wait", "exited"} /\ errno' \in Errno
        /\ UNCHANGED <<kernelVars, buffer, received, socket>>
        /\ UNCHANGED <<open_sockets, entries, revents, i, closed_sockets>>
    BY <1>4 DEF Poll!PollFails, WaitError, Errno, Poll!loopVars
  <2>2. KernelStep /\ PhaseInv' /\ Open' = Open
    BY <1>1, <2>1, NothingMoves
  <2> QED
    BY <2>1, <2>2 DEF PollLoop
<1>5. CASE Poll!Poll
  <2>1. /\ pc = "wait" /\ pc' = "serve"
        /\ UNCHANGED <<kernelVars, errno, buffer, received, socket, open_sockets>>
        /\ entries' \in Poll!Entries
        /\ revents' \subseteq DOMAIN entries' \union {0}
        /\ i' = 1 /\ closed_sockets' = {}
    BY <1>5 DEF Poll!Poll, Poll!kernelVars, kernelVars, Poll!echoVars
  <2>2. KernelStep /\ PhaseInv' /\ Open' = Open
    BY <1>1, <2>1, NothingMoves
  <2>3. open_sockets = Open
    BY <2>1 DEF PollLoop
  <2>4. /\ entries' \in Seq(open_sockets) /\ Len(entries') <= NFds
        /\ DOMAIN entries' = 1..Len(entries') /\ DOMAIN entries' \subseteq 1..NFds
        /\ \A j, k \in DOMAIN entries' : entries'[j] = entries'[k] => j = k
    BY <2>1, PollEntries DEF PollLoop
  <2>5. \A j \in DOMAIN entries' : entries'[j] \in Open
    BY <2>3, <2>4, ElementOfSeq
  <2>6. entries' \in Seq(Fds \union {-1})
    BY <1>2, <2>3, <2>4, SeqMonotonic
  <2>7. revents' \subseteq 0..NFds /\ i' \in 1..(NFds + 1)
    BY <2>1, <2>4, EchoAssumption
  <2> QED
    BY <1>2, <2>1, <2>2, <2>3, <2>4, <2>5, <2>6, <2>7 DEF PollLoop
<1>6. CASE Poll!Skip
  <2>1. /\ pc = "serve" /\ pc' = pc /\ i \in DOMAIN entries /\ Poll!Pass
        /\ UNCHANGED <<kernelVars, errno, buffer, received, socket>>
        /\ UNCHANGED <<open_sockets, revents, closed_sockets>>
    BY <1>6 DEF Poll!Skip, Poll!kernelVars, kernelVars, Poll!echoVars
  <2>2. KernelStep /\ PhaseInv' /\ Open' = Open
    BY <1>1, <2>1, NothingMoves
  <2>3. /\ entries' \in Seq(Fds \union {-1}) /\ Len(entries') <= NFds
        /\ i' \in 1..(NFds + 1)
        /\ \A j \in DOMAIN entries' : j >= i' => entries'[j] \in Open
        /\ \A j, k \in DOMAIN entries' :
              entries'[j] = entries'[k] /\ entries'[j] # -1 => j = k
    BY <1>2, <2>1, PollPass
  <2> QED
    BY <2>1, <2>2, <2>3 DEF PollLoop
<1>7. CASE Poll!Serve
  <2>1. /\ pc = "serve" /\ i \in DOMAIN entries
        /\ EchoRecv(entries[i]) \/ EchoRecvFails(entries[i])
        /\ UNCHANGED <<open_sockets, entries, revents, i, closed_sockets>>
    BY <1>7 DEF Poll!Serve, Poll!loopVars
  <2>2. entries[i] \in Fds
    BY <1>2, <2>1 DEF PollLoop
  <2>3. KernelStep /\ PhaseInv' /\ pc' = "send" /\ Open' = Open
    BY <1>1, <2>1, <2>2, RecvMoves
  <2> QED
    BY <2>1, <2>3 DEF PollLoop
<1>8. CASE Poll!ServeEof
  <2>1. /\ pc = "serve" /\ i \in DOMAIN entries /\ Eof(entries[i]) /\ Poll!Pass
        /\ UNCHANGED <<pc, errno, buffer, received, socket, open_sockets, revents>>
    BY <1>8 DEF Poll!ServeEof, Poll!echoVars
  <2>2. CASE UNCHANGED <<kernelVars, closed_sockets>>
    <3>1. KernelStep /\ PhaseInv' /\ Open' = Open
      BY <1>1, <2>1, <2>2, NothingMoves
    <3>2. /\ entries' \in Seq(Fds \union {-1}) /\ Len(entries') <= NFds
          /\ i' \in 1..(NFds + 1)
          /\ \A j \in DOMAIN entries' : j >= i' => entries'[j] \in Open
          /\ \A j, k \in DOMAIN entries' :
                entries'[j] = entries'[k] /\ entries'[j] # -1 => j = k
      BY <1>2, <2>1, PollPass
    <3> QED
      BY <2>1, <2>2, <3>1, <3>2 DEF PollLoop
  <2>3. CASE /\ Close(entries[i])
             /\ closed_sockets' = closed_sockets \union {entries[i]}
    <3> DEFINE s == entries[i]
    <3>1. s \in Open /\ link[owner[s]] # "up" /\ socket' \in Fds \union {ServerFd}
      BY <2>1 DEF Eof, KernelInv, EchoTypeOK
    <3>2. KernelStep /\ PhaseInv' /\ Open' = Open \ {s}
      <4>1. pc' \notin {"exited", "killed"} /\ pc \notin {"send", "exited", "killed"}
        BY <2>1
      <4> QED
        BY <1>1, <2>1, <2>3, <3>1, <4>1, CloseMoves
    <3>3. Open' \subseteq Open /\ Open' \subseteq Fds /\ Open \ Open' \subseteq {s}
      BY <1>2, <3>2
    <3>4. /\ entries' \in Seq(Fds \union {-1}) /\ Len(entries') <= NFds
          /\ i' \in 1..(NFds + 1)
          /\ \A j \in DOMAIN entries' : j >= i' => entries'[j] \in Open'
          /\ \A j, k \in DOMAIN entries' :
                entries'[j] = entries'[k] /\ entries'[j] # -1 => j = k
      BY <2>1, <3>3, PollPass
    <3> QED
      BY <1>2, <2>1, <2>3, <3>1, <3>2, <3>4 DEF PollLoop
  <2> QED
    BY <1>8, <2>2, <2>3 DEF Poll!ServeEof, Poll!kernelVars, kernelVars
<1>9. CASE Poll!Send
  <2>1. /\ KernelStep /\ PhaseInv' /\ Open' = Open /\ pc = "send"
        /\ \/ pc' = "serve" /\ Poll!Pass
              /\ UNCHANGED <<open_sockets, revents, closed_sockets>>
           \/ pc' = "killed" /\ UNCHANGED Poll!loopVars
    <3>1. CASE EchoSend("serve")
      BY <1>1, <1>9, <3>1, SendMoves DEF Poll!Send, EchoSend, SendKills
    <3>2. CASE SendKills
      BY <1>1, <1>9, <3>2, SendMoves DEF Poll!Send, EchoSend, SendKills
    <3> QED
      BY <1>9, <3>1, <3>2 DEF Poll!Send
  <2>2. CASE pc' = "serve" /\ Poll!Pass
             /\ UNCHANGED <<open_sockets, revents, closed_sockets>>
    <3>1. i \in DOMAIN entries
      BY <2>1 DEF PollLoop
    <3>2. /\ entries' \in Seq(Fds \union {-1}) /\ Len(entries') <= NFds
          /\ i' \in 1..(NFds + 1)
          /\ \A j \in DOMAIN entries' : j >= i' => entries'[j] \in Open
          /\ \A j, k \in DOMAIN entries' :
                entries'[j] = entries'[k] /\ entries'[j] # -1 => j = k
      BY <1>2, <2>2, <3>1, PollPass
    <3> QED
      BY <2>1, <2>2, <3>2 DEF PollLoop
  <2>3. CASE pc' = "killed" /\ UNCHANGED Poll!loopVars
    BY <2>1, <2>3 DEF PollLoop, Poll!loopVars
  <2> QED
    BY <2>1, <2>2, <2>3
<1>10. CASE Poll!Finish
  <2>1. /\ pc = "serve" /\ entries' = <<>> /\ revents' = {} /\ i' = 1
        /\ closed_sockets' = {}
        /\ UNCHANGED <<buffer, received, socket>>
    BY <1>10 DEF Poll!Finish
  <2>2. /\ entries' \in Seq(Fds \union {-1}) /\ Len(entries') <= NFds
        /\ DOMAIN entries' = {} /\ i' \in 1..(NFds + 1)
    <3>1. <<>> \in Seq(Fds \union {-1}) /\ Len(<<>>) = 0 /\ DOMAIN <<>> = 1..0
      BY EmptySeq, LenProperties
    <3> QED
      BY <2>1, <3>1, EchoAssumption
  <2>3. CASE /\ open_sockets' = open_sockets \ closed_sockets
             /\ pc' \in {"wait", "exited"}
             /\ errno' \in Errno \/ UNCHANGED errno
             /\ UNCHANGED kernelVars
    <3>1. KernelStep /\ PhaseInv' /\ Open' = Open
      BY <1>1, <2>1, <2>3, NothingMoves
    <3> QED
      BY <2>1, <2>2, <2>3, <3>1 DEF PollLoop
  <2>4. ASSUME NEW s \in Fds, Accept(s), pc' = "wait", UNCHANGED errno,
               open_sockets' = (open_sockets \ closed_sockets) \union {s}
        PROVE  KernelStep /\ PhaseInv' /\ PollLoop'
    <3>1. KernelStep /\ PhaseInv' /\ Open' = Open \union {s}
      BY <1>1, <2>1, <2>4, AcceptMoves
    <3> QED
      BY <1>2, <2>1, <2>2, <2>4, <3>1 DEF PollLoop
  <2> QED
    BY <1>10, <2>3, <2>4
    DEF Poll!Finish, Poll!Erased, Poll!kernelVars, kernelVars, AcceptFails, Errno
<1> QED
  BY <1>3, <1>4, <1>5, <1>6, <1>7, <1>8, <1>9, <1>10
  DEF PollRuns, Poll!Next, Poll!ServerStep
-----------------------------------------------------------------------------
(***************************************************************************)
(* The server with epoll                                                   *)
(***************************************************************************)
LEMMA EpollCalls ==
    /\ Epoll!ClientStep = ClientStep
    /\ \A s : /\ Epoll!Accept(s) = Accept(s) /\ Epoll!Close(s) = Close(s)
             /\ Epoll!EchoRecv(s) = EchoRecv(s) /\ Epoll!Eof(s) = Eof(s)
             /\ Epoll!EchoRecvFails(s) = EchoRecvFails(s)
             /\ Epoll!Readable(s) = Readable(s)
    /\ \A next : Epoll!EchoSend(next) = EchoSend(next)
    /\ \A e : Epoll!WaitError(e) = WaitError(e)
    /\ Epoll!AcceptFails = AcceptFails /\ Epoll!SendKills = SendKills
    /\ Epoll!EchoTypeOK = EchoTypeOK /\ Epoll!EchoTypeOK' = EchoTypeOK'
    /\ Epoll!Open = Open /\ Epoll!Open' = Open'
    /\ Epoll!Fds = Fds /\ Epoll!ServerFd = ServerFd
    /\ \A s : Epoll!HungUp(s) = HungUp(s)
  BY
  DEF Epoll!ClientStep, ClientStep, Epoll!Down, Down, Epoll!Connect, Connect,
      Epoll!Write, Write, Epoll!Connected, Connected, Epoll!Read, Read,
      Epoll!Shutdown, Shutdown, Epoll!Reset, Reset, Epoll!BSD, BSD,
      Epoll!Abort, Abort, Epoll!echoVars, echoVars, Epoll!kernelVars,
      kernelVars, Epoll!Accept, Accept, Epoll!AcceptFails, AcceptFails,
      Epoll!Open, Open, Epoll!Fds, Fds, Epoll!ServerFd, ServerFd,
      Epoll!Close, Close, Epoll!EchoRecv, EchoRecv, Epoll!EchoRecvFails,
      EchoRecvFails, Epoll!Eof, Eof, Epoll!Filled, Filled, Epoll!Least,
      Least, Epoll!Message, Message, Epoll!Room, Room, Epoll!SendData,
      SendData, Epoll!SendFails, SendFails, Epoll!EchoSend, EchoSend,
      Epoll!SendKills, SendKills, Epoll!WaitError, WaitError, Epoll!Readable,
      Readable, Epoll!EchoTypeOK, EchoTypeOK, Epoll!Byte, Byte, Epoll!HungUp,
      HungUp

\* The events of a batch are of different sockets, all of them still open and
\* watched, and a socket reported with EPOLLHUP stays hung up.
EpollLoop ==
    /\ pc \in {"wait", "serve", "echo_closed", "send", "exited", "killed"}
    /\ events \subseteq Epoll!Event
    /\ watched = (Open \ unwatched) \union {ServerFd}
    /\ unwatched \subseteq Open
    /\ \A e \in events : e.fd # ServerFd =>
          /\ e.fd \in Open \ unwatched
          /\ owner[e.fd] = e.who
          /\ e.hup => link[owner[e.fd]] \in {"reset", "dead"}
    /\ \A d, e \in events : d.fd = e.fd => d = e
    /\ pc = "echo_closed" => socket \in Fds

\* A batch stays current if its descriptors keep their connections.
LEMMA EpollBatch ==
    ASSUME KernelInv, EpollLoop, LinksStay, events' \subseteq events,
           \A e \in events' : e.fd # ServerFd =>
               e.fd \in Open' \ unwatched' /\ owner'[e.fd] = owner[e.fd]
    PROVE  /\ events' \subseteq Epoll!Event
           /\ \A e \in events' : e.fd # ServerFd =>
                 /\ e.fd \in Open' \ unwatched'
                 /\ owner'[e.fd] = e.who
                 /\ e.hup => link'[owner'[e.fd]] \in {"reset", "dead"}
           /\ \A d, e \in events' : d.fd = e.fd => d = e
<1>1. \A e \in events : e.fd # ServerFd => owner[e.fd] \in Clients
  BY DEF EpollLoop, KernelInv, EchoTypeOK
<1> QED
  BY <1>1 DEF EpollLoop, LinksStay

\* What epoll_wait reports is current.
LEMMA EpollReports ==
    ASSUME KernelInv, EpollLoop, NEW err \in BOOLEAN,
           NEW B, B \subseteq Epoll!Reportable(err)
    PROVE  /\ B \subseteq Epoll!Event
           /\ \A e \in B : e.fd # ServerFd =>
                 /\ e.fd \in Open \ unwatched
                 /\ owner[e.fd] = e.who
                 /\ e.hup => link[owner[e.fd]] \in {"reset", "dead"}
           /\ \A d, e \in B : d.fd = e.fd => d = e
<1> USE EpollCalls
<1> DEFINE Of(s) == [fd |-> s, hup |-> HungUp(s), who |-> owner[s]]
           Own == [fd |-> ServerFd, hup |-> err, who |-> Nobody]
<1>1. ASSUME NEW e \in B
      PROVE  (\E s \in watched \ {ServerFd} : e = Of(s)) \/ e = Own
  BY DEF Epoll!Reportable
<1>2. Own \in Epoll!Event /\ Own.fd = ServerFd
  BY DEF Epoll!Event
<1>3. ASSUME NEW s \in watched \ {ServerFd}
      PROVE  /\ s \in Open \ unwatched /\ Of(s) \in Epoll!Event
             /\ Of(s).fd = s /\ Of(s).who = owner[s] /\ Of(s).hup = HungUp(s)
  <2>1. s \in Open \ unwatched /\ s \in Fds /\ owner[s] \in Clients
    BY DEF EpollLoop, KernelInv, EchoTypeOK
  <2>2. HungUp(s) \in BOOLEAN
    BY DEF HungUp
  <2> QED
    BY <2>1, <2>2 DEF Epoll!Event
<1> HIDE DEF Of, Own
<1>4. B \subseteq Epoll!Event
  BY <1>1, <1>2, <1>3
<1>5. ASSUME NEW e \in B, e.fd # ServerFd
      PROVE  /\ e.fd \in Open \ unwatched /\ owner[e.fd] = e.who
             /\ e.hup => link[owner[e.fd]] \in {"reset", "dead"}
             /\ e = Of(e.fd)
  <2>1. PICK s \in watched \ {ServerFd} : e = Of(s)
    BY <1>1, <1>2, <1>5
  <2> QED
    BY <1>3, <2>1 DEF HungUp
<1>6. ASSUME NEW d \in B, NEW e \in B, d.fd = e.fd PROVE d = e
  <2>1. CASE e.fd # ServerFd
    BY <1>5, <1>6, <2>1
  <2>2. CASE e.fd = ServerFd
    BY <1>1, <1>3, <1>6, <2>2
  <2> QED
    BY <2>1, <2>2
<1> QED
  BY <1>4, <1>5, <1>6

LEMMA EpollStep ==
    ASSUME KernelInv, PhaseInv, EpollLoop, EpollRuns(Epoll!Next)
    PROVE  KernelStep /\ PhaseInv' /\ EpollLoop'
<1> USE EpollCalls
<1>1. server = "epoll" /\ OwnLoop
  BY DEF EpollRuns, asyncVars, OwnLoop, AsyncServers
<1>2. Open \subseteq Fds /\ ServerFd \notin Fds
  BY DEF KernelInv, EchoTypeOK, Fds, ServerFd
\* The steps that close and accept nothing.
<1>3. ASSUME KernelStep, PhaseInv', Open' = Open, UNCHANGED owner, LinksStay,
             events' \subseteq events, UNCHANGED <<watched, unwatched>>,
             pc' \in {"wait", "serve", "send", "exited", "killed"} \/
                 UNCHANGED <<pc, socket>>
      PROVE  KernelStep /\ PhaseInv' /\ EpollLoop'
  <2>1. \A e \in events' : e.fd # ServerFd =>
            e.fd \in Open' \ unwatched' /\ owner'[e.fd] = owner[e.fd]
    BY <1>3 DEF EpollLoop
  <2>2. /\ pc' \in {"wait", "serve", "echo_closed", "send", "exited", "killed"}
        /\ pc' = "echo_closed" => socket' \in Fds
    BY <1>3 DEF EpollLoop
  <2> QED
    BY <1>3, <2>1, <2>2, EpollBatch DEF EpollLoop
<1>4. CASE ClientStep /\ UNCHANGED Epoll!loopVars
  <2>1. /\ KernelStep /\ PhaseInv' /\ Open' = Open /\ LinksStay
        /\ UNCHANGED <<owner, pc, socket>>
    BY <1>1, <1>4, ClientsMove DEF OwnLoop
  <2> QED
    BY <1>3, <1>4, <2>1 DEF Epoll!loopVars
<1>5. CASE Epoll!EpollWaitFails
  <2>1. /\ pc = "wait" /\ pc' = "exited" /\ errno' \in Errno
        /\ UNCHANGED <<kernelVars, buffer, received, socket>>
        /\ UNCHANGED <<watched, events, unwatched>>
    BY <1>5 DEF Epoll!EpollWaitFails, WaitError, Errno, Epoll!loopVars
  <2>2. KernelStep /\ PhaseInv' /\ Open' = Open /\ UNCHANGED owner /\ LinksStay
    BY <1>1, <2>1, NothingMoves
  <2> QED
    BY <1>3, <2>1, <2>2
<1>6. CASE Epoll!epoll_wait
  <2>1. PICK err \in BOOLEAN : events' \subseteq Epoll!Reportable(err)
    BY <1>6 DEF Epoll!epoll_wait
  <2>2. /\ pc = "wait" /\ pc' = "serve" /\ UNCHANGED <<watched, unwatched>>
        /\ UNCHANGED <<kernelVars, errno, buffer, received, socket>>
    BY <1>6 DEF Epoll!epoll_wait, Epoll!kernelVars, kernelVars, Epoll!echoVars
  <2>3. KernelStep /\ PhaseInv' /\ Open' = Open /\ UNCHANGED <<owner, link>>
    BY <1>1, <2>2, NothingMoves DEF kernelVars
  <2>4. /\ events' \subseteq Epoll!Event
        /\ \A e \in events' : e.fd # ServerFd =>
              /\ e.fd \in Open \ unwatched
              /\ owner[e.fd] = e.who
              /\ e.hup => link[owner[e.fd]] \in {"reset", "dead"}
        /\ \A d, e \in events' : d.fd = e.fd => d = e
    BY <2>1, EpollReports
  <2> QED
    BY <2>2, <2>3, <2>4 DEF EpollLoop
<1>7. ASSUME NEW e \in events, Epoll!Serve(e)
      PROVE  KernelStep /\ PhaseInv' /\ EpollLoop'
  <2>1. /\ pc = "serve" /\ e.fd # ServerFd
        /\ EchoRecv(e.fd) \/ EchoRecvFails(e.fd)
        /\ events' \subseteq events /\ UNCHANGED <<watched, unwatched>>
    BY <1>7 DEF Epoll!Serve, Epoll!Done
  <2>2. e.fd \in Fds
    BY <1>2, <2>1 DEF EpollLoop
  <2>3. /\ KernelStep /\ PhaseInv' /\ pc' = "send" /\ Open' = Open
        /\ UNCHANGED owner /\ LinksStay
    BY <1>1, <2>1, <2>2, RecvMoves
  <2> QED
    BY <1>3, <2>1, <2>3
\* A socket of the batch is closed: it was watched, and no other event is its own.
<1>8. ASSUME NEW e \in events, e.fd # ServerFd, pc = "serve", Close(e.fd),
             link[owner[e.fd]] # "up", watched' = watched \ {e.fd},
             events' = events \ {e}, pc' \in {"serve", "echo_closed"},
             socket' = e.fd \/ (pc' = "serve" /\ UNCHANGED socket),
             UNCHANGED <<errno, buffer, received, unwatched>>
      PROVE  KernelStep /\ PhaseInv' /\ EpollLoop'
  <2>1. e.fd \in Open \ unwatched /\ e.fd \in Fds /\ socket' \in Fds \union {ServerFd}
    BY <1>2, <1>8 DEF EpollLoop, KernelInv, EchoTypeOK
  <2>2. /\ KernelStep /\ PhaseInv' /\ LinksStay /\ Open' = Open \ {e.fd}
        /\ \A t \in Open' : owner'[t] = owner[t]
    <3>1. pc \notin {"send", "exited", "killed"} /\ pc' \notin {"exited", "killed"}
      BY <1>8
    <3> QED
      BY <1>1, <1>8, <2>1, <3>1, CloseMoves
  <2>3. \A d \in events' : d.fd # ServerFd =>
            d.fd \in Open' \ unwatched' /\ owner'[d.fd] = owner[d.fd]
    BY <1>8, <2>2 DEF EpollLoop
  <2>4. events' \subseteq events
    BY <1>8
  <2>5. /\ watched' = (Open' \ unwatched') \union {ServerFd}
        /\ unwatched' \subseteq Open'
    BY <1>2, <1>8, <2>1, <2>2 DEF EpollLoop
  <2> QED
    BY <1>8, <2>1, <2>2, <2>3, <2>4, <2>5, EpollBatch DEF EpollLoop
<1>9. ASSUME NEW e \in events, Epoll!ServeEof(e)
      PROVE  KernelStep /\ PhaseInv' /\ EpollLoop'
  <2>1. /\ pc = "serve" /\ e.fd # ServerFd /\ Eof(e.fd)
        /\ events' = events \ {e} /\ UNCHANGED <<pc, unwatched>>
        /\ UNCHANGED <<errno, buffer, received, socket>>
    BY <1>9 DEF Epoll!ServeEof, Epoll!Done, Epoll!echoVars
  <2>2. CASE UNCHANGED <<kernelVars, watched>>
    <3>1. KernelStep /\ PhaseInv' /\ Open' = Open /\ UNCHANGED owner /\ LinksStay
      BY <1>1, <2>1, <2>2, NothingMoves
    <3> QED
      BY <1>3, <2>1, <2>2, <3>1
  <2>3. CASE Close(e.fd) /\ watched' = watched \ {e.fd}
    BY <1>8, <2>1, <2>3 DEF Eof
  <2> QED
    BY <1>9, <2>2, <2>3 DEF Epoll!ServeEof, Epoll!kernelVars, kernelVars
<1>10. ASSUME NEW e \in events, Epoll!HangUp(e)
       PROVE  KernelStep /\ PhaseInv' /\ EpollLoop'
  <2>1. /\ pc = "serve" /\ e.fd # ServerFd /\ Close(e.fd)
        /\ watched' = watched \ {e.fd} /\ socket' = e.fd /\ pc' = "echo_closed"
        /\ events' = events \ {e} /\ UNCHANGED <<errno, buffer, received, unwatched>>
        /\ e.hup
    BY <1>10 DEF Epoll!HangUp, Epoll!Done
  <2>2. link[owner[e.fd]] # "up"
    BY <2>1 DEF EpollLoop
  <2> QED
    BY <1>8, <2>1, <2>2
<1>11. CASE Epoll!EchoClosed
  <2>1. /\ pc = "echo_closed" /\ socket \in Fds /\ EchoRecvFails(socket)
        /\ UNCHANGED <<watched, events, unwatched>>
    BY <1>11 DEF Epoll!EchoClosed, EpollLoop, Epoll!loopVars
  <2>2. /\ KernelStep /\ PhaseInv' /\ pc' = "send" /\ Open' = Open
        /\ UNCHANGED owner /\ LinksStay
    BY <1>1, <2>1, RecvMoves
  <2> QED
    BY <1>3, <2>1, <2>2
<1>12. CASE Epoll!Send
  <2>1. /\ KernelStep /\ PhaseInv' /\ Open' = Open /\ UNCHANGED owner /\ LinksStay
        /\ pc' \in {"serve", "killed"}
    BY <1>1, <1>12, SendMoves DEF Epoll!Send
  <2> QED
    BY <1>3, <1>12, <2>1 DEF Epoll!Send, Epoll!loopVars
<1>13. ASSUME NEW e \in events, Epoll!AcceptNewConnection(e)
       PROVE  KernelStep /\ PhaseInv' /\ EpollLoop'
  <2>1. /\ pc = "serve" /\ events' \subseteq events
        /\ UNCHANGED <<pc, buffer, received, socket>>
    BY <1>13 DEF Epoll!AcceptNewConnection, Epoll!Done
  <2>2. CASE AcceptFails /\ UNCHANGED <<watched, unwatched>>
    <3>1. UNCHANGED kernelVars /\ errno' \in Errno
      BY <2>2 DEF AcceptFails, Errno
    <3>2. KernelStep /\ PhaseInv' /\ Open' = Open /\ UNCHANGED owner /\ LinksStay
      BY <1>1, <2>1, <3>1, NothingMoves
    <3> QED
      BY <1>3, <2>1, <2>2, <3>2
  <2>3. ASSUME NEW s \in Fds, Accept(s), errno' \in Errno \/ UNCHANGED errno,
               \/ watched' = watched \union {s} /\ UNCHANGED unwatched
               \/ unwatched' = unwatched \union {s} /\ UNCHANGED watched
        PROVE  KernelStep /\ PhaseInv' /\ EpollLoop'
    <3>1. /\ KernelStep /\ PhaseInv' /\ LinksStay
          /\ Open' = Open \union {s} /\ s \notin Open
          /\ \A t \in Open : owner'[t] = owner[t]
      BY <1>1, <2>1, <2>3, AcceptMoves
    <3>2. \A d \in events' : d.fd # ServerFd =>
              d.fd \in Open' \ unwatched' /\ owner'[d.fd] = owner[d.fd]
      BY <2>1, <2>3, <3>1 DEF EpollLoop
    <3>3. /\ watched' = (Open' \ unwatched') \union {ServerFd}
          /\ unwatched' \subseteq Open'
      BY <2>3, <3>1 DEF EpollLoop
    <3> QED
      BY <2>1, <3>1, <3>2, <3>3, EpollBatch DEF EpollLoop
  <2> QED
    BY <1>13, <2>2, <2>3
    DEF Epoll!AcceptNewConnection, Epoll!AddNewConnection, Errno
<1>14. ASSUME NEW e \in events, Epoll!ServerSocketClosed(e)
       PROVE  KernelStep /\ PhaseInv' /\ EpollLoop'
  <2>1. /\ pc = "serve" /\ pc' = "exited" /\ UNCHANGED <<watched, events, unwatched>>
        /\ UNCHANGED <<kernelVars, errno, buffer, received, socket>>
    BY <1>14 DEF Epoll!ServerSocketClosed, Epoll!kernelVars, kernelVars,
                 Epoll!echoVars, Epoll!loopVars
  <2>2. KernelStep /\ PhaseInv' /\ Open' = Open /\ UNCHANGED owner /\ LinksStay
    BY <1>1, <2>1, NothingMoves
  <2> QED
    BY <1>3, <2>1, <2>2
<1>15. CASE Epoll!Finish
  <2>1. /\ pc = "serve" /\ pc' = "wait" /\ UNCHANGED <<watched, events, unwatched>>
        /\ UNCHANGED <<kernelVars, errno, buffer, received, socket>>
    BY <1>15 DEF Epoll!Finish, Epoll!kernelVars, kernelVars,
                 Epoll!echoVars, Epoll!loopVars
  <2>2. KernelStep /\ PhaseInv' /\ Open' = Open /\ UNCHANGED owner /\ LinksStay
    BY <1>1, <2>1, NothingMoves
  <2> QED
    BY <1>3, <2>1, <2>2
<1> QED
  BY <1>4, <1>5, <1>6, <1>7, <1>9, <1>10, <1>11, <1>12, <1>13, <1>14, <1>15
  DEF EpollRuns, Epoll!Next, Epoll!ServerStep
-----------------------------------------------------------------------------
(***************************************************************************)
(* The server with kqueue                                                  *)
(***************************************************************************)
LEMMA KqueueCalls ==
    /\ Kqueue!ClientStep = ClientStep
    /\ \A s : /\ Kqueue!Accept(s) = Accept(s) /\ Kqueue!Close(s) = Close(s)
             /\ Kqueue!EchoRecv(s) = EchoRecv(s) /\ Kqueue!Eof(s) = Eof(s)
             /\ Kqueue!EchoRecvFails(s) = EchoRecvFails(s)
             /\ Kqueue!Readable(s) = Readable(s)
    /\ \A next : Kqueue!EchoSend(next) = EchoSend(next)
    /\ \A e : Kqueue!WaitError(e) = WaitError(e)
    /\ Kqueue!AcceptFails = AcceptFails /\ Kqueue!SendKills = SendKills
    /\ Kqueue!EchoTypeOK = EchoTypeOK /\ Kqueue!EchoTypeOK' = EchoTypeOK'
    /\ Kqueue!Open = Open /\ Kqueue!Open' = Open'
    /\ Kqueue!Fds = Fds /\ Kqueue!ServerFd = ServerFd
    /\ Kqueue!Down = Down /\ Kqueue!Down' = Down'
  BY
  DEF Kqueue!ClientStep, ClientStep, Kqueue!Down, Down, Kqueue!Connect,
      Connect, Kqueue!Write, Write, Kqueue!Connected, Connected, Kqueue!Read,
      Read, Kqueue!Shutdown, Shutdown, Kqueue!Reset, Reset, Kqueue!BSD, BSD,
      Kqueue!Abort, Abort, Kqueue!echoVars, echoVars, Kqueue!kernelVars,
      kernelVars, Kqueue!Accept, Accept, Kqueue!AcceptFails, AcceptFails,
      Kqueue!Open, Open, Kqueue!Fds, Fds, Kqueue!ServerFd, ServerFd,
      Kqueue!Close, Close, Kqueue!EchoRecv, EchoRecv, Kqueue!EchoRecvFails,
      EchoRecvFails, Kqueue!Eof, Eof, Kqueue!Filled, Filled, Kqueue!Least,
      Least, Kqueue!Message, Message, Kqueue!Room, Room, Kqueue!SendData,
      SendData, Kqueue!SendFails, SendFails, Kqueue!EchoSend, EchoSend,
      Kqueue!SendKills, SendKills, Kqueue!WaitError, WaitError,
      Kqueue!Readable, Readable, Kqueue!EchoTypeOK, EchoTypeOK, Kqueue!Byte,
      Byte

\* The events of a batch are of different sockets, all of them still open and
\* registered.
KqueueLoop ==
    /\ pc \in {"wait", "serve", "send", "exited", "killed"}
    /\ queue \subseteq Fds \union {ServerFd}
    /\ event_list \subseteq Kqueue!Event
    /\ new_sockets \subseteq Fds
    /\ ~Down => /\ Open \union {ServerFd} = queue \union new_sockets
                /\ queue \intersect new_sockets = {}
                /\ pc = "wait" => new_sockets = {}
    /\ \A e \in event_list : e.fd # ServerFd =>
          /\ e.fd \in Open \intersect queue
          /\ owner[e.fd] = e.who
    /\ \A d, e \in event_list : d.fd = e.fd => d = e

\* What kevent reports is current.
LEMMA KqueueReports ==
    ASSUME KernelInv, KqueueLoop, ~Down, pc = "wait",
           NEW B, B \subseteq Kqueue!Reportable
    PROVE  /\ B \subseteq Kqueue!Event
           /\ \A e \in B : e.fd # ServerFd =>
                 e.fd \in Open \intersect queue /\ owner[e.fd] = e.who
           /\ \A d, e \in B : d.fd = e.fd => d = e
<1> USE KqueueCalls
<1> DEFINE Of(s) == [fd |-> s, who |-> owner[s]]
           Own == [fd |-> ServerFd, who |-> Nobody]
<1>1. ASSUME NEW e \in B
      PROVE  (\E s \in queue \ {ServerFd} : e = Of(s)) \/ e = Own
  BY DEF Kqueue!Reportable
<1>2. Own \in Kqueue!Event /\ Own.fd = ServerFd
  BY DEF Kqueue!Event
<1>3. ASSUME NEW s \in queue \ {ServerFd}
      PROVE  /\ s \in Open \intersect queue /\ Of(s) \in Kqueue!Event
             /\ Of(s).fd = s /\ Of(s).who = owner[s]
  <2>1. s \in Open /\ s \in Fds /\ owner[s] \in Clients
    BY DEF KqueueLoop, KernelInv, EchoTypeOK
  <2> QED
    BY <2>1 DEF Kqueue!Event
<1> HIDE DEF Of, Own
<1>4. B \subseteq Kqueue!Event
  BY <1>1, <1>2, <1>3
<1>5. ASSUME NEW e \in B, e.fd # ServerFd
      PROVE  /\ e.fd \in Open \intersect queue /\ owner[e.fd] = e.who
             /\ e = Of(e.fd)
  <2>1. PICK s \in queue \ {ServerFd} : e = Of(s)
    BY <1>1, <1>2, <1>5
  <2> QED
    BY <1>3, <2>1
<1>6. ASSUME NEW d \in B, NEW e \in B, d.fd = e.fd PROVE d = e
  <2>1. CASE e.fd # ServerFd
    BY <1>5, <1>6, <2>1
  <2>2. CASE e.fd = ServerFd
    BY <1>1, <1>3, <1>6, <2>2
  <2> QED
    BY <2>1, <2>2
<1> QED
  BY <1>4, <1>5, <1>6

LEMMA KqueueStep ==
    ASSUME KernelInv, PhaseInv, KqueueLoop, KqueueRuns(Kqueue!Next)
    PROVE  KernelStep /\ PhaseInv' /\ KqueueLoop'
<1> USE KqueueCalls
<1>1. server = "kqueue" /\ OwnLoop
  BY DEF KqueueRuns, asyncVars, OwnLoop, AsyncServers
<1>2. Open \subseteq Fds /\ ServerFd \notin Fds
  BY DEF KernelInv, EchoTypeOK, Fds, ServerFd
\* The steps that close, accept and register nothing.
<1>3. ASSUME KernelStep, PhaseInv', Open' = Open, UNCHANGED owner,
             event_list' \subseteq event_list, UNCHANGED <<queue, new_sockets>>,
             pc' \in {"serve", "send", "exited", "killed"} \/ UNCHANGED pc
      PROVE  KernelStep /\ PhaseInv' /\ KqueueLoop'
  <2>1. ~Down
    BY <1>3 DEF KernelStep
  <2> QED
    BY <1>3, <2>1 DEF KqueueLoop, Down
<1>4. CASE ClientStep /\ UNCHANGED Kqueue!loopVars
  <2>1. KernelStep /\ PhaseInv' /\ Open' = Open /\ UNCHANGED <<owner, pc>>
    BY <1>1, <1>4, ClientsMove DEF OwnLoop
  <2> QED
    BY <1>3, <1>4, <2>1 DEF Kqueue!loopVars
<1>5. CASE Kqueue!KeventFails
  <2>1. /\ pc = "wait" /\ pc' = "exited" /\ errno' \in Errno
        /\ UNCHANGED <<kernelVars, buffer, received, socket>>
        /\ UNCHANGED <<queue, event_list, new_sockets>>
    BY <1>5 DEF Kqueue!KeventFails, WaitError, Errno, Kqueue!loopVars
  <2>2. KernelStep /\ PhaseInv' /\ Open' = Open /\ UNCHANGED owner
    BY <1>1, <2>1, NothingMoves
  <2> QED
    BY <1>3, <2>1, <2>2
<1>6. CASE Kqueue!kevent
  <2>1. /\ pc = "wait" /\ pc' = "serve" /\ event_list' \subseteq Kqueue!Reportable
        /\ new_sockets' = {} /\ UNCHANGED queue
        /\ UNCHANGED <<kernelVars, errno, buffer, received, socket>>
    BY <1>6 DEF Kqueue!kevent, Kqueue!kernelVars, kernelVars, Kqueue!echoVars
  <2>2. KernelStep /\ PhaseInv' /\ Open' = Open /\ UNCHANGED owner /\ ~Down
    BY <1>1, <2>1, NothingMoves DEF Down
  <2>3. /\ event_list' \subseteq Kqueue!Event
        /\ \A e \in event_list' : e.fd # ServerFd =>
              e.fd \in Open \intersect queue /\ owner[e.fd] = e.who
        /\ \A d, e \in event_list' : d.fd = e.fd => d = e
    BY <2>1, <2>2, KqueueReports
  <2> QED
    BY <2>1, <2>2, <2>3 DEF KqueueLoop
<1>7. ASSUME NEW e \in event_list, Kqueue!Serve(e)
      PROVE  KernelStep /\ PhaseInv' /\ KqueueLoop'
  <2>1. /\ pc = "serve" /\ e.fd # ServerFd
        /\ EchoRecv(e.fd) \/ EchoRecvFails(e.fd)
        /\ event_list' \subseteq event_list /\ UNCHANGED <<queue, new_sockets>>
    BY <1>7 DEF Kqueue!Serve, Kqueue!Done
  <2>2. e.fd \in Fds
    BY <1>2, <2>1 DEF KqueueLoop
  <2>3. KernelStep /\ PhaseInv' /\ pc' = "send" /\ Open' = Open /\ UNCHANGED owner
    BY <1>1, <2>1, <2>2, RecvMoves
  <2> QED
    BY <1>3, <2>1, <2>3
<1>8. ASSUME NEW e \in event_list, Kqueue!ServeEof(e)
      PROVE  KernelStep /\ PhaseInv' /\ KqueueLoop'
  <2>1. /\ pc = "serve" /\ e.fd # ServerFd /\ Eof(e.fd)
        /\ event_list' = event_list \ {e} /\ UNCHANGED <<pc, new_sockets>>
        /\ UNCHANGED <<errno, buffer, received, socket>>
    BY <1>8 DEF Kqueue!ServeEof, Kqueue!Done, Kqueue!echoVars
  <2>2. CASE UNCHANGED <<kernelVars, queue>>
    <3>1. KernelStep /\ PhaseInv' /\ Open' = Open /\ UNCHANGED owner
      BY <1>1, <2>1, <2>2, NothingMoves
    <3> QED
      BY <1>3, <2>1, <2>2, <3>1
  \* The socket was registered, and no other event of the batch is its own.
  <2>3. CASE Close(e.fd) /\ queue' = queue \ {e.fd}
    <3>1. /\ e.fd \in Open \intersect queue /\ e.fd \in Fds
          /\ link[owner[e.fd]] # "up" /\ socket' \in Fds \union {ServerFd}
      BY <1>2, <2>1 DEF KqueueLoop, KernelInv, EchoTypeOK, Eof
    <3>2. /\ KernelStep /\ PhaseInv' /\ Open' = Open \ {e.fd}
          /\ \A t \in Open' : owner'[t] = owner[t]
      <4>1. pc \notin {"send", "exited", "killed"} /\ pc' \notin {"exited", "killed"}
        BY <2>1
      <4> QED
        BY <1>1, <2>1, <2>3, <3>1, <4>1, CloseMoves
    <3>3. \A d \in event_list' : d.fd # ServerFd =>
              d.fd \in Open' \intersect queue' /\ owner'[d.fd] = d.who
      BY <2>1, <2>3, <3>2 DEF KqueueLoop
    <3>4. /\ Open' \union {ServerFd} = queue' \union new_sockets'
          /\ queue' \intersect new_sockets' = {}
      BY <2>1, <2>3, <3>1, <3>2 DEF KqueueLoop, Down
    <3> QED
      BY <2>1, <2>3, <3>2, <3>3, <3>4 DEF KqueueLoop
  <2> QED
    BY <1>8, <2>2, <2>3 DEF Kqueue!ServeEof, Kqueue!kernelVars, kernelVars
<1>9. CASE Kqueue!Send
  <2>1. /\ KernelStep /\ PhaseInv' /\ Open' = Open /\ UNCHANGED owner
        /\ pc' \in {"serve", "killed"}
    BY <1>1, <1>9, SendMoves DEF Kqueue!Send
  <2> QED
    BY <1>3, <1>9, <2>1 DEF Kqueue!Send, Kqueue!loopVars
<1>10. ASSUME NEW e \in event_list, Kqueue!AcceptNewConnection(e)
       PROVE  KernelStep /\ PhaseInv' /\ KqueueLoop'
  <2>1. /\ pc = "serve" /\ event_list' \subseteq event_list
        /\ UNCHANGED <<pc, buffer, received, socket, queue>>
    BY <1>10 DEF Kqueue!AcceptNewConnection, Kqueue!Done
  <2>2. CASE AcceptFails /\ UNCHANGED new_sockets
    <3>1. UNCHANGED kernelVars /\ errno' \in Errno
      BY <2>2 DEF AcceptFails, Errno
    <3>2. KernelStep /\ PhaseInv' /\ Open' = Open /\ UNCHANGED owner
      BY <1>1, <2>1, <3>1, NothingMoves
    <3> QED
      BY <1>3, <2>1, <2>2, <3>2
  <2>3. ASSUME NEW s \in Fds, Accept(s), UNCHANGED errno,
               new_sockets' = new_sockets \union {s}
        PROVE  KernelStep /\ PhaseInv' /\ KqueueLoop'
    <3>1. /\ KernelStep /\ PhaseInv'
          /\ Open' = Open \union {s} /\ s \notin Open
          /\ \A t \in Open : owner'[t] = owner[t]
      BY <1>1, <2>1, <2>3, AcceptMoves
    <3>2. /\ Open' \union {ServerFd} = queue' \union new_sockets'
          /\ queue' \intersect new_sockets' = {}
      BY <1>2, <2>1, <2>3, <3>1 DEF KqueueLoop, Down
    <3> QED
      BY <2>1, <2>3, <3>1, <3>2 DEF KqueueLoop
  <2> QED
    BY <1>10, <2>2, <2>3 DEF Kqueue!AcceptNewConnection
<1>11. CASE Kqueue!Finish
  <2>1. /\ pc = "serve" /\ event_list = {} /\ UNCHANGED event_list
        /\ new_sockets' = {}
        /\ \/ queue' = queue \union new_sockets /\ pc' = "wait"
           \/ queue' = queue /\ pc' = "exited"
        /\ errno' \in Errno \/ UNCHANGED errno
        /\ UNCHANGED <<kernelVars, buffer, received, socket>>
    BY <1>11 DEF Kqueue!Finish, Kqueue!Registered, Kqueue!kernelVars, kernelVars, Errno
  <2>2. KernelStep /\ PhaseInv' /\ Open' = Open /\ UNCHANGED owner
    BY <1>1, <2>1, NothingMoves
  <2> QED
    BY <2>1, <2>2 DEF KqueueLoop, Down
<1> QED
  BY <1>4, <1>5, <1>6, <1>7, <1>8, <1>9, <1>10, <1>11
  DEF KqueueRuns, Kqueue!Next, Kqueue!ServerStep
-----------------------------------------------------------------------------
(***************************************************************************)
(* The server with kqueue, one event at a time                             *)
(***************************************************************************)
LEMMA KqueueSingleCalls ==
    /\ KqueueSingle!ClientStep = ClientStep
    /\ \A s : /\ KqueueSingle!Accept(s) = Accept(s) /\ KqueueSingle!Close(s) = Close(s)
             /\ KqueueSingle!EchoRecv(s) = EchoRecv(s) /\ KqueueSingle!Eof(s) = Eof(s)
             /\ KqueueSingle!EchoRecvFails(s) = EchoRecvFails(s)
             /\ KqueueSingle!Readable(s) = Readable(s)
    /\ \A next : KqueueSingle!EchoSend(next) = EchoSend(next)
    /\ \A e : KqueueSingle!WaitError(e) = WaitError(e)
    /\ KqueueSingle!AcceptFails = AcceptFails /\ KqueueSingle!SendKills = SendKills
    /\ KqueueSingle!EchoTypeOK = EchoTypeOK /\ KqueueSingle!EchoTypeOK' = EchoTypeOK'
    /\ KqueueSingle!Open = Open /\ KqueueSingle!Open' = Open'
    /\ KqueueSingle!Fds = Fds /\ KqueueSingle!ServerFd = ServerFd
    /\ KqueueSingle!Down = Down
  BY
  DEF KqueueSingle!ClientStep, ClientStep, KqueueSingle!Down, Down,
      KqueueSingle!Connect, Connect, KqueueSingle!Write, Write,
      KqueueSingle!Connected, Connected, KqueueSingle!Read, Read,
      KqueueSingle!Shutdown, Shutdown, KqueueSingle!Reset, Reset,
      KqueueSingle!BSD, BSD, KqueueSingle!Abort, Abort,
      KqueueSingle!echoVars, echoVars, KqueueSingle!kernelVars, kernelVars,
      KqueueSingle!Accept, Accept, KqueueSingle!AcceptFails, AcceptFails,
      KqueueSingle!Open, Open, KqueueSingle!Fds, Fds, KqueueSingle!ServerFd,
      ServerFd, KqueueSingle!Close, Close, KqueueSingle!EchoRecv, EchoRecv,
      KqueueSingle!EchoRecvFails, EchoRecvFails, KqueueSingle!Eof, Eof,
      KqueueSingle!Filled, Filled, KqueueSingle!Least, Least,
      KqueueSingle!Message, Message, KqueueSingle!Room, Room,
      KqueueSingle!SendData, SendData, KqueueSingle!SendFails, SendFails,
      KqueueSingle!EchoSend, EchoSend, KqueueSingle!SendKills, SendKills,
      KqueueSingle!WaitError, WaitError, KqueueSingle!Readable, Readable,
      KqueueSingle!EchoTypeOK, EchoTypeOK, KqueueSingle!Byte, Byte

KqueueSingleLoop ==
    /\ pc \in {"wait", "send", "accept", "exited", "killed"}
    /\ queue \subseteq Fds \union {ServerFd}
    /\ ~Down => queue = Open \union {ServerFd}

LEMMA KqueueSingleStep ==
    ASSUME KernelInv, PhaseInv, KqueueSingleLoop,
           KqueueSingleRuns(KqueueSingle!Next)
    PROVE  KernelStep /\ PhaseInv' /\ KqueueSingleLoop'
<1> USE KqueueSingleCalls DEF KqueueSingleLoop
<1>1. server = "kqueue_single" /\ OwnLoop
  BY DEF KqueueSingleRuns, asyncVars, OwnLoop, AsyncServers
<1>2. Open \subseteq Fds /\ ServerFd \notin Fds
  BY DEF KernelInv, EchoTypeOK, Fds, ServerFd
<1>3. CASE ClientStep /\ UNCHANGED queue
  <2>1. KernelStep /\ PhaseInv' /\ Open' = Open /\ UNCHANGED pc
    BY <1>1, <1>3, ClientsMove DEF OwnLoop
  <2> QED
    BY <1>3, <2>1 DEF Down
<1>4. CASE KqueueSingle!KeventFails
  <2>1. /\ pc = "wait" /\ pc' = "exited" /\ errno' \in Errno /\ UNCHANGED queue
        /\ UNCHANGED <<kernelVars, buffer, received, socket>>
    BY <1>4 DEF KqueueSingle!KeventFails, WaitError, Errno
  <2>2. KernelStep /\ PhaseInv'
    BY <1>1, <2>1, NothingMoves
  <2> QED
    BY <2>1, <2>2 DEF Down
<1>5. ASSUME NEW s \in Fds, KqueueSingle!Serve(s)
      PROVE  KernelStep /\ PhaseInv' /\ KqueueSingleLoop'
  <2>1. /\ pc = "wait" /\ UNCHANGED queue
        /\ EchoRecv(s) \/ EchoRecvFails(s)
    BY <1>5 DEF KqueueSingle!Serve
  <2>2. KernelStep /\ PhaseInv' /\ pc' = "send" /\ Open' = Open
    BY <1>1, <2>1, RecvMoves
  <2> QED
    BY <2>1, <2>2 DEF Down
<1>6. ASSUME NEW s \in Fds, KqueueSingle!ServeEof(s)
      PROVE  KernelStep /\ PhaseInv' /\ KqueueSingleLoop'
  <2>1. /\ pc = "wait" /\ Eof(s) /\ UNCHANGED pc
        /\ UNCHANGED <<errno, buffer, received, socket>>
    BY <1>6 DEF KqueueSingle!ServeEof, KqueueSingle!echoVars
  <2>2. CASE UNCHANGED <<kernelVars, queue>>
    <3>1. KernelStep /\ PhaseInv' /\ Open' = Open
      BY <1>1, <2>1, <2>2, NothingMoves
    <3> QED
      BY <2>1, <2>2, <3>1 DEF Down
  <2>3. CASE Close(s) /\ queue' = queue \ {s}
    <3>1. s \in Open /\ link[owner[s]] # "up" /\ socket' \in Fds \union {ServerFd}
      BY <2>1 DEF Eof, KernelInv, EchoTypeOK
    <3>2. KernelStep /\ PhaseInv' /\ Open' = Open \ {s}
      <4>1. pc \notin {"send", "exited", "killed"} /\ pc' \notin {"exited", "killed"}
        BY <2>1
      <4> QED
        BY <1>1, <2>1, <2>3, <3>1, <4>1, CloseMoves
    <3> QED
      BY <1>2, <2>1, <2>3, <3>1, <3>2 DEF Down
  <2> QED
    BY <1>6, <2>2, <2>3 DEF KqueueSingle!ServeEof, KqueueSingle!kernelVars, kernelVars
<1>7. CASE KqueueSingle!Send
  <2>1. /\ KernelStep /\ PhaseInv' /\ Open' = Open
        /\ pc = "send" /\ pc' \in {"wait", "killed"}
    BY <1>1, <1>7, SendMoves DEF KqueueSingle!Send
  <2> QED
    BY <1>7, <2>1 DEF KqueueSingle!Send, Down
<1>8. CASE KqueueSingle!AcceptEvent
  <2>1. /\ pc = "wait" /\ pc' = "accept" /\ UNCHANGED queue
        /\ UNCHANGED <<kernelVars, errno, buffer, received, socket>>
    BY <1>8 DEF KqueueSingle!AcceptEvent, KqueueSingle!kernelVars, kernelVars,
                KqueueSingle!echoVars
  <2>2. KernelStep /\ PhaseInv' /\ Open' = Open
    BY <1>1, <2>1, NothingMoves
  <2> QED
    BY <2>1, <2>2 DEF Down
<1>9. CASE KqueueSingle!AcceptNewConnection
  <2>1. pc = "accept" /\ UNCHANGED <<buffer, received, socket>>
    BY <1>9 DEF KqueueSingle!AcceptNewConnection
  <2>2. CASE AcceptFails /\ UNCHANGED queue /\ pc' = "exited"
    <3>1. UNCHANGED kernelVars /\ errno' \in Errno
      BY <2>2 DEF AcceptFails, Errno
    <3>2. KernelStep /\ PhaseInv'
      BY <1>1, <2>1, <3>1, NothingMoves
    <3> QED
      BY <2>2, <3>2 DEF Down
  <2>3. ASSUME NEW s \in Fds, Accept(s), errno' \in Errno \/ UNCHANGED errno,
               \/ queue' = queue \union {s} /\ pc' = "wait"
               \/ queue' = queue /\ pc' = "exited"
        PROVE  KernelStep /\ PhaseInv' /\ KqueueSingleLoop'
    <3>1. KernelStep /\ PhaseInv' /\ Open' = Open \union {s}
      BY <1>1, <2>1, <2>3, AcceptMoves
    <3> QED
      BY <1>2, <2>1, <2>3, <3>1 DEF Down
  <2> QED
    BY <1>9, <2>2, <2>3
    DEF KqueueSingle!AcceptNewConnection, KqueueSingle!AddNewConnection, Errno
<1> QED
  BY <1>3, <1>4, <1>5, <1>6, <1>7, <1>8, <1>9
  DEF KqueueSingleRuns, KqueueSingle!Next, KqueueSingle!ServerStep
-----------------------------------------------------------------------------
(***************************************************************************)
(* The servers with a library                                              *)
(***************************************************************************)
AsyncLoop ==
    /\ pc \in {"wait", "send", "exited", "killed"}
    /\ sessions \subseteq Open
    /\ accepting \in BOOLEAN
    /\ \A s \in Open \ sessions : server = "libev" /\ link[owner[s]] # "up"
    /\ \A s \in Fds : output[s] # <<>> => s \in sessions
    /\ server = "asio" => \A s \in Fds : Len(output[s]) <= kBufferSize
    /\ pc = "send" => received > 0

\* The steps that close and accept nothing and leave the output alone.
LEMMA AsyncSame ==
    ASSUME KernelInv, AsyncLoop, Open' = Open, LinksStay,
           UNCHANGED <<server, owner, output, accepting>>,
           pc' \in {"wait", "send", "exited", "killed"}, pc' = "send" => received' > 0,
           \/ UNCHANGED sessions
           \/ \E s \in Open : /\ sessions' = sessions \ {s}
                              /\ server = "libev" /\ link[owner[s]] # "up"
                              /\ output[s] = <<>>
    PROVE  AsyncLoop'
<1>1. \A s \in Open : owner[s] \in Clients
  BY DEF KernelInv, EchoTypeOK
<1> QED
  BY <1>1 DEF AsyncLoop, LinksStay

LEMMA AsyncStep ==
    ASSUME KernelInv, OutputInv, PhaseInv, AsyncLoop, AsyncRuns(Async!Next)
    PROVE  KernelStep /\ PhaseInv' /\ AsyncLoop'
<1> USE AsyncCalls
<1>1. server \in AsyncServers /\ server' = server
  BY DEF AsyncRuns
<1>2. /\ Open \subseteq Fds /\ \A s \in Open : owner[s] \in Clients
      /\ errno \in Errno /\ socket \in Fds \union {ServerFd} /\ received \in Int
      /\ pc = "wait" => received = 0 /\ ~Down
  BY EchoAssumption DEF KernelInv, EchoTypeOK, Errno, PhaseInv, Down
<1>3. CASE ClientStep /\ UNCHANGED Async!asyncVars
  <2>1. UNCHANGED <<output, sessions, accepting>>
    BY <1>3 DEF Async!asyncVars
  <2>2. /\ KernelStep /\ PhaseInv' /\ Open' = Open /\ LinksStay
        /\ UNCHANGED <<owner, pc>>
    BY <1>1, <1>3, <2>1, ClientsMove
  <2>3. received' = received
    BY <1>3 DEF ClientStep, echoVars
  <2>4. pc' \in {"wait", "send", "exited", "killed"} /\ (pc' = "send" => received' > 0)
    BY <2>2, <2>3 DEF AsyncLoop
  <2> QED
    BY <1>1, <2>1, <2>2, <2>4, AsyncSame
\* The kernel's side is not touched.
<1>4. ASSUME pc = "wait", pc' \in {"wait", "exited", "killed"},
             UNCHANGED <<kernelVars, echoVars, output>>
      PROVE  /\ KernelStep /\ PhaseInv' /\ Open' = Open /\ LinksStay
             /\ UNCHANGED owner /\ pc' # "send"
  <2>1. Quiet
    BY <1>2, <1>4 DEF Quiet, echoVars
  <2> QED
    BY <1>1, <1>2, <1>4, <2>1
    DEF KernelStep, PhaseInv, echoVars, Open, kernelVars, LinksStay
<1>5. CASE Async!AcceptError
  <2>1. /\ pc = "wait" /\ pc' \in {"wait", "exited"} /\ accepting' \in BOOLEAN
        /\ UNCHANGED <<kernelVars, echoVars, sessions, output>>
    BY <1>5 DEF Async!AcceptError, AsyncLoop, Async!kernelVars, kernelVars,
                Async!echoVars, echoVars
  <2> QED
    BY <1>1, <1>4, <2>1 DEF AsyncLoop, LinksStay, kernelVars
<1>6. CASE Async!RunReturns
  <2>1. /\ pc = "wait" /\ pc' = "exited"
        /\ UNCHANGED <<kernelVars, echoVars, sessions, output, accepting>>
    BY <1>6 DEF Async!RunReturns, Async!kernelVars, kernelVars, Async!echoVars,
                echoVars, Async!asyncVars
  <2> QED
    BY <1>1, <1>4, <2>1, AsyncSame
<1>7. CASE Async!AcceptNew
  <2>1. PICK s \in Fds : Accept(s) /\ sessions' = sessions \union {s}
    BY <1>7 DEF Async!AcceptNew
  <2>2. /\ pc = "wait" /\ UNCHANGED <<pc, output, accepting>>
        /\ UNCHANGED <<errno, buffer, received, socket>>
    BY <1>7 DEF Async!AcceptNew, Async!echoVars
  <2>3. KernelStep
    BY <1>1, <1>2, <2>1, <2>2 DEF KernelStep, Accepting
  <2>4. /\ Open' = Open \union {s} /\ s \notin Open
        /\ \A t \in Open : owner'[t] = owner[t]
    BY <1>2, <2>1, <2>2, AcceptKeeps
  <2>5. UNCHANGED link
    BY <2>1 DEF Accept
  <2> QED
    BY <1>1, <2>1, <2>2, <2>3, <2>4, <2>5 DEF AsyncLoop, PhaseInv
<1>8. CASE Async!BlockingSend
  <2>1. /\ pc = "send" /\ server = "libev" /\ received > 0
        /\ UNCHANGED <<sessions, output, accepting>>
    BY <1>8 DEF Async!BlockingSend, Async!asyncVars, AsyncLoop
  <2>2. KernelStep
    BY <1>1, <1>8, <2>1 DEF KernelStep, InLibrary, Down
  <2>3. UNCHANGED owner /\ LinksStay
    <3>1. link \in [Clients -> {"up", "fin", "reset", "dead"}]
      BY DEF KernelInv, EchoTypeOK
    <3>2. UNCHANGED owner
      BY <1>8 DEF Async!BlockingSend
    <3>3. \/ UNCHANGED link
          \/ /\ link[owner[socket]] \in {"reset", "dead"}
             /\ link' = [link EXCEPT ![owner[socket]] = "dead"]
      BY <1>8 DEF Async!BlockingSend
    <3> QED
      BY <3>1, <3>2, <3>3 DEF LinksStay
  <2>4. \/ received' = 0 /\ pc' = "wait"
        \/ received' # 0 /\ pc' = pc
    BY <1>8 DEF Async!BlockingSend
  <2>5. received' \in Nat
    <3>1. KernelInv' /\ received \in Nat
      BY <1>1, <1>8, <2>1, BlockingSendKeeps
    <3>2. \/ received' = 0
          \/ \E n \in 1..received : received' = received - n
      BY <1>1, <1>8, <2>1, BlockingSendKeeps
    <3> QED
      BY <3>1, <3>2
  <2>6. pc' \in {"wait", "send", "exited"} /\ (pc' = "send" => received' > 0)
    BY <2>1, <2>4, <2>5
  <2>7. PhaseInv' /\ Open' = Open
    BY <2>1, <2>3, <2>4 DEF PhaseInv, Open
  <2> QED
    BY <1>1, <2>1, <2>2, <2>3, <2>6, <2>7, AsyncSame
<1>9. ASSUME NEW s \in Fds, Async!Take(s)
      PROVE  KernelStep /\ PhaseInv' /\ AsyncLoop'
  <2>1. /\ s \in sessions /\ s \in Open /\ pc = "wait"
        /\ server = "asio" => output[s] = <<>>
        /\ UNCHANGED <<owner, link, pc, received, sessions, accepting>>
    BY <1>9 DEF Async!Take, Async!Reading, Async!Buffered, AsyncLoop, Async!echoVars
  <2>2. KernelStep
    BY <1>1, <1>2, <1>9, <2>1 DEF KernelStep, InLibrary
  <2>3. \A t \in Fds \ {s} : output'[t] = output[t]
    BY <1>9 DEF Async!Take, OutputInv
  <2>4. ASSUME server = "asio" PROVE Len(output'[s]) <= kBufferSize
    <3> DEFINE r == rx[owner[s]]
               n == Least(kBufferSize, Len(r))
    <3>1. r \in Seq(Byte) /\ Len(r) \in Nat
      BY <1>2, <2>1, LenProperties DEF KernelInv, EchoTypeOK
    <3>2. n \in Int /\ n <= kBufferSize /\ n <= Len(r) /\ n > 0
      BY <1>9, <3>1, EchoAssumption DEF Least, Async!Take
    <3>3. output'[s] = output[s] \o SubSeq(r, 1, n)
      BY <1>9 DEF Async!Take, OutputInv
    <3> HIDE DEF n, r
    <3>4. SubSeq(r, 1, n) \in Seq(Byte) /\ Len(SubSeq(r, 1, n)) = n
      BY <3>1, <3>2, FrontIsSeq
    <3>5. output'[s] = SubSeq(r, 1, n)
      BY <2>1, <2>4, <3>3, <3>4, ConcatEmptySeq
    <3> QED
      BY <3>2, <3>4, <3>5
  <2>5. server' = "asio" => \A t \in Fds : Len(output'[t]) <= kBufferSize
    BY <1>1, <2>3, <2>4 DEF AsyncLoop
  <2> QED
    BY <1>1, <2>1, <2>2, <2>3, <2>5 DEF AsyncLoop, PhaseInv, Open
<1>10. ASSUME NEW s \in Fds, Async!Flush(s)
       PROVE  KernelStep /\ PhaseInv' /\ AsyncLoop'
  <2>1. /\ s \in sessions /\ s \in Open /\ pc = "wait"
        /\ UNCHANGED <<owner, link, pc, received, sessions, accepting>>
    BY <1>10 DEF Async!Flush, Async!Buffered, AsyncLoop, Async!echoVars
  <2>2. KernelStep
    BY <1>1, <1>2, <1>10, <2>1 DEF KernelStep, InLibrary
  <2>3. PICK n \in 1..Len(output[s]) :
           output' = [output EXCEPT ![s] = SubSeq(output[s], n + 1, Len(output[s]))]
    BY <1>1, <1>10, <2>1, FlushKeeps
  <2>4. output[s] \in Seq(Byte) /\ Len(output[s]) \in Nat
    BY LenProperties DEF OutputInv
  <2>5. Len(output'[s]) <= Len(output[s])
    <3>1. n \in Nat /\ n <= Len(output[s])
      BY <2>4
    <3>2. Len(SubSeq(output[s], n + 1, Len(output[s]))) = Len(output[s]) - n
      BY <2>4, <3>1, BackIsSeq
    <3> QED
      BY <2>3, <2>4, <3>1, <3>2 DEF OutputInv
  <2>6. \A t \in Fds \ {s} : output'[t] = output[t]
    BY <2>3 DEF OutputInv
  <2>7. Len(output'[s]) \in Int
    BY <1>1, <1>10, <2>1, FlushKeeps, LenProperties DEF OutputInv
  <2>8. server' = "asio" => \A t \in Fds : Len(output'[t]) <= kBufferSize
    BY <1>1, <2>4, <2>5, <2>6, <2>7, EchoAssumption DEF AsyncLoop
  <2> QED
    BY <1>1, <2>1, <2>2, <2>6, <2>8 DEF AsyncLoop, PhaseInv, Open
<1>11. ASSUME NEW s \in Fds, Async!End(s)
       PROVE  KernelStep /\ PhaseInv' /\ AsyncLoop'
  <2>1. /\ s \in sessions /\ s \in Open /\ pc = "wait" /\ server \in Buffering
        /\ link[owner[s]] # "up" /\ Close(s)
        /\ sessions' = sessions \ {s}
        /\ output' = [output EXCEPT ![s] = <<>>]
        /\ UNCHANGED <<pc, errno, buffer, received, socket, accepting>>
    BY <1>11 DEF Async!End, Async!Reading, Async!Buffered, AsyncLoop, Async!echoVars,
                 Buffering, HungUp
  <2>2. KernelStep
    <3>1. Closing(s)
      BY <1>2, <2>1 DEF Closing, Down
    <3> QED
      BY <1>1, <1>2, <2>1, <3>1 DEF KernelStep
  <2>3. Open' = Open \ {s} /\ (\A t \in Open' : owner'[t] = owner[t]) /\ UNCHANGED link
    BY <2>1 DEF Close, Open
  <2>4. output'[s] = <<>> /\ \A t \in Fds \ {s} : output'[t] = output[t]
    BY <2>1 DEF OutputInv
  <2>5. Len(<<>>) <= kBufferSize
    BY EmptySeq, EchoAssumption
  <2> QED
    BY <1>1, <2>1, <2>2, <2>3, <2>4, <2>5 DEF AsyncLoop, PhaseInv
<1>12. ASSUME NEW s \in Fds, Async!ReadCb(s)
       PROVE  KernelStep /\ PhaseInv' /\ AsyncLoop'
  <2>1. /\ pc = "wait" /\ server = "libev" /\ EchoRecv(s)
        /\ UNCHANGED <<sessions, output, accepting>>
    BY <1>12 DEF Async!ReadCb, Async!Watched, Async!asyncVars
  <2>2. KernelStep
    <3>1. Receiving(s)
      BY <1>2, <2>1 DEF Receiving, Buffering
    <3> QED
      BY <1>1, <1>2, <2>1, <3>1 DEF KernelStep
  <2>3. received' > 0 /\ pc' = "send" /\ UNCHANGED <<owner, link>>
    BY <2>1 DEF EchoRecv
  <2> QED
    BY <1>1, <2>1, <2>2, <2>3, AsyncSame DEF PhaseInv, Open, LinksStay
<1>13. ASSUME NEW s \in Fds, Async!ReadCbFails(s)
       PROVE  KernelStep /\ PhaseInv' /\ AsyncLoop'
  <2>1. /\ pc = "wait" /\ s \in Open /\ link[owner[s]] = "reset"
        /\ link' = [link EXCEPT ![owner[s]] = "dead"]
        /\ UNCHANGED <<owner, pc, received, sessions, output, accepting>>
    BY <1>13 DEF Async!ReadCbFails, Async!Watched, AsyncLoop, Async!asyncVars,
                 Async!echoVars
  <2>2. KernelStep
    BY <1>1, <1>2, <1>13, <2>1 DEF KernelStep, InLibrary
  <2>3. LinksStay
    BY <2>1 DEF LinksStay, KernelInv, EchoTypeOK
  <2> QED
    BY <1>1, <2>1, <2>2, <2>3, AsyncSame DEF PhaseInv, Open
<1>14. ASSUME NEW s \in Fds, Async!ReadCbEof(s)
       PROVE  KernelStep /\ PhaseInv' /\ AsyncLoop'
  <2>1. /\ pc = "wait" /\ server = "libev" /\ s \in Open /\ link[owner[s]] # "up"
        /\ sessions' = sessions \ {s}
        /\ UNCHANGED <<kernelVars, echoVars, pc, output, accepting>>
    BY <1>14 DEF Async!ReadCbEof, Async!Watched, Eof, AsyncLoop, Async!kernelVars,
                 kernelVars, Async!echoVars, echoVars
  <2>2. /\ KernelStep /\ PhaseInv' /\ Open' = Open /\ LinksStay
        /\ UNCHANGED owner /\ pc' # "send"
    BY <1>4, <2>1
  <2>3. output[s] = <<>>
    BY <2>1 DEF OutputInv, Buffering
  <2> QED
    BY <1>1, <2>1, <2>2, <2>3, AsyncSame
<1>15. ASSUME NEW s \in Fds, Async!WriteKills(s)
       PROVE  KernelStep /\ PhaseInv' /\ AsyncLoop'
  <2>1. /\ pc = "wait" /\ pc' = "killed"
        /\ UNCHANGED <<kernelVars, echoVars, sessions, output, accepting>>
    BY <1>15 DEF Async!WriteKills, Async!Buffered, Async!kernelVars, kernelVars,
                 Async!echoVars, echoVars, Async!asyncVars
  <2> QED
    BY <1>1, <1>4, <2>1, AsyncSame
<1> QED
  BY <1>3, <1>5, <1>6, <1>7, <1>8, <1>9, <1>10, <1>11, <1>12, <1>13, <1>14, <1>15
  DEF AsyncRuns, Async!Next, Async!ServerStep, Async!SessionStep
-----------------------------------------------------------------------------
(***************************************************************************)
(* The start-up                                                            *)
(***************************************************************************)
SetupInv ==
    /\ stage \in {"getaddrinfo", "socket", "setsockopt", "bind", "found",
                  "queue", "add", "listen", "serve", "failed", "crashed", "deaf"}
    /\ left \in 0..MaxAddrs
    /\ stage \in {"socket", "setsockopt", "bind"} => left > 0
    /\ socket_fd \in {Setup!ERROR, 0}
    /\ DOMAIN files \subseteq {0, 1}
    /\ files \in [DOMAIN files -> Setup!Kinds]
    /\ 1 \in DOMAIN files => files[1] = "queue"
    /\ stage \in {"getaddrinfo", "socket"} => DOMAIN files = {}
    /\ stage \in {"setsockopt", "bind"} => socket_fd = 0 /\ DOMAIN files = {0}
    /\ stage \in {"found", "queue"} => 1 \notin DOMAIN files
    /\ stage \in {"found", "queue", "add", "listen"} /\ 0 \in DOMAIN files =>
          files[0] \in {"bound", "queue"}
    /\ Setup!ListensWhereBound

\* The number of a new descriptor.
LEMMA FirstFree ==
    ASSUME DOMAIN files \in {{}, {0}}
    PROVE  Setup!LowestFree = IF DOMAIN files = {} THEN 0 ELSE 1
<1> DEFINE d == IF DOMAIN files = {} THEN 0 ELSE 1
           P(fd) == fd \notin DOMAIN files
                    /\ \A g \in 0..(fd - 1) : g \in DOMAIN files
<1>1. d \in 0..2 /\ P(d)
  OBVIOUS
<1>2. \A fd \in 0..2 : P(fd) => fd = d
  OBVIOUS
<1>3. Setup!LowestFree = CHOOSE fd \in 0..2 : P(fd)
  BY DEF Setup!LowestFree
<1> QED
  BY <1>1, <1>2, <1>3

LEMMA SetupKeeps ==
    ASSUME SetupInv, Setup!SetupNext
    PROVE  SetupInv'
<1> USE ServersAssumption DEF SetupInv, Setup!ListensWhereBound, Setup!ERROR
<1>1. CASE Setup!GetAddrInfo
  <2>1. /\ stage = "getaddrinfo" /\ socket_fd' = socket_fd /\ files' = files
        /\ \/ stage' = "socket" /\ left' \in 1..MaxAddrs
           \/ stage' \in {"failed", "crashed"} /\ left' = left
    BY <1>1 DEF Setup!GetAddrInfo, Setup!Fail
  <2>2. left' \in 0..MaxAddrs /\ (stage' = "socket" => left' > 0)
    BY <2>1
  <2> QED
    BY <2>1, <2>2
<1>2. CASE Setup!OpenSocket
  <2>1. stage = "socket" /\ DOMAIN files = {}
    BY <1>2 DEF Setup!OpenSocket
  <2>2. Setup!LowestFree = 0
    BY <2>1, FirstFree
  <2>3. CASE /\ socket_fd' = 0 /\ files' = Setup!Opened(0, "socket")
             /\ stage' = "setsockopt" /\ left' = left
    <3>1. files' = [g \in {0} |-> "socket"]
      BY <2>1, <2>3 DEF Setup!Opened
    <3> QED
      BY <2>1, <2>3, <3>1 DEF Setup!Kinds
  <2>4. CASE socket_fd' = Setup!ERROR /\ Setup!Continue /\ files' = files
    BY <2>1, <2>4 DEF Setup!Continue
  <2> QED
    BY <1>2, <2>2, <2>3, <2>4 DEF Setup!OpenSocket
<1>3. CASE Setup!SetSockOpt
  BY <1>3 DEF Setup!SetSockOpt, Setup!Fail
<1>4. CASE Setup!Bind
  <2>1. stage = "bind" /\ DOMAIN files = {0} /\ socket_fd = 0 /\ socket_fd' = 0
    BY <1>4 DEF Setup!Bind
  <2>2. CASE /\ files' = [files EXCEPT ![socket_fd] = "bound"]
             /\ stage' = "found" /\ left' = left
    <3>1. DOMAIN files' = {0} /\ files'[0] = "bound" /\ files' \in [{0} -> Setup!Kinds]
      BY <2>1, <2>2 DEF Setup!Kinds
    <3> QED
      BY <2>1, <2>2, <3>1
  <2>3. CASE files' = Setup!UnboundClosed /\ Setup!Continue
    <3>1. DOMAIN files' = {} /\ files' \in [{} -> Setup!Kinds]
      BY <2>1, <2>3 DEF Setup!UnboundClosed
    <3> QED
      BY <2>1, <2>3, <3>1 DEF Setup!Continue
  <2> QED
    BY <1>4, <2>2, <2>3 DEF Setup!Bind
<1>5. CASE Setup!Found
  BY <1>5 DEF Setup!Found, Setup!Fail
<1>6. CASE Setup!CreateQueue
  <2>1. CASE Setup!Fail
    BY <2>1 DEF Setup!Fail
  <2>2. CASE /\ stage = "queue" /\ stage' = "add"
             /\ files' = Setup!Opened(Setup!LowestFree, "queue")
             /\ left' = left /\ socket_fd' = socket_fd
    <3>1. DOMAIN files \in {{}, {0}}
      BY <2>2
    <3>2. CASE DOMAIN files = {}
      <4>1. files' = [g \in {0} |-> "queue"]
        BY <2>2, <3>1, <3>2, FirstFree DEF Setup!Opened
      <4> QED
        BY <2>2, <4>1 DEF Setup!Kinds
    <3>3. CASE DOMAIN files = {0}
      <4>1. files' = [g \in {0} \union {1} |-> IF g = 1 THEN "queue" ELSE files[g]]
        BY <2>2, <3>1, <3>3, FirstFree DEF Setup!Opened
      <4>2. /\ DOMAIN files' = {0, 1} /\ files'[0] = files[0] /\ files'[1] = "queue"
            /\ files[0] \in Setup!Kinds
        BY <3>3, <4>1
      <4>3. files' \in [{0, 1} -> Setup!Kinds]
        BY <4>1, <4>2 DEF Setup!Kinds
      <4> QED
        BY <2>2, <3>3, <4>2, <4>3
    <3> QED
      BY <3>1, <3>2, <3>3
  <2> QED
    BY <1>6, <2>1, <2>2 DEF Setup!CreateQueue
<1>7. CASE Setup!AddServerSocket
  BY <1>7 DEF Setup!AddServerSocket, Setup!Fail
<1>8. CASE Setup!Listen
  <2>1. CASE Setup!Fail
    BY <2>1 DEF Setup!Fail
  <2>2. CASE /\ stage = "listen" /\ stage' = "serve" /\ left' = 0
             /\ socket_fd' = socket_fd
             /\ socket_fd \in DOMAIN files
             /\ files[socket_fd] \in {"socket", "bound"}
             /\ files' = [files EXCEPT ![socket_fd] =
                              IF files[socket_fd] = "bound" THEN "listening"
                                                           ELSE "anywhere"]
    <3>1. socket_fd = 0 /\ files[0] = "bound"
      BY <2>2
    <3>2. /\ files' = [files EXCEPT ![0] = "listening"]
          /\ DOMAIN files' = DOMAIN files /\ files'[0] = "listening"
          /\ \A g \in DOMAIN files \ {0} : g = 1 /\ files'[g] = files[g]
      BY <2>2, <3>1
    <3>3. files' \in [DOMAIN files -> Setup!Kinds]
      BY <3>2 DEF Setup!Kinds
    <3> QED
      BY <2>2, <3>1, <3>2, <3>3
  <2> QED
    BY <1>8, <2>1, <2>2 DEF Setup!Listen
<1> QED
  BY <1>1, <1>2, <1>3, <1>4, <1>5, <1>6, <1>7, <1>8 DEF Setup!SetupNext

LEMMA StartKeeps ==
    ASSUME SetupInv, server \in AsyncServers, Async!Start, UNCHANGED left
    PROVE  SetupInv'
<1> USE DEF SetupInv, Setup!ListensWhereBound
<1>1. stage = "getaddrinfo"
  BY DEF Async!Start
<1>2. CASE /\ stage' = "serve" /\ socket_fd' = 0
           /\ files' = [fd \in {0} |-> "listening"]
  BY <1>1, <1>2 DEF Setup!Kinds
<1>3. CASE stage' \in {"failed", "deaf", "crashed"} /\ UNCHANGED <<socket_fd, files>>
  BY <1>1, <1>3
<1> QED
  BY <1>2, <1>3 DEF Async!Start, AsyncServers
-----------------------------------------------------------------------------
(***************************************************************************)
(* The inductive invariant                                                 *)
(***************************************************************************)
Loops ==
    /\ server = "select" => SelectLoop
    /\ server = "poll" => PollLoop
    /\ server = "epoll" => EpollLoop
    /\ server = "kqueue" => KqueueLoop
    /\ server = "kqueue_single" => KqueueSingleLoop
    /\ server \in AsyncServers => AsyncLoop

Inv ==
    /\ server \in Servers
    /\ SetupInv
    /\ KernelInv
    /\ OutputInv
    /\ PhaseInv
    /\ Loops

LEMMA InvInit == Init => Inv
<1> SUFFICES ASSUME Init PROVE Inv
  OBVIOUS
<1>1. /\ conn = [c \in Clients |-> "new"] /\ owner = [s \in {} |-> ServerFd]
      /\ pc = "wait" /\ received = 0 /\ EchoInit
      /\ server \in Servers
  BY DEF Init, EchoInit
<1>2. SetupInv
  BY ServersAssumption
  DEF Init, Setup!SetupInit, SetupInv, Setup!ListensWhereBound, Setup!ERROR
<1>3. KernelInv
  BY <1>1, KernelInit
<1>4. Open = {}
  BY <1>1 DEF Open
<1>5. output = [s \in Fds |-> <<>>] /\ sessions = {} /\ accepting = TRUE
  BY AsyncCalls DEF Init, Async!LoopInit
<1>6. <<>> \in Seq(Byte) /\ Len(<<>>) = 0 /\ <<>> \in Seq(Fds \union {-1})
  BY EmptySeq
<1>7. OutputInv /\ PhaseInv
  BY <1>1, <1>4, <1>5, <1>6 DEF OutputInv, PhaseInv
<1>8. SelectLoop
  BY <1>1, <1>4 DEF Init, Select!LoopInit, SelectLoop
<1>9. PollLoop
  <2>1. /\ open_sockets = {} /\ closed_sockets = {} /\ entries = <<>>
        /\ revents = {} /\ i = 1
    BY DEF Init, Poll!LoopInit
  <2>2. 1 \in 1..(NFds + 1) /\ 0 <= NFds /\ DOMAIN entries = {}
    BY <2>1, EchoAssumption
  <2> QED
    BY <1>1, <1>4, <1>6, <2>1, <2>2 DEF PollLoop
<1>10. EpollLoop
  BY <1>1, <1>4, EpollCalls DEF Init, Epoll!LoopInit, EpollLoop
<1>11. KqueueLoop /\ KqueueSingleLoop
  BY <1>1, <1>4, KqueueCalls DEF Init, Kqueue!LoopInit, KqueueLoop, KqueueSingleLoop
<1>12. AsyncLoop
  BY <1>1, <1>4, <1>5, <1>6, EchoAssumption DEF AsyncLoop
<1> QED
  BY <1>1, <1>2, <1>3, <1>7, <1>8, <1>9, <1>10, <1>11, <1>12 DEF Inv, Loops

\* Every step but the start-up's is of one of the kinds.
LEMMA InvStep ==
    ASSUME Inv, Next, ~StartUp
    PROVE  KernelStep /\ PhaseInv' /\ Loops' /\ UNCHANGED <<server, startVars>>
<1> USE DEF Inv, Loops
<1>1. CASE SelectRuns(Select!Next)
  <2>1. server = "select" /\ UNCHANGED <<server, startVars>>
    BY <1>1 DEF SelectRuns, Serving
  <2> QED
    BY <1>1, <2>1, SelectStep DEF AsyncServers
<1>2. CASE PollRuns(Poll!Next)
  <2>1. server = "poll" /\ UNCHANGED <<server, startVars>>
    BY <1>2 DEF PollRuns, Serving
  <2> QED
    BY <1>2, <2>1, PollStep DEF AsyncServers
<1>3. CASE EpollRuns(Epoll!Next)
  <2>1. server = "epoll" /\ UNCHANGED <<server, startVars>>
    BY <1>3 DEF EpollRuns, Serving
  <2> QED
    BY <1>3, <2>1, EpollStep DEF AsyncServers
<1>4. CASE KqueueRuns(Kqueue!Next)
  <2>1. server = "kqueue" /\ UNCHANGED <<server, startVars>>
    BY <1>4 DEF KqueueRuns, Serving
  <2> QED
    BY <1>4, <2>1, KqueueStep DEF AsyncServers
<1>5. CASE KqueueSingleRuns(KqueueSingle!Next)
  <2>1. server = "kqueue_single" /\ UNCHANGED <<server, startVars>>
    BY <1>5 DEF KqueueSingleRuns, Serving
  <2> QED
    BY <1>5, <2>1, KqueueSingleStep DEF AsyncServers
<1>6. CASE AsyncRuns(Async!Next)
  <2>1. server \in AsyncServers /\ UNCHANGED <<server, startVars>>
    BY <1>6 DEF AsyncRuns, Serving
  <2> QED
    BY <1>6, <2>1, AsyncStep DEF AsyncServers
<1> QED
  BY <1>1, <1>2, <1>3, <1>4, <1>5, <1>6 DEF Next

LEMMA InvNext == Inv /\ [Next]_allVars => Inv'
<1> SUFFICES ASSUME Inv, [Next]_allVars PROVE Inv'
  OBVIOUS
\* The loop, the clients and the descriptors are not touched.
<1>1. ASSUME UNCHANGED <<server, kernelVars, pc, echoVars, loopVars>>, SetupInv'
      PROVE  Inv'
  <2>1. UNCHANGED <<conn, link, sent, rx, echoed, unread, backlog, owner, pc,
                    errno, buffer, received, socket, output>>
    BY <1>1 DEF kernelVars, echoVars, loopVars, asyncVars
  <2>2. KernelInv' /\ Open' = Open
    BY <2>1 DEF Inv, KernelInv, EchoTypeOK, DescriptorsMatch, BacklogInv, Unserved,
                Holding, Open
  <2>3. OutputInv' /\ PhaseInv'
    BY <1>1, <2>1, <2>2 DEF Inv, OutputInv, PhaseInv
  <2>4. server = "select" => SelectLoop'
    BY <1>1, <2>1, <2>2 DEF Inv, Loops, SelectLoop, loopVars, setVars
  <2>5. server = "poll" => PollLoop'
    BY <1>1, <2>1, <2>2 DEF Inv, Loops, PollLoop, loopVars, setVars, arrayVars
  <2>6. server = "epoll" => EpollLoop'
    BY <1>1, <2>1, <2>2 DEF Inv, Loops, EpollLoop, loopVars, epollVars
  <2>7. server = "kqueue" => KqueueLoop'
    BY <1>1, <2>1, <2>2 DEF Inv, Loops, KqueueLoop, loopVars, kqueueVars, Down
  <2>8. server = "kqueue_single" => KqueueSingleLoop'
    BY <1>1, <2>1, <2>2 DEF Inv, Loops, KqueueSingleLoop, loopVars, kqueueVars, Down
  <2>9. server \in AsyncServers => AsyncLoop'
    BY <1>1, <2>1, <2>2 DEF Inv, Loops, AsyncLoop, loopVars, asyncVars
  <2> QED
    BY <1>1, <2>2, <2>3, <2>4, <2>5, <2>6, <2>7, <2>8, <2>9 DEF Inv, Loops
<1>2. ASSUME UNCHANGED startVars PROVE SetupInv'
  BY <1>2 DEF Inv, SetupInv, startVars, Setup!ListensWhereBound
<1>3. CASE StartUp
  <2>1. UNCHANGED <<server, kernelVars, pc, echoVars, loopVars>>
    BY <1>3 DEF StartUp, Setup!SetupNext
  <2>2. SetupInv'
    BY <1>3, SetupKeeps, StartKeeps DEF StartUp, Inv
  <2> QED
    BY <1>1, <2>1, <2>2
<1>4. CASE Next /\ ~StartUp
  <2>1. KernelStep /\ PhaseInv' /\ Loops' /\ UNCHANGED <<server, startVars>>
    BY <1>4, InvStep
  <2>2. KernelInv' /\ OutputInv'
    BY <2>1, KernelStepKeeps DEF Inv
  <2> QED
    BY <1>2, <2>1, <2>2 DEF Inv
<1>5. CASE UNCHANGED allVars
  BY <1>1, <1>2, <1>5 DEF allVars, vars
<1> QED
  BY <1>3, <1>4, <1>5

LEMMA SpecInv == Spec => []Inv
BY InvInit, InvNext, PTL DEF Spec
-----------------------------------------------------------------------------
(***************************************************************************)
(* What follows from it                                                    *)
(***************************************************************************)
LEMMA InvTypes == Inv => TypeOK
<1> SUFFICES ASSUME Inv PROVE TypeOK
  OBVIOUS
<1>1. EchoTypeOK /\ Open \subseteq Fds
  BY DEF Inv, KernelInv, EchoTypeOK
<1>2. Setup!SetupTypeOK \/ stage = "deaf"
  BY DEF Inv, SetupInv, Setup!SetupTypeOK
<1>3. server = "select" => Select!TypeOK
  BY <1>1, SelectCalls DEF Inv, Loops, SelectLoop, Select!TypeOK
<1>4. server = "poll" => Poll!TypeOK
  BY <1>1, PollCalls DEF Inv, Loops, PollLoop, Poll!TypeOK
<1>5. server = "epoll" => Epoll!TypeOK
  BY <1>1, EpollCalls DEF Inv, Loops, EpollLoop, Epoll!TypeOK
<1>6. server = "kqueue" => Kqueue!TypeOK
  BY <1>1, KqueueCalls DEF Inv, Loops, KqueueLoop, Kqueue!TypeOK
<1>7. server = "kqueue_single" => KqueueSingle!TypeOK
  BY <1>1, KqueueSingleCalls DEF Inv, Loops, KqueueSingleLoop, KqueueSingle!TypeOK
<1>8. server \in AsyncServers => Async!TypeOK
  BY <1>1, AsyncCalls DEF Inv, Loops, AsyncLoop, OutputInv, Async!TypeOK
<1> QED
  BY <1>2, <1>3, <1>4, <1>5, <1>6, <1>7, <1>8 DEF TypeOK, Inv

LEMMA InvTracks == Inv => SocketsTracked
<1> SUFFICES ASSUME Inv PROVE SocketsTracked
  OBVIOUS
<1> USE DEF Inv, Loops
<1>1. server = "select" => Select!SocketsTracked
  BY SelectCalls DEF SelectLoop, Select!SocketsTracked
<1>2. server = "poll" => Poll!SocketsTracked
  BY PollCalls DEF PollLoop, Poll!SocketsTracked
<1>3. server = "epoll" => Epoll!SocketsTracked
  BY EpollCalls DEF EpollLoop, Epoll!SocketsTracked
<1>4. server = "kqueue" => Kqueue!SocketsTracked
  BY KqueueCalls DEF KqueueLoop, Kqueue!SocketsTracked, Kqueue!Down, Down
<1>5. server = "kqueue_single" => KqueueSingle!SocketsTracked
  BY KqueueSingleCalls
  DEF KqueueSingleLoop, KqueueSingle!SocketsTracked, KqueueSingle!Down, Down
<1>6. server \in AsyncServers => Async!SocketsTracked
  BY AsyncCalls DEF AsyncLoop, Async!SocketsTracked
<1> QED
  BY <1>1, <1>2, <1>3, <1>4, <1>5, <1>6 DEF SocketsTracked

LEMMA InvCurrent == Inv => EventsAreCurrent
<1> SUFFICES ASSUME Inv PROVE EventsAreCurrent
  OBVIOUS
<1>1. server = "epoll" => Epoll!EventsAreCurrent
  BY EpollCalls DEF Inv, Loops, EpollLoop, Epoll!EventsAreCurrent
<1>2. server = "kqueue" => Kqueue!EventsAreCurrent
  BY KqueueCalls DEF Inv, Loops, KqueueLoop, Kqueue!EventsAreCurrent
<1> QED
  BY <1>1, <1>2 DEF EventsAreCurrent

\* The variables of all eight servers keep their types: the buffer of echo() its
\* size, the send buffers theirs, the descriptors their numbers.
THEOREM ServersTypeCorrect == Spec => []TypeOK
BY SpecInv, InvTypes, PTL

\* main() of a server gets to its loop only with a socket that bind has given
\* the server's port, and without a descriptor of an address that failed,
\* whichever calls of get_socket_fd and of the start-up fail.
THEOREM ServersListenWhereBound == Spec => []ListensWhereBound
<1>1. Inv => ListensWhereBound
  BY DEF Inv, SetupInv, ListensWhereBound
<1> QED
  BY SpecInv, <1>1, PTL

\* open_sockets, the array of poll, the lists of epoll and kqueue and the
\* sessions of the libraries agree with the descriptor table at every point of
\* the loops.
THEOREM ServersTrackSockets == Spec => []SocketsTracked
BY SpecInv, InvTracks, PTL

\* No event of a batch of epoll_wait or kevent is served on another connection
\* than the one it was reported for, however descriptors are closed and given
\* out again while the batch is served.
THEOREM ServersServeCurrentEvents == Spec => []EventsAreCurrent
BY SpecInv, InvCurrent, PTL
-----------------------------------------------------------------------------
(***************************************************************************)
(* Every server implements EchoService                                     *)
(***************************************************************************)
\* What is held for the connection of descriptor s.
Has(s) ==
    IF received > 0 /\ socket = s THEN SubSeq(buffer, 1, received) ELSE output[s]

HeldInv ==
    /\ \A s \in Open : Held(owner[s]) = Has(s) /\ Has(s) \in Seq(Byte)
    /\ \A c \in Clients : conn[c] # "accepted" => Held(c) = <<>>
    /\ \A c \in Clients : conn[c] = "accepted" => \E s \in Open : owner[s] = c

LEMMA WhatIsHeld == KernelInv /\ OutputInv => HeldInv
<1> SUFFICES ASSUME KernelInv, OutputInv PROVE HeldInv
  OBVIOUS
<1>1. /\ Open \subseteq Fds /\ \A s \in Open : owner[s] \in Clients
      /\ \A s, t \in Open : owner[s] = owner[t] => s = t
      /\ \A s \in Open : conn[owner[s]] = "accepted"
      /\ received \in Int
      /\ received > 0 => socket \in Open /\ received <= Len(buffer)
      /\ buffer \in Seq(Byte)
  BY EchoAssumption DEF KernelInv, EchoTypeOK, DescriptorsMatch, Holding
<1>2. ASSUME NEW s \in Open PROVE Held(owner[s]) = Has(s) /\ Has(s) \in Seq(Byte)
  <2>1. (CHOOSE t \in Open : owner[t] = owner[s]) = s
    BY <1>1
  <2>2. Held(owner[s]) = Has(s)
    BY <1>1, <2>1 DEF Held, Has
  <2>3. received > 0 => SubSeq(buffer, 1, received) \in Seq(Byte)
    BY <1>1, FrontIsSeq
  <2> QED
    BY <1>1, <2>2, <2>3 DEF Has, OutputInv
<1>3. ASSUME NEW c \in Clients, conn[c] # "accepted" PROVE Held(c) = <<>>
  BY <1>1, <1>3 DEF Held
<1>4. ASSUME NEW c \in Clients, conn[c] = "accepted"
      PROVE  \E s \in Open : owner[s] = c
  <2>1. c \in {d \in Clients : conn[d] = "accepted"}
    BY <1>4
  <2>2. c \in {owner[s] : s \in Open}
    BY <2>1 DEF KernelInv, DescriptorsMatch
  <2> QED
    BY <2>2
<1> QED
  BY <1>2, <1>3, <1>4 DEF HeldInv

LEMMA HeldIsSeq ==
    ASSUME HeldInv, NEW c \in Clients
    PROVE  Held(c) \in Seq(Byte)
<1>1. <<>> \in Seq(Byte)
  BY EmptySeq
<1> QED
  BY <1>1 DEF HeldInv

\* What one step of the abstract service is.
ServiceStep == [Service!Next]_(Service!vars)

\* The clients notice nothing, unless the server goes down.
LEMMA NothingServed ==
    ASSUME ~Down, UNCHANGED <<server, sent, echoed>>,
           \A c \in Clients :
               /\ Connected(c)' <=> Connected(c)
               /\ ~Connected(c) => conn'[c] = conn[c]
               /\ link'[c] # "up" <=> link[c] # "up"
               /\ Held(c)' \o rx'[c] = Held(c) \o rx[c]
    PROVE  ServiceStep
<1> DEFINE status == [c \in Clients |-> IF conn[c] \in {"queued", "accepted"}
                                        THEN "open" ELSE conn[c]]
           ended == [c \in Clients |-> link[c] # "up"]
           pending == [c \in Clients |-> Held(c) \o rx[c]]
<1>1. status' = status
  BY DEF Connected
<1>2. ended' = ended
  OBVIOUS
<1>3. pending' = pending
  OBVIOUS
<1>4. (server \in AsyncServers)' = (server \in AsyncServers)
  BY DEF AsyncServers
<1>5. CASE Down'
  <2>1. Service!GoDown
    BY <1>1, <1>2, <1>3, <1>5 DEF Service!GoDown
  <2>2. Service!Next
    BY <1>4, <2>1 DEF Service!Next
  <2> QED
    BY <2>2 DEF ServiceStep
<1>6. CASE ~Down'
  <2>1. (~Down)' = ~Down
    BY <1>6
  <2>2. UNCHANGED Service!vars
    BY <1>1, <1>2, <1>3, <1>4, <2>1 DEF Service!vars
  <2> QED
    BY <2>2 DEF ServiceStep
<1> QED
  BY <1>5, <1>6

\* The first n bytes held for c are dealt with, m of them are sent back.
LEMMA SomeServed ==
    ASSUME ~Down, ~Down', UNCHANGED <<server, conn, sent, rx>>, EchoTypeOK,
           HeldInv, NEW c \in Clients, conn[c] = "accepted",
           NEW n \in 1..Len(Held(c)), NEW m \in 0..n,
           m < n => server \notin AsyncServers \/ link[c] # "up",
           echoed' = [echoed EXCEPT ![c] = echoed[c] \o SubSeq(Held(c), 1, m)],
           Held(c)' = SubSeq(Held(c), n + 1, Len(Held(c))),
           \A d \in Clients \ {c} : Held(d)' = Held(d),
           \A d \in Clients : link'[d] # "up" <=> link[d] # "up"
    PROVE  ServiceStep
<1> DEFINE status == [d \in Clients |-> IF conn[d] \in {"queued", "accepted"}
                                        THEN "open" ELSE conn[d]]
           ended == [d \in Clients |-> link[d] # "up"]
           pending == [d \in Clients |-> Held(d) \o rx[d]]
           h == Held(c)
<1>1. h \in Seq(Byte) /\ rx[c] \in Seq(Byte) /\ Len(h) \in Nat
  BY HeldIsSeq, LenProperties DEF EchoTypeOK
<1>2. n \in 0..Len(h) /\ m \in 0..Len(h) /\ Len(h) <= Len(h \o rx[c])
      /\ Len(h \o rx[c]) \in Nat
  <2>1. Len(h \o rx[c]) = Len(h) + Len(rx[c]) /\ Len(rx[c]) \in Nat
    BY <1>1, ConcatProperties, LenProperties
  <2> QED
    BY <1>1, <2>1
<1>3. n \in 1..Len(pending[c])
  BY <1>1, <1>2
<1>4. SubSeq(pending[c], 1, m) = SubSeq(h, 1, m)
  BY <1>1, <1>2, FrontOfConcat
<1>5. SubSeq(pending[c], n + 1, Len(pending[c])) = SubSeq(h, n + 1, Len(h)) \o rx[c]
  BY <1>1, <1>2, BackOfConcat
<1>6. pending' = [pending EXCEPT ![c] = SubSeq(pending[c], n + 1, Len(pending[c]))]
  BY <1>5
<1>7. echoed' = [echoed EXCEPT ![c] = echoed[c] \o SubSeq(pending[c], 1, m)]
  BY <1>4
<1>8. status' = status /\ ended' = ended /\ status[c] = "open"
  OBVIOUS
<1>9. (~Down)' = ~Down /\ (server \in AsyncServers)' = (server \in AsyncServers)
  BY DEF AsyncServers
<1>10. m < n => ~(server \in AsyncServers) \/ ended[c]
  OBVIOUS
<1>11. Service!Echo(c)
  BY <1>3, <1>6, <1>7, <1>8, <1>9, <1>10 DEF Service!Echo
<1>12. Service!Next
  BY <1>9, <1>11 DEF Service!Next
<1> QED
  BY <1>12 DEF ServiceStep

\* What the clients do is what the clients of the service do.
LEMMA ClientsServed ==
    ASSUME KernelInv, HeldInv, ~Down, ClientStep, UNCHANGED <<server, output>>
    PROVE  ServiceStep
<1> DEFINE status == [d \in Clients |-> IF conn[d] \in {"queued", "accepted"}
                                        THEN "open" ELSE conn[d]]
           ended == [d \in Clients |-> link[d] # "up"]
           pending == [d \in Clients |-> Held(d) \o rx[d]]
<1>1. PICK c \in Clients : \/ Connect(c) \/ Write(c) \/ Read(c)
                           \/ Shutdown(c) \/ Reset(c) \/ Abort(c)
  BY DEF ClientStep
<1>2. /\ (~Down)' = ~Down
      /\ (server \in AsyncServers)' = (server \in AsyncServers)
      /\ owner' = owner /\ EchoTypeOK
  BY <1>1 DEF ClientStep, Down, AsyncServers, Connect, Write, Read, Shutdown,
              Reset, Abort, KernelInv
<1>3. \A d \in Clients : Held(d)' = Held(d)
  BY <1>2 DEF ClientStep, echoVars, Held, Open
<1> HIDE DEF status, ended, pending
<1>4. ASSUME UNCHANGED rx PROVE pending' = pending
  BY <1>3, <1>4 DEF pending
<1>5. ASSUME UNCHANGED conn PROVE status' = status
  BY <1>5 DEF status
<1>6. ASSUME UNCHANGED link PROVE ended' = ended
  BY <1>6 DEF ended
<1>7. CASE Connect(c)
  <2>1. status[c] = "new" /\ status' = [status EXCEPT ![c] = "open"]
    BY <1>2, <1>7 DEF Connect, status, EchoTypeOK
  <2>2. pending' = pending /\ ended' = ended /\ UNCHANGED <<sent, echoed>>
    BY <1>4, <1>6, <1>7 DEF Connect
  <2>3. Service!Connect(c)
    BY <1>2, <2>1, <2>2 DEF Service!Connect, status, ended, pending
  <2> QED
    BY <1>2, <2>3 DEF Service!Next, ServiceStep
<1>8. CASE Write(c)
  <2>1. status[c] = "open" /\ ~ended[c]
    BY <1>8 DEF Write, Connected, status, ended
  <2>2. /\ status' = status /\ ended' = ended /\ echoed' = echoed
        /\ sent[c] < MaxSent /\ sent' = [sent EXCEPT ![c] = sent[c] + 1]
    BY <1>5, <1>6, <1>8 DEF Write
  <2> DEFINE b == <<c, sent[c] + 1>>
  <2>3. /\ b \in Byte /\ Held(c) \in Seq(Byte) /\ rx[c] \in Seq(Byte)
        /\ <<b>> \in Seq(Byte)
    BY <1>2, <2>2, HeldIsSeq, EchoAssumption DEF EchoTypeOK, Byte
  <2>4. Held(c) \o Append(rx[c], b) = Append(Held(c) \o rx[c], b)
    BY <2>3, AppendedBehind
  <2>5. rx' = [rx EXCEPT ![c] = Append(rx[c], b)]
    BY <1>8 DEF Write
  <2> HIDE DEF b
  <2>6. pending' = [pending EXCEPT ![c] = Append(pending[c], b)]
    BY <1>2, <1>3, <2>4, <2>5 DEF pending, EchoTypeOK
  <2>7. Service!Write(c)
    BY <1>2, <2>1, <2>2, <2>6 DEF Service!Write, status, ended, pending, b
  <2> QED
    BY <1>2, <2>7 DEF Service!Next, ServiceStep
<1>9. CASE Read(c)
  BY <1>3, <1>9, NothingServed DEF Read, Connected
<1>10. CASE Shutdown(c) \/ Reset(c)
  <2>1. status[c] = "open" /\ ended' = [ended EXCEPT ![c] = TRUE]
    BY <1>2, <1>10
    DEF Shutdown, Reset, Connected, status, ended, EchoTypeOK
  <2>2. status' = status /\ pending' = pending /\ UNCHANGED <<sent, echoed>>
    BY <1>4, <1>5, <1>10 DEF Shutdown, Reset
  <2>3. Service!End(c)
    BY <1>2, <2>1, <2>2 DEF Service!End, status, ended, pending
  <2> QED
    BY <1>2, <2>3 DEF Service!Next, ServiceStep
<1>11. CASE Abort(c)
  <2>1. /\ status[c] = "open" /\ status' = [status EXCEPT ![c] = "closed"]
        /\ ended' = [ended EXCEPT ![c] = TRUE]
    BY <1>2, <1>11 DEF Abort, status, ended, EchoTypeOK
  <2>2. pending' = pending /\ UNCHANGED <<sent, echoed>> /\ echoed[c] = <<>>
    BY <1>4, <1>11 DEF Abort, KernelInv, Unserved
  <2>3. Service!Abandon(c)
    BY <1>2, <2>1, <2>2 DEF Service!Abandon, status, ended, pending
  <2> QED
    BY <1>2, <2>3 DEF Service!Next, ServiceStep
<1> QED
  BY <1>1, <1>7, <1>8, <1>9, <1>10, <1>11

LEMMA AcceptServed ==
    ASSUME KernelInv, OutputInv, HeldInv, KernelInv', HeldInv', ~Down,
           UNCHANGED server, NEW s \in Fds, Accepting(s)
    PROVE  ServiceStep
<1>0. PICK c \in Clients : c = Head(backlog) /\ conn[c] = "queued"
  <2> DEFINE h == Head(backlog)
  <2>1. backlog \in Seq(Clients) /\ backlog # <<>>
    BY DEF Accepting, Accept, KernelInv, EchoTypeOK
  <2>2. h = backlog[1] /\ h \in Clients /\ 1 \in 1..Len(backlog)
    BY <2>1, HeadTailProperties, EmptySeq, LenProperties
  <2> QED
    BY <2>2 DEF KernelInv, BacklogInv
<1>1. /\ Open' = Open \union {s} /\ s \notin Open
      /\ \A t \in Open : owner'[t] = owner[t]
  BY AcceptKeeps DEF Accepting
<1>2. /\ UNCHANGED <<link, sent, rx, echoed, buffer, received, socket, output>>
      /\ conn' = [conn EXCEPT ![c] = "accepted"] /\ owner'[s] = c
  BY <1>0 DEF Accepting, Accept
<1>4. /\ received > 0 => socket # s
      /\ output[s] = <<>>
      /\ received' = received /\ socket' = socket
  BY <1>1, <1>2 DEF KernelInv, Holding, OutputInv
<1>5. Has(s)' = <<>>
  BY <1>2, <1>4 DEF Has
<1>6. ASSUME NEW d \in Clients PROVE Held(d)' = Held(d)
  <2>1. CASE d = c
    <3>1. Held(c)' = Has(s)'
      BY <1>1, <1>2 DEF HeldInv
    <3>2. Held(c) = <<>>
      BY <1>0 DEF HeldInv
    <3> QED
      BY <1>5, <2>1, <3>1, <3>2
  <2>2. CASE d # c /\ conn[d] = "accepted"
    <3>1. PICK t \in Open : owner[t] = d
      BY <2>2 DEF HeldInv
    <3>2. t \in Open' /\ owner'[t] = d /\ Has(t)' = Has(t)
      BY <1>1, <1>2, <3>1 DEF Has
    <3>3. Held(d)' = Has(t)'
      BY <3>2 DEF HeldInv
    <3> QED
      BY <3>1, <3>2, <3>3 DEF HeldInv
  <2>3. CASE d # c /\ conn[d] # "accepted"
    <3>1. conn'[d] # "accepted"
      BY <1>2, <2>3 DEF KernelInv, EchoTypeOK
    <3> QED
      BY <2>3, <3>1 DEF HeldInv
  <2> QED
    BY <2>1, <2>2, <2>3
<1>7. \A d \in Clients : /\ Connected(d)' <=> Connected(d)
                         /\ ~Connected(d) => conn'[d] = conn[d]
  <2>1. conn' = [conn EXCEPT ![c] = "accepted"] /\ DOMAIN conn = Clients
    BY <1>2 DEF KernelInv, EchoTypeOK
  <2>2. \A d \in Clients : IF d = c THEN conn'[d] = "accepted"
                                     ELSE conn'[d] = conn[d]
    BY <2>1
  <2> QED
    BY <1>0, <2>2 DEF Connected
<1> QED
  BY <1>2, <1>6, <1>7, NothingServed

LEMMA CloseServed ==
    ASSUME KernelInv, OutputInv, HeldInv, KernelInv', HeldInv', ~Down,
           UNCHANGED server, NEW s \in Fds, Closing(s)
    PROVE  ServiceStep
<1> DEFINE status == [d \in Clients |-> IF conn[d] \in {"queued", "accepted"}
                                        THEN "open" ELSE conn[d]]
           ended == [d \in Clients |-> link[d] # "up"]
           pending == [d \in Clients |-> Held(d) \o rx[d]]
<1>1. PICK c \in Clients : c = owner[s] /\ conn[c] = "accepted" /\ link[c] # "up"
  BY DEF Closing, KernelInv, EchoTypeOK, DescriptorsMatch
<1>2. /\ s \in Open /\ received = 0 /\ received' = 0 /\ ~Down'
      /\ conn' = [conn EXCEPT ![c] = "closed"]
      /\ UNCHANGED <<link, sent, rx, echoed>>
      /\ Open' = Open \ {s} /\ \A t \in Open' : owner'[t] = owner[t]
  BY <1>1 DEF Closing, Close, Open
<1>3. \A t \in Open \ {s} : output'[t] = output[t]
  BY DEF Closing, OutputInv, KernelInv, EchoTypeOK
<1>4. ASSUME NEW d \in Clients \ {c} PROVE Held(d)' = Held(d)
  <2>1. CASE conn[d] = "accepted"
    <3>1. PICK t \in Open : owner[t] = d
      BY <2>1 DEF HeldInv
    <3>2. t \in Open' /\ owner'[t] = d /\ Has(t)' = Has(t)
      BY <1>1, <1>2, <1>3, <3>1 DEF Has
    <3>3. Held(d)' = Has(t)'
      BY <3>2 DEF HeldInv
    <3> QED
      BY <3>1, <3>2, <3>3 DEF HeldInv
  <2>2. CASE conn[d] # "accepted"
    <3>1. conn'[d] # "accepted"
      BY <1>2, <2>2 DEF KernelInv, EchoTypeOK
    <3> QED
      BY <2>2, <3>1 DEF HeldInv
  <2> QED
    BY <2>1, <2>2
<1>5. Held(c)' = <<>>
  <2>1. conn'[c] # "accepted"
    BY <1>2 DEF KernelInv, EchoTypeOK
  <2> QED
    BY <2>1 DEF HeldInv
<1>6. /\ Held(c) \in Seq(Byte) /\ rx[c] \in Seq(Byte) /\ Len(Held(c)) \in Nat
      /\ Len(Held(c) \o rx[c]) = Len(Held(c)) + Len(rx[c]) /\ Len(rx[c]) \in Nat
  BY HeldIsSeq, LenProperties, ConcatProperties DEF KernelInv, EchoTypeOK
<1> DEFINE n == Len(Held(c))
<1>7. SubSeq(pending[c], n + 1, Len(pending[c])) = rx[c]
  <2>1. SubSeq(Held(c) \o rx[c], n + 1, Len(Held(c) \o rx[c]))
          = SubSeq(Held(c), n + 1, n) \o rx[c]
    BY <1>6, BackOfConcat
  <2>2. SubSeq(Held(c), n + 1, n) = <<>>
    BY <1>6, SubSeqEmpty
  <2> QED
    BY <1>6, <2>1, <2>2, ConcatEmptySeq
<1>8. n \in 0..Len(pending[c])
  BY <1>6
<1>9. <<>> \o rx[c] = rx[c]
  BY <1>6, ConcatEmptySeq
<1>10. pending' = [pending EXCEPT ![c] = SubSeq(pending[c], n + 1, Len(pending[c]))]
  BY <1>2, <1>4, <1>5, <1>7, <1>9
<1>11. /\ status[c] = "open" /\ ended[c] /\ ended' = ended
       /\ status' = [status EXCEPT ![c] = "closed"]
  BY <1>1, <1>2 DEF KernelInv, EchoTypeOK
<1>12. (~Down)' = ~Down /\ (server \in AsyncServers)' = (server \in AsyncServers)
  BY <1>2 DEF AsyncServers
<1>13. Service!Close(c)
  BY <1>2, <1>8, <1>10, <1>11, <1>12 DEF Service!Close
<1> QED
  BY <1>12, <1>13 DEF Service!Next, ServiceStep

\* The connections are the same before and after.
LEMMA SameConnections ==
    ASSUME HeldInv, HeldInv', UNCHANGED <<conn, owner>>, NEW T,
           \A t \in Open \ T : Has(t)' = Has(t)
    PROVE  \A d \in Clients \ {owner[t] : t \in T} : Held(d)' = Held(d)
<1> SUFFICES ASSUME NEW d \in Clients \ {owner[t] : t \in T}
             PROVE  Held(d)' = Held(d)
  OBVIOUS
<1>1. CASE conn[d] = "accepted"
  <2>1. PICK t \in Open : owner[t] = d
    BY <1>1 DEF HeldInv
  <2>2. t \in Open' /\ owner'[t] = d /\ Has(t)' = Has(t)
    BY <2>1 DEF Open
  <2>3. Held(d)' = Has(t)'
    BY <2>2 DEF HeldInv
  <2> QED
    BY <2>1, <2>2, <2>3 DEF HeldInv
<1>2. CASE conn[d] # "accepted"
  <2>1. conn'[d] # "accepted"
    BY <1>2
  <2> QED
    BY <1>2, <2>1 DEF HeldInv
<1> QED
  BY <1>1, <1>2

LEMMA RecvServed ==
    ASSUME KernelInv, OutputInv, HeldInv, HeldInv', ~Down,
           UNCHANGED server, NEW s \in Fds, Receiving(s)
    PROVE  ServiceStep
<1>1. /\ s \in Open /\ received' \in 1..Len(rx[owner[s]])
      /\ SubSeq(buffer', 1, received') = SubSeq(rx[owner[s]], 1, received')
      /\ rx' = [rx EXCEPT ![owner[s]] =
                    SubSeq(rx[owner[s]], received' + 1, Len(rx[owner[s]]))]
  BY RecvKeeps DEF Receiving
<1>2. PICK c \in Clients : c = owner[s]
  BY <1>1 DEF KernelInv, EchoTypeOK
<1>3. /\ UNCHANGED <<conn, link, sent, echoed, owner, output>> /\ socket' = s
      /\ received = 0 /\ server \notin Buffering
  BY DEF Receiving, EchoRecv
<1>4. \A t \in Open \ {s} : Has(t)' = Has(t)
  BY <1>3 DEF Has
<1>5. {owner[t] : t \in {s}} = {c}
  BY <1>2
<1>6. \A d \in Clients \ {c} : Held(d)' = Held(d)
  BY <1>3, <1>4, <1>5, SameConnections
<1>7. /\ rx[c] \in Seq(Byte) /\ Len(rx[c]) \in Nat /\ received' \in 0..Len(rx[c])
      /\ received' > 0
  BY <1>1, <1>2, LenProperties DEF KernelInv, EchoTypeOK
<1>8. Held(c) = <<>>
  <2>1. Has(s) = <<>>
    BY <1>3 DEF Has, OutputInv
  <2> QED
    BY <1>1, <1>2, <2>1 DEF HeldInv
<1>9. Held(c)' = SubSeq(rx[c], 1, received')
  <2>1. s \in Open' /\ owner'[s] = c
    BY <1>1, <1>2, <1>3 DEF Open
  <2>2. Has(s)' = SubSeq(rx[c], 1, received')
    BY <1>1, <1>2, <1>3, <1>7 DEF Has
  <2> QED
    BY <2>1, <2>2 DEF HeldInv
<1>10. Held(c)' \o rx'[c] = Held(c) \o rx[c]
  <2>1. rx'[c] = SubSeq(rx[c], received' + 1, Len(rx[c]))
    BY <1>1, <1>2 DEF KernelInv, EchoTypeOK
  <2>2. SubSeq(rx[c], 1, received') \o SubSeq(rx[c], received' + 1, Len(rx[c]))
          = rx[c]
    BY <1>7, FrontAndBack
  <2> QED
    BY <1>7, <1>8, <1>9, <2>1, <2>2, ConcatEmptySeq
<1>11. \A d \in Clients \ {c} : rx'[d] = rx[d]
  BY <1>1, <1>2 DEF KernelInv, EchoTypeOK
<1>12. \A d \in Clients : Held(d)' \o rx'[d] = Held(d) \o rx[d]
  BY <1>6, <1>10, <1>11
<1>13. \A d \in Clients : Connected(d)' <=> Connected(d)
  BY <1>3 DEF Connected
<1> QED
  BY <1>3, <1>12, <1>13, NothingServed

\* Only an error that was pending is consumed.
LEMMA ErrorServed ==
    ASSUME KernelInv, HeldInv, HeldInv', ~Down,
           UNCHANGED <<server, conn, sent, rx, echoed, owner>>,
           \A d \in Clients : link'[d] # "up" <=> link[d] # "up",
           \A t \in Open : Has(t)' = Has(t)
    PROVE  ServiceStep
<1>1. \A t \in Open \ {} : Has(t)' = Has(t)
  OBVIOUS
<1>2. \A d \in Clients \ {owner[t] : t \in {}} : Held(d)' = Held(d)
  BY <1>1, SameConnections
<1>3. \A d \in Clients : /\ Held(d)' = Held(d)
                         /\ Connected(d)' <=> Connected(d)
  BY <1>2 DEF Connected
<1> QED
  BY <1>3, NothingServed

LEMMA SendServed ==
    ASSUME KernelInv, OutputInv, HeldInv, HeldInv', ~Down,
           UNCHANGED server, Sending
    PROVE  ServiceStep
<1>1. /\ UNCHANGED <<conn, sent, rx, owner, output>> /\ received' = 0 /\ ~Down'
      /\ server \notin AsyncServers /\ server \notin Buffering
  BY DEF Sending, SendData, SendFails, AsyncServers, Buffering
<1>2. \A d \in Clients : link'[d] # "up" <=> link[d] # "up"
  BY DEF Sending, SendData, SendFails, KernelInv, EchoTypeOK
<1>3. /\ received \in Int /\ Open \subseteq Fds
      /\ buffer \in Seq(Byte) /\ Len(buffer) \in Nat
      /\ \A t \in Open : Has(t)' = <<>>
  BY <1>1, EchoAssumption, LenProperties
  DEF KernelInv, EchoTypeOK, Has, OutputInv, Open
<1>4. CASE received <= 0
  <2>1. echoed' = echoed
    <3>1. CASE SendFails
      BY <3>1 DEF SendFails
    <3>2. CASE SendData
      <4>1. received = 0 /\ Len(Message) = 0
        <5>1. received # -1 /\ received \in -1..kBufferSize
          BY <3>2 DEF SendData, KernelInv, EchoTypeOK
        <5>2. received = 0
          BY <1>4, <5>1, EchoAssumption
        <5> QED
          BY <1>3, <5>2, FrontIsSeq DEF Message
      <4>2. PICK n \in 1..Least(0, Room(owner[socket])) : TRUE
        BY <3>2, <4>1 DEF SendData
      <4>3. Room(owner[socket]) \in Int
        BY <3>2, EchoAssumption DEF SendData, KernelInv, EchoTypeOK, Room
      <4> QED
        BY <4>2, <4>3 DEF Least
    <3> QED
      BY <3>1, <3>2 DEF Sending
  <2>2. \A t \in Open : Has(t)' = Has(t)
    BY <1>1, <1>3, <1>4 DEF Has, OutputInv
  <2> QED
    BY <1>1, <1>2, <2>1, <2>2, ErrorServed
<1>5. CASE received > 0
  <2>1. socket \in Open /\ received <= Len(buffer)
    BY <1>5 DEF KernelInv, Holding
  <2>2. PICK c \in Clients : c = owner[socket] /\ conn[c] = "accepted"
    BY <2>1 DEF KernelInv, EchoTypeOK, DescriptorsMatch
  <2>3. Held(c) = SubSeq(buffer, 1, received) /\ Message = SubSeq(buffer, 1, received)
    <3>1. Held(c) = Has(socket)
      BY <2>1, <2>2 DEF HeldInv
    <3>2. received # -1
      BY <1>5
    <3> QED
      BY <1>5, <3>1, <3>2 DEF Has, Message
  <2>4. Len(Held(c)) = received /\ Held(c) \in Seq(Byte)
    BY <1>3, <1>5, <2>1, <2>3, FrontIsSeq
  <2>5. Held(c)' = SubSeq(Held(c), received + 1, Len(Held(c)))
    <3>1. \A t \in Open : owner[t] = c => t \in Open' /\ owner'[t] = c
      BY <1>1 DEF Open
    <3>2. Held(c)' = <<>>
      BY <1>3, <2>1, <2>2, <3>1 DEF HeldInv
    <3>3. SubSeq(Held(c), received + 1, received) = <<>>
      BY <1>3, SubSeqEmpty
    <3> QED
      BY <2>4, <3>2, <3>3
  <2>6. \A d \in Clients \ {c} : Held(d)' = Held(d)
    <3>1. \A t \in Open \ {socket} : Has(t)' = Has(t)
      BY <1>1, <1>3 DEF Has, OutputInv
    <3>2. {owner[t] : t \in {socket}} = {c}
      BY <2>2
    <3> QED
      BY <1>1, <3>1, <3>2, SameConnections
  <2>7. \E m \in 0..received :
            echoed' = [echoed EXCEPT ![c] = echoed[c] \o SubSeq(Held(c), 1, m)]
    <3>1. CASE SendFails
      <4>1. SubSeq(Held(c), 1, 0) = <<>>
        BY SubSeqEmpty
      <4>2. echoed[c] \o <<>> = echoed[c] /\ echoed \in [Clients -> Seq(Byte)]
        BY ConcatEmptySeq DEF KernelInv, EchoTypeOK
      <4>3. echoed' = [echoed EXCEPT ![c] = echoed[c] \o SubSeq(Held(c), 1, 0)]
        BY <3>1, <4>1, <4>2 DEF SendFails
      <4>4. 0 \in 0..received
        BY <1>3, <1>5
      <4> QED
        BY <4>3, <4>4
    <3>2. CASE SendData
      <4>1. PICK n \in 1..Least(received, Room(c)) :
              echoed' = [echoed EXCEPT ![c] = echoed[c] \o SubSeq(Held(c), 1, n)]
        BY <2>2, <2>3, <2>4, <3>2 DEF SendData
      <4>2. Room(c) \in Int
        BY EchoAssumption DEF KernelInv, EchoTypeOK, Room
      <4>3. n \in 0..received
        BY <1>3, <4>2 DEF Least
      <4> QED
        BY <4>1, <4>3
    <3> QED
      BY <3>1, <3>2 DEF Sending
  <2>8. received \in 1..Len(Held(c)) /\ EchoTypeOK
    BY <1>3, <1>5, <2>4 DEF KernelInv
  <2>9. PICK m \in 0..received :
            echoed' = [echoed EXCEPT ![c] = echoed[c] \o SubSeq(Held(c), 1, m)]
    BY <2>7
  <2> QED
    BY <1>1, <1>2, <2>2, <2>5, <2>6, <2>8, <2>9, SomeServed
<1> QED
  BY <1>3, <1>4, <1>5

LEMMA TakeServed ==
    ASSUME KernelInv, OutputInv, HeldInv, HeldInv', ~Down,
           UNCHANGED server, NEW s \in Open, Async!Take(s)
    PROVE  ServiceStep
<1>1. PICK n \in 1..Len(rx[owner[s]]) :
          /\ output' = [output EXCEPT ![s] =
                           output[s] \o SubSeq(rx[owner[s]], 1, n)]
          /\ rx' = [rx EXCEPT ![owner[s]] =
                       SubSeq(rx[owner[s]], n + 1, Len(rx[owner[s]]))]
  BY TakeKeeps
<1>2. PICK c \in Clients : c = owner[s]
  BY DEF KernelInv, EchoTypeOK
<1>3. /\ UNCHANGED <<conn, link, sent, echoed, owner>>
      /\ received = 0 /\ received' = 0 /\ s \in Fds
  BY DEF Async!Take, Async!Reading, Async!Buffered, Async!echoVars, OutputInv,
         Buffering, KernelInv, EchoTypeOK
<1>4. \A t \in Open \ {s} : Has(t)' = Has(t)
  BY <1>1, <1>3 DEF Has, OutputInv, KernelInv, EchoTypeOK
<1>5. {owner[t] : t \in {s}} = {c}
  BY <1>2
<1>6. \A d \in Clients \ {c} : Held(d)' = Held(d)
  BY <1>3, <1>4, <1>5, SameConnections
<1>7. /\ rx[c] \in Seq(Byte) /\ n \in 0..Len(rx[c]) /\ output[s] \in Seq(Byte)
  BY <1>2, <1>3, LenProperties DEF KernelInv, EchoTypeOK, OutputInv
<1>8. (output[s] \o SubSeq(rx[c], 1, n)) \o SubSeq(rx[c], n + 1, Len(rx[c]))
         = output[s] \o rx[c]
  BY <1>7, MovedOver
<1>9. /\ rx'[c] = SubSeq(rx[c], n + 1, Len(rx[c]))
      /\ output'[s] = output[s] \o SubSeq(rx[c], 1, n)
  BY <1>1, <1>2, <1>3 DEF KernelInv, EchoTypeOK, OutputInv
<1>10. Held(c) = output[s] /\ Held(c)' = output'[s]
  <2>1. s \in Open' /\ owner'[s] = c
    BY <1>2, <1>3 DEF Open
  <2>2. Held(c) = Has(s)
    BY <1>2 DEF HeldInv
  <2>3. Held(c)' = Has(s)'
    BY <2>1 DEF HeldInv
  <2> QED
    BY <1>3, <2>2, <2>3 DEF Has
<1>11. Held(c)' \o rx'[c] = Held(c) \o rx[c]
  BY <1>8, <1>9, <1>10
<1>12. \A d \in Clients \ {c} : rx'[d] = rx[d]
  BY <1>1, <1>2 DEF KernelInv, EchoTypeOK
<1>13. \A d \in Clients : Held(d)' \o rx'[d] = Held(d) \o rx[d]
  BY <1>6, <1>11, <1>12
<1>14. \A d \in Clients : Connected(d)' <=> Connected(d)
  BY <1>3 DEF Connected
<1> QED
  BY <1>3, <1>13, <1>14, NothingServed

LEMMA FlushServed ==
    ASSUME KernelInv, OutputInv, HeldInv, HeldInv', ~Down,
           UNCHANGED server, NEW s \in Open, Async!Flush(s)
    PROVE  ServiceStep
<1>1. PICK n \in 1..Len(output[s]) :
          /\ echoed' = [echoed EXCEPT ![owner[s]] =
                           echoed[owner[s]] \o SubSeq(output[s], 1, n)]
          /\ output' = [output EXCEPT ![s] =
                           SubSeq(output[s], n + 1, Len(output[s]))]
  BY FlushKeeps
<1>2. PICK c \in Clients : c = owner[s] /\ conn[c] = "accepted"
  BY DEF KernelInv, EchoTypeOK, DescriptorsMatch
<1>3. /\ UNCHANGED <<conn, link, sent, rx, owner, pc>>
      /\ received = 0 /\ received' = 0 /\ s \in Fds
  BY DEF Async!Flush, Async!Buffered, Async!echoVars, OutputInv, Buffering,
         KernelInv, EchoTypeOK
<1>4. \A t \in Open \ {s} : Has(t)' = Has(t)
  BY <1>1, <1>3 DEF Has, OutputInv, KernelInv, EchoTypeOK
<1>5. {owner[t] : t \in {s}} = {c}
  BY <1>2
<1>6. \A d \in Clients \ {c} : Held(d)' = Held(d)
  BY <1>3, <1>4, <1>5, SameConnections
<1>7. Held(c) = output[s] /\ Held(c)' = output'[s]
  <2>1. s \in Open' /\ owner'[s] = c
    BY <1>2, <1>3 DEF Open
  <2>2. Held(c) = Has(s)
    BY <1>2 DEF HeldInv
  <2>3. Held(c)' = Has(s)'
    BY <2>1 DEF HeldInv
  <2> QED
    BY <1>3, <2>2, <2>3 DEF Has
<1>8. /\ echoed' = [echoed EXCEPT ![c] = echoed[c] \o SubSeq(Held(c), 1, n)]
      /\ Held(c)' = SubSeq(Held(c), n + 1, Len(Held(c)))
  BY <1>1, <1>2, <1>3, <1>7 DEF OutputInv
<1>9. n \in 1..Len(Held(c)) /\ n \in 0..n /\ ~(n < n) /\ EchoTypeOK /\ ~Down'
  BY <1>3, <1>7 DEF KernelInv, Down
<1> QED
  BY <1>2, <1>3, <1>6, <1>8, <1>9, SomeServed

LEMMA BlockingSendServed ==
    ASSUME KernelInv, OutputInv, HeldInv, HeldInv', ~Down,
           UNCHANGED server, received > 0, Async!BlockingSend
    PROVE  ServiceStep
<1>1. /\ socket \in Open /\ received \in Nat /\ received <= Len(buffer)
      /\ \/ \E n \in 1..received :
               /\ echoed' = [echoed EXCEPT ![owner[socket]] =
                      echoed[owner[socket]] \o SubSeq(buffer, 1, n)]
               /\ received' = received - n
               /\ buffer' = SubSeq(buffer, n + 1, received)
               /\ UNCHANGED link
         \/ /\ link[owner[socket]] # "up"
            /\ link' = [link EXCEPT ![owner[socket]] = "dead"]
            /\ received' = 0
            /\ UNCHANGED echoed
  BY BlockingSendKeeps
<1>2. PICK s \in Open, c \in Clients :
          s = socket /\ c = owner[s] /\ conn[c] = "accepted" /\ s \in Fds
  BY <1>1 DEF KernelInv, EchoTypeOK, DescriptorsMatch
<1>3. /\ UNCHANGED <<conn, sent, rx, owner, output>>
      /\ pc = "send" /\ pc' \in {"send", "wait"} /\ server \notin Buffering
      /\ received' # 0 => socket' = socket
  BY DEF Async!BlockingSend, Async!asyncVars, Buffering
<1>4. /\ \A t \in Fds : output[t] = <<>> /\ output'[t] = <<>>
      /\ buffer \in Seq(Byte) /\ Len(buffer) \in Nat /\ Open \subseteq Fds
      /\ EchoTypeOK /\ ~Down'
  BY <1>3, LenProperties DEF OutputInv, KernelInv, EchoTypeOK, Down
<1>5. \A t \in Open \ {s} : Has(t)' = Has(t)
  BY <1>2, <1>3, <1>4 DEF Has
<1>6. \A d \in Clients \ {c} : Held(d)' = Held(d)
  <2>1. {owner[t] : t \in {s}} = {c}
    BY <1>2
  <2> QED
    BY <1>3, <1>5, <2>1, SameConnections
<1>7. Held(c) = SubSeq(buffer, 1, received) /\ Held(c)' = Has(s)'
  <2>1. s \in Open' /\ owner'[s] = c
    BY <1>2, <1>3 DEF Open
  <2>2. Held(c) = Has(s)
    BY <1>2 DEF HeldInv
  <2>3. Held(c)' = Has(s)'
    BY <2>1 DEF HeldInv
  <2> QED
    BY <1>2, <2>2, <2>3 DEF Has
<1>8. /\ Len(Held(c)) = received /\ Held(c) \in Seq(Byte) /\ received >= 1
      /\ received \in Nat /\ \A k \in 1..received : Held(c)[k] = buffer[k]
  BY <1>1, <1>4, <1>7, FrontIsSeq
<1>9. ASSUME NEW n \in 1..received,
             echoed' = [echoed EXCEPT ![owner[socket]] =
                      echoed[owner[socket]] \o SubSeq(buffer, 1, n)],
             received' = received - n,
             buffer' = SubSeq(buffer, n + 1, received),
             UNCHANGED link
      PROVE  ServiceStep
  <2>1. n \in Nat /\ 1 <= n /\ n <= received /\ n \in 1..Len(Held(c)) /\ n \in 0..n
        /\ ~(n < n)
    BY <1>8
  <2>2. SubSeq(Held(c), 1, n) = SubSeq(buffer, 1, n)
    <3>1. /\ SubSeq(Held(c), 1, n) \in Seq(Byte) /\ Len(SubSeq(Held(c), 1, n)) = n
          /\ \A k \in 1..n : SubSeq(Held(c), 1, n)[k] = Held(c)[k]
      BY <1>8, <2>1, FrontIsSeq
    <3>2. /\ SubSeq(buffer, 1, n) \in Seq(Byte) /\ Len(SubSeq(buffer, 1, n)) = n
          /\ \A k \in 1..n : SubSeq(buffer, 1, n)[k] = buffer[k]
      BY <1>1, <1>4, <2>1, FrontIsSeq
    <3>3. \A k \in 1..n : k \in 1..received
      BY <1>8, <2>1
    <3> QED
      BY <1>8, <3>1, <3>2, <3>3, SeqEqual
  <2>3. Held(c)' = SubSeq(Held(c), n + 1, Len(Held(c)))
    <3> DEFINE g == SubSeq(Held(c), n + 1, Len(Held(c)))
    <3>1. /\ g \in Seq(Byte) /\ Len(g) = received - n
          /\ \A k \in 1..(received - n) : g[k] = Held(c)[n + k]
      BY <1>8, <2>1, BackIsSeq
    <3>2. CASE n = received
      <4>1. Has(s)' = <<>>
        BY <1>2, <1>4, <1>8, <1>9, <3>2 DEF Has
      <4>2. g = <<>>
        BY <1>8, <3>1, <3>2, EmptyIffLen
      <4> QED
        BY <1>7, <4>1, <4>2
    <3>3. CASE n # received
      <4> DEFINE r == received - n
      <4>1. r \in Nat /\ r > 0 /\ received' = r /\ r # 0 /\ n + 1 <= received
        BY <1>8, <1>9, <2>1, <3>3
      <4>2. Has(s)' = SubSeq(buffer', 1, r)
        BY <1>2, <1>3, <4>1 DEF Has
      <4>3. /\ buffer' \in Seq(Byte) /\ Len(buffer') = r
            /\ \A k \in 1..r : buffer'[k] = buffer[n + k]
        <5>1. \A k \in (n + 1)..received : buffer[k] \in Byte
          BY <1>1, <1>4, <2>1, ElementOfSeq
        <5>2. /\ SubSeq(buffer, n + 1, received) \in Seq(Byte)
              /\ Len(SubSeq(buffer, n + 1, received)) = received - (n + 1) + 1
              /\ \A k \in 1..(received - (n + 1) + 1) :
                    SubSeq(buffer, n + 1, received)[k] = buffer[n + 1 + k - 1]
          BY <1>1, <1>4, <2>1, <4>1, <5>1, SubSeqProperties
        <5>3. /\ received - (n + 1) + 1 = r
              /\ \A k \in 1..r : n + 1 + k - 1 = n + k
          BY <1>8, <2>1
        <5> QED
          BY <1>9, <5>2, <5>3
      <4>4. Has(s)' = buffer'
        BY <4>2, <4>3, SubSeqFull
      <4>5. \A k \in 1..r : buffer'[k] = g[k]
        <5>1. \A k \in 1..r : n + k \in 1..received
          BY <1>8, <2>1
        <5> QED
          BY <1>8, <3>1, <4>3, <5>1
      <4> HIDE DEF g, r
      <4>6. buffer' = g
        BY <3>1, <4>3, <4>5, SeqEqual DEF r
      <4> QED
        BY <1>7, <4>4, <4>6 DEF g
    <3> QED
      BY <3>2, <3>3
  <2>4. echoed' = [echoed EXCEPT ![c] = echoed[c] \o SubSeq(Held(c), 1, n)]
    BY <1>2, <1>9, <2>2
  <2> QED
    BY <1>2, <1>3, <1>4, <1>6, <1>9, <2>1, <2>3, <2>4, SomeServed
<1>10. ASSUME link[owner[socket]] # "up",
              link' = [link EXCEPT ![owner[socket]] = "dead"],
              received' = 0, UNCHANGED echoed
       PROVE  ServiceStep
  <2>1. \A d \in Clients : link'[d] # "up" <=> link[d] # "up"
    BY <1>2, <1>4, <1>10 DEF EchoTypeOK
  <2>2. Held(c)' = SubSeq(Held(c), received + 1, Len(Held(c)))
    <3>1. Has(s)' = <<>>
      BY <1>2, <1>4, <1>10 DEF Has
    <3>2. SubSeq(Held(c), received + 1, received) = <<>>
      BY <1>8, SubSeqEmpty
    <3> QED
      BY <1>7, <1>8, <3>1, <3>2
  <2>3. echoed' = [echoed EXCEPT ![c] = echoed[c] \o SubSeq(Held(c), 1, 0)]
    <3>1. SubSeq(Held(c), 1, 0) = <<>>
      BY SubSeqEmpty
    <3>2. echoed[c] \o <<>> = echoed[c] /\ echoed \in [Clients -> Seq(Byte)]
      BY <1>4, ConcatEmptySeq DEF EchoTypeOK
    <3> QED
      BY <1>10, <3>1, <3>2
  <2>4. received \in 1..Len(Held(c)) /\ 0 \in 0..received /\ link[c] # "up"
    BY <1>2, <1>8, <1>10
  <2> QED
    BY <1>2, <1>3, <1>4, <1>6, <2>1, <2>2, <2>3, <2>4, SomeServed
<1> QED
  BY <1>1, <1>9, <1>10

\* Every kind of step is a step of the service, or none.
LEMMA StepServed ==
    ASSUME KernelInv, OutputInv, HeldInv, KernelInv', HeldInv', KernelStep
    PROVE  ServiceStep
<1>1. ~Down /\ UNCHANGED server
  BY DEF KernelStep
<1>2. CASE ClientStep /\ UNCHANGED output
  BY <1>1, <1>2, ClientsServed
<1>3. CASE Quiet
  <2>1. /\ UNCHANGED <<conn, link, sent, rx, echoed, owner>>
        /\ \A t \in Open : Has(t)' = Has(t)
    BY <1>3 DEF Quiet, kernelVars, Has
  <2> QED
    BY <1>1, <2>1, ErrorServed
<1>4. ASSUME NEW s \in Fds, Accepting(s) PROVE ServiceStep
  BY <1>1, <1>4, AcceptServed
<1>5. ASSUME NEW s \in Fds, Closing(s) PROVE ServiceStep
  BY <1>1, <1>5, CloseServed
<1>6. ASSUME NEW s \in Fds, Receiving(s) PROVE ServiceStep
  BY <1>1, <1>6, RecvServed
<1>7. ASSUME NEW s \in Fds, FailingToReceive(s) PROVE ServiceStep
  <2>1. /\ UNCHANGED <<conn, sent, rx, echoed, owner, output>>
        /\ received = 0 /\ received' = -1
    BY <1>7 DEF FailingToReceive, EchoRecvFails
  <2>2. \A d \in Clients : link'[d] # "up" <=> link[d] # "up"
    BY <1>7 DEF FailingToReceive, EchoRecvFails, KernelInv, EchoTypeOK
  <2>3. \A t \in Open : Has(t)' = Has(t)
    BY <2>1 DEF Has
  <2> QED
    BY <1>1, <2>1, <2>2, <2>3, ErrorServed
<1>8. CASE Sending
  BY <1>1, <1>8, SendServed
<1>9. ASSUME NEW s \in Open, Async!ReadCbFails(s) PROVE ServiceStep
  <2>1. /\ UNCHANGED <<conn, sent, rx, echoed, owner, output, buffer, received, socket>>
        /\ link' = [link EXCEPT ![owner[s]] = "dead"] /\ link[owner[s]] = "reset"
    BY <1>9 DEF Async!ReadCbFails, Async!asyncVars, Async!echoVars
  <2>2. \A d \in Clients : link'[d] # "up" <=> link[d] # "up"
    BY <2>1 DEF KernelInv, EchoTypeOK
  <2>3. \A t \in Open : Has(t)' = Has(t)
    BY <2>1 DEF Has
  <2> QED
    BY <1>1, <2>1, <2>2, <2>3, ErrorServed
<1>10. CASE InLibrary
  BY <1>1, <1>9, <1>10, TakeServed, FlushServed, BlockingSendServed DEF InLibrary
<1> QED
  BY <1>2, <1>3, <1>4, <1>5, <1>6, <1>7, <1>8, <1>10 DEF KernelStep

LEMMA ServiceInit == Init => Service!Init
<1> SUFFICES ASSUME Init PROVE Service!Init
  OBVIOUS
<1>1. /\ conn = [c \in Clients |-> "new"] /\ link = [c \in Clients |-> "up"]
      /\ sent = [c \in Clients |-> 0] /\ rx = [c \in Clients |-> <<>>]
      /\ echoed = [c \in Clients |-> <<>>] /\ pc = "wait"
  BY DEF Init, EchoInit
<1>2. HeldInv
  BY InvInit, WhatIsHeld DEF Inv
<1>3. \A c \in Clients : Held(c) = <<>>
  BY <1>1, <1>2 DEF HeldInv
<1>4. <<>> \o <<>> = <<>>
  BY EmptySeq, ConcatEmptySeq
<1>5. [c \in Clients |-> Held(c) \o rx[c]] = [c \in Clients |-> <<>>]
  BY <1>1, <1>3, <1>4
<1>6. [c \in Clients |-> IF conn[c] \in {"queued", "accepted"}
                         THEN "open" ELSE conn[c]] = [c \in Clients |-> "new"]
  BY <1>1
<1>7. [c \in Clients |-> link[c] # "up"] = [c \in Clients |-> FALSE]
  BY <1>1
<1>8. ~Down /\ (server \in AsyncServers) \in BOOLEAN
  BY <1>1 DEF Down
<1> QED
  BY <1>1, <1>5, <1>6, <1>7, <1>8 DEF Service!Init

LEMMA ServiceNext == Inv /\ Inv' /\ HeldInv /\ HeldInv' /\ [Next]_allVars => ServiceStep
<1> SUFFICES ASSUME Inv, Inv', HeldInv, HeldInv', [Next]_allVars PROVE ServiceStep
  OBVIOUS
<1>1. CASE Next /\ ~StartUp
  BY <1>1, InvStep, StepServed DEF Inv
<1>2. CASE StartUp \/ UNCHANGED allVars
  <2>1. UNCHANGED <<server, kernelVars, pc, echoVars, output>>
    BY <1>2 DEF StartUp, Setup!SetupNext, allVars, vars, loopVars, asyncVars
  <2>2. UNCHANGED <<conn, link, sent, rx, echoed, owner, server, pc, received,
                    socket, buffer, output>>
    BY <2>1 DEF kernelVars, echoVars
  <2>3. \A c \in Clients : Held(c)' = Held(c)
    BY <2>2 DEF Held, Open
  <2>4. UNCHANGED Service!vars
    BY <2>2, <2>3 DEF Service!vars, Down, AsyncServers
  <2> QED
    BY <2>4 DEF ServiceStep
<1> QED
  BY <1>1, <1>2

\* Every server, whatever its clients do and whichever calls fail, is an echo
\* service in the sense of EchoService: it sends back what the client wrote, in
\* order and at most once, closes only connections that the client has ended,
\* and, with a library, loses no byte of a connection that is open.
THEOREM ServersImplementService == Spec => ImplementsService
<1>1. Inv => HeldInv
  BY WhatIsHeld DEF Inv
<1>2. Inv /\ Inv' /\ HeldInv /\ HeldInv' /\ [Next]_allVars
          => [Service!Next]_(Service!vars)
  BY ServiceNext DEF ServiceStep
<1> QED
  BY SpecInv, <1>1, <1>2, ServiceInit, PTL DEF Spec, ImplementsService, Service!Spec

\* The theorems about every echo service hold of the servers.
Promise == INSTANCE EchoServiceProofs WITH
    status   <- [c \in Clients |-> IF conn[c] \in {"queued", "accepted"}
                                   THEN "open" ELSE conn[c]],
    ended    <- [c \in Clients |-> link[c] # "up"],
    pending  <- [c \in Clients |-> Held(c) \o rx[c]],
    reliable <- server \in AsyncServers,
    up       <- ~Down

\* A client gets back only its own bytes, each at most once and in the order in
\* which it wrote them, although the connections share one buffer and
\* descriptors are reused.
THEOREM ServersKeepOrder == Spec => []OwnBytesInOrder
<1>1. Promise!OrderInv => OwnBytesInOrder
  <2> SUFFICES ASSUME Promise!OrderInv,
                      NEW c \in Clients, NEW k \in 1..Len(echoed[c])
               PROVE  /\ echoed[c][k][1] = c
                      /\ k > 1 => echoed[c][k - 1][2] < echoed[c][k][2]
    BY DEF OwnBytesInOrder
  <2>1. echoed[c] \in Seq(Promise!Byte) /\ Len(echoed[c]) \in Nat
    BY LenProperties DEF Promise!OrderInv
  <2>2. Promise!InOrder(echoed[c], c)
    BY DEF Promise!OrderInv, Promise!Stream
  <2> QED
    BY <2>1, <2>2 DEF Promise!InOrder
<1>2. Service!Init => Promise!Init
  BY DEF Service!Init, Promise!Init
<1>3. [Service!Next]_(Service!vars) => [Promise!Next]_(Promise!vars)
  BY DEF Service!Next, Service!vars, Service!Connect, Service!Write, Service!End,
         Service!Echo, Service!Close, Service!Abandon, Service!GoDown,
         Promise!Next, Promise!vars, Promise!Connect, Promise!Write, Promise!End,
         Promise!Echo, Promise!Close, Promise!Abandon, Promise!GoDown
<1> QED
  BY ServersImplementService, Promise!ServiceKeepsOrder, <1>1, <1>2, <1>3, PTL
  DEF ImplementsService, Service!Spec, Promise!Spec
=============================================================================
