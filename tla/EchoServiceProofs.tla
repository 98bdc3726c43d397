------------------------- MODULE EchoServiceProofs --------------------------
(***************************************************************************)
(* What follows from the promise of an echo service: a client gets back    *)
(* its own bytes, in order.  The module EchoServersProofs carries this     *)
(* over to the servers through the refinement.                             *)
(***************************************************************************)
EXTENDS EchoService, SequenceTheorems, TLAPS

Byte == Clients \X Nat

\* The bytes of s are those of client c, in the order in which it wrote them.
InOrder(s, c) ==
    /\ \A k \in 1..Len(s) : s[k][1] = c
    /\ \A j, k \in 1..Len(s) : j < k => s[j][2] < s[k][2]

\* Everything in s was written before everything in t.
Before(s, t) ==
    \A j \in 1..Len(s), k \in 1..Len(t) : s[j][2] < t[k][2]

\* No byte of s is behind the first n that were written.
UpTo(s, n) == \A k \in 1..Len(s) : s[k][2] <= n

\* What client c was sent back (e) and what it is still to be sent (p), of the n
\* bytes that it wrote.
Stream(e, p, c, n) ==
    /\ e \in Seq(Byte) /\ p \in Seq(Byte)
    /\ InOrder(e, c) /\ InOrder(p, c)
    /\ Before(e, p)
    /\ UpTo(e, n) /\ UpTo(p, n)

\* For each client: what was echoed and what is pending are in order, the first
\* before the second, and both before the next byte the client writes.
OrderInv ==
    /\ sent \in [Clients -> Nat]
    /\ echoed \in [Clients -> Seq(Byte)]
    /\ pending \in [Clients -> Seq(Byte)]
    /\ \A c \in Clients : Stream(echoed[c], pending[c], c, sent[c])
-----------------------------------------------------------------------------
LEMMA OrderInit == Init => OrderInv
<1> SUFFICES ASSUME Init PROVE OrderInv
  OBVIOUS
<1>1. \A c \in Clients : Stream(<<>>, <<>>, c, 0)
  BY EmptySeq DEF Stream, InOrder, Before, UpTo
<1> QED
  BY <1>1 DEF OrderInv, Init, Stream

LEMMA ByteNumbers ==
    ASSUME NEW s \in Seq(Byte) PROVE \A k \in 1..Len(s) : s[k][2] \in Nat
<1> SUFFICES ASSUME NEW k \in 1..Len(s) PROVE s[k][2] \in Nat
  OBVIOUS
<1>1. s[k] \in Byte
  BY ElementOfSeq
<1> QED
  BY <1>1 DEF Byte

\* Taking n bytes off p and putting the first m of them behind e.
LEMMA EchoKeepsOrder ==
    ASSUME NEW c \in Clients, NEW e \in Seq(Byte), NEW p \in Seq(Byte),
           NEW n \in 0..Len(p), NEW m \in 0..n,
           NEW last, Stream(e, p, c, last)
    PROVE  Stream(e \o SubSeq(p, 1, m), SubSeq(p, n + 1, Len(p)), c, last)
<1> DEFINE h == SubSeq(p, 1, m)
<1> SUFFICES ASSUME NEW f, f = e \o h, NEW q, q = SubSeq(p, n + 1, Len(p))
             PROVE  Stream(f, q, c, last)
  OBVIOUS
<1>0. InOrder(e, c) /\ InOrder(p, c) /\ Before(e, p) /\ UpTo(e, last) /\ UpTo(p, last)
  BY DEF Stream
<1>1. Len(p) \in Nat /\ Len(e) \in Nat /\ n \in Nat /\ m \in Nat
  BY LenProperties
<1>2. \A k \in 1..Len(p) : p[k] \in Byte
  BY ElementOfSeq
<1>3. /\ h \in Seq(Byte) /\ Len(h) = m
      /\ \A k \in 1..m : h[k] = p[k]
  <2>1. \A k \in 1..m : p[k] \in Byte
    BY <1>1, <1>2
  <2> QED
    BY <1>1, <2>1, SubSeqProperties
<1>4. /\ q \in Seq(Byte) /\ Len(q) = Len(p) - n
      /\ \A k \in 1..(Len(p) - n) : q[k] = p[n + k]
  <2>1. \A k \in (n + 1)..Len(p) : p[k] \in Byte
    BY <1>1, <1>2
  <2> QED
    BY <1>1, <2>1, SubSeqProperties
<1>5. /\ f \in Seq(Byte) /\ Len(f) = Len(e) + m
      /\ \A k \in 1..(Len(e) + m) :
            f[k] = IF k <= Len(e) THEN e[k] ELSE h[k - Len(e)]
  BY <1>1, <1>3, ConcatProperties
<1> HIDE DEF h
<1>6. InOrder(q, c)
  BY <1>0, <1>1, <1>4 DEF InOrder
<1>7. ASSUME NEW k \in 1..Len(f)
      PROVE  \/ k \in 1..Len(e) /\ f[k] = e[k]
             \/ /\ k > Len(e) /\ k - Len(e) \in 1..m
                /\ k - Len(e) \in 1..Len(p) /\ f[k] = p[k - Len(e)]
  <2>1. CASE k <= Len(e)
    BY <1>1, <1>5, <2>1
  <2>2. CASE ~(k <= Len(e))
    <3>1. k - Len(e) \in 1..m /\ f[k] = h[k - Len(e)]
      BY <1>1, <1>5, <2>2
    <3> QED
      BY <1>1, <1>3, <2>2, <3>1
  <2> QED
    BY <2>1, <2>2
<1>8. InOrder(f, c)
  <2>1. ASSUME NEW k \in 1..Len(f) PROVE f[k][1] = c
    BY <1>0, <1>7 DEF InOrder
  <2>2. ASSUME NEW j \in 1..Len(f), NEW k \in 1..Len(f), j < k
        PROVE  f[j][2] < f[k][2]
    <3>1. CASE k \in 1..Len(e) /\ f[k] = e[k]
      <4>1. j \in 1..Len(e) /\ f[j] = e[j]
        BY <1>1, <1>7, <2>2, <3>1
      <4> QED
        BY <1>0, <2>2, <3>1, <4>1 DEF InOrder
    <3>2. CASE k - Len(e) \in 1..Len(p) /\ f[k] = p[k - Len(e)]
      <4>1. CASE j \in 1..Len(e) /\ f[j] = e[j]
        BY <1>0, <3>2, <4>1 DEF Before
      <4>2. CASE j - Len(e) \in 1..Len(p) /\ f[j] = p[j - Len(e)]
        <5>1. j - Len(e) < k - Len(e)
          BY <1>1, <2>2
        <5> QED
          BY <1>0, <3>2, <4>2, <5>1 DEF InOrder
      <4> QED
        BY <1>7, <4>1, <4>2
    <3> QED
      BY <1>7, <3>1, <3>2
  <2> QED
    BY <2>1, <2>2 DEF InOrder
<1>9. Before(f, q)
  <2> SUFFICES ASSUME NEW j \in 1..Len(f), NEW k \in 1..Len(q)
               PROVE  f[j][2] < q[k][2]
    BY DEF Before
  <2>1. n + k \in 1..Len(p) /\ n + k > m
    BY <1>1, <1>4
  <2>2. q[k] = p[n + k]
    BY <1>1, <1>4
  <2>3. CASE j \in 1..Len(e) /\ f[j] = e[j]
    BY <1>0, <2>1, <2>2, <2>3 DEF Before
  <2>4. CASE /\ j - Len(e) \in 1..m
             /\ j - Len(e) \in 1..Len(p) /\ f[j] = p[j - Len(e)]
    <3>1. j - Len(e) < n + k
      BY <1>1, <2>1, <2>4
    <3> QED
      BY <1>0, <2>1, <2>2, <2>4, <3>1 DEF InOrder
  <2> QED
    BY <1>7, <2>3, <2>4
<1>10. UpTo(f, last)
  BY <1>0, <1>7 DEF UpTo
<1>11. UpTo(q, last)
  BY <1>0, <1>1, <1>4 DEF UpTo
<1> QED
  BY <1>4, <1>5, <1>6, <1>8, <1>9, <1>10, <1>11 DEF Stream

LEMMA WriteKeepsOrder ==
    ASSUME NEW c \in Clients, NEW e, NEW p, NEW n \in Nat, Stream(e, p, c, n)
    PROVE  Stream(e, Append(p, <<c, n + 1>>), c, n + 1)
<1> SUFFICES ASSUME NEW b, b = <<c, n + 1>>, NEW q, q = Append(p, b)
             PROVE  Stream(e, q, c, n + 1)
  OBVIOUS
<1>1. /\ e \in Seq(Byte) /\ p \in Seq(Byte) /\ b \in Byte
      /\ Len(p) \in Nat /\ Len(e) \in Nat
  BY LenProperties DEF Stream, Byte
<1>2. /\ q \in Seq(Byte) /\ Len(q) = Len(p) + 1
      /\ \A k \in 1..Len(p) : q[k] = p[k]
      /\ q[Len(p) + 1] = b
  BY <1>1, AppendProperties
<1>3. b[1] = c /\ b[2] = n + 1
  OBVIOUS
<1>4. /\ \A k \in 1..Len(p) : p[k][2] \in Nat
      /\ \A k \in 1..Len(e) : e[k][2] \in Nat
  BY <1>1, ByteNumbers
<1>5. InOrder(e, c) /\ InOrder(p, c) /\ Before(e, p) /\ UpTo(e, n) /\ UpTo(p, n)
  BY DEF Stream
<1>6. InOrder(q, c)
  BY <1>1, <1>2, <1>3, <1>4, <1>5 DEF InOrder, UpTo
<1>7. Before(e, q)
  BY <1>1, <1>2, <1>3, <1>4, <1>5 DEF Before, UpTo
<1>8. UpTo(q, n + 1)
  BY <1>1, <1>2, <1>3, <1>4, <1>5 DEF UpTo
<1>9. UpTo(e, n + 1)
  BY <1>4, <1>5 DEF UpTo
<1> QED
  BY <1>1, <1>2, <1>5, <1>6, <1>7, <1>8, <1>9 DEF Stream

LEMMA OrderNext == OrderInv /\ [Next]_vars => OrderInv'
<1> SUFFICES ASSUME OrderInv, [Next]_vars PROVE OrderInv'
  OBVIOUS
<1> USE DEF OrderInv
<1>1. ASSUME NEW c \in Clients, Connect(c) PROVE OrderInv'
  BY <1>1 DEF Connect
<1>2. ASSUME NEW c \in Clients, Write(c) PROVE OrderInv'
  <2>1. Stream(echoed[c], Append(pending[c], <<c, sent[c] + 1>>), c, sent[c] + 1)
    BY WriteKeepsOrder
  <2>2. /\ sent' = [sent EXCEPT ![c] = sent[c] + 1]
        /\ pending' = [pending EXCEPT ![c] = Append(pending[c], <<c, sent[c] + 1>>)]
        /\ echoed' = echoed
    BY <1>2 DEF Write
  <2>3. ASSUME NEW d \in Clients
        PROVE  Stream(echoed'[d], pending'[d], d, sent'[d])
    BY <2>1, <2>2
  <2>4. /\ sent' \in [Clients -> Nat]
        /\ pending' \in [Clients -> Seq(Byte)]
    BY <2>1, <2>2 DEF Stream
  <2> QED
    BY <2>2, <2>3, <2>4
<1>3. ASSUME NEW c \in Clients, End(c) PROVE OrderInv'
  BY <1>3 DEF End
<1>4. ASSUME NEW c \in Clients, Echo(c) PROVE OrderInv'
  <2>1. PICK n \in 1..Len(pending[c]) : \E m \in 0..n :
           /\ echoed' = [echoed EXCEPT ![c] = echoed[c] \o SubSeq(pending[c], 1, m)]
           /\ pending' = [pending EXCEPT ![c] =
                             SubSeq(pending[c], n + 1, Len(pending[c]))]
    BY <1>4 DEF Echo
  <2>2. PICK m \in 0..n :
           /\ echoed' = [echoed EXCEPT ![c] = echoed[c] \o SubSeq(pending[c], 1, m)]
           /\ pending' = [pending EXCEPT ![c] =
                             SubSeq(pending[c], n + 1, Len(pending[c]))]
    BY <2>1
  <2>3. sent' = sent
    BY <1>4 DEF Echo
  <2>4. Stream(echoed[c] \o SubSeq(pending[c], 1, m),
               SubSeq(pending[c], n + 1, Len(pending[c])), c, sent[c])
    <3>1. /\ n \in 0..Len(pending[c])
          /\ echoed[c] \in Seq(Byte) /\ pending[c] \in Seq(Byte)
          /\ Stream(echoed[c], pending[c], c, sent[c])
      BY LenProperties DEF Stream
    <3> QED
      BY ONLY <3>1, c \in Clients, m \in 0..n, EchoKeepsOrder, Zenon
  <2> QED
    BY <2>2, <2>3, <2>4
<1>5. ASSUME NEW c \in Clients, Close(c) PROVE OrderInv'
  <2>1. PICK n \in 0..Len(pending[c]) :
           pending' = [pending EXCEPT ![c] =
                          SubSeq(pending[c], n + 1, Len(pending[c]))]
    BY <1>5 DEF Close
  <2>2. sent' = sent /\ echoed' = echoed
    BY <1>5 DEF Close
  <2>3. Stream(echoed[c] \o SubSeq(pending[c], 1, 0),
               SubSeq(pending[c], n + 1, Len(pending[c])), c, sent[c])
    <3>1. /\ 0 \in 0..n /\ n \in 0..Len(pending[c])
          /\ echoed[c] \in Seq(Byte) /\ pending[c] \in Seq(Byte)
          /\ Stream(echoed[c], pending[c], c, sent[c])
      BY LenProperties DEF Stream
    <3> QED
      BY ONLY <3>1, c \in Clients, EchoKeepsOrder, Zenon
  <2>4. echoed[c] \o SubSeq(pending[c], 1, 0) = echoed[c]
    BY SubSeqEmpty, ConcatEmptySeq DEF Stream
  <2> DEFINE q == SubSeq(pending[c], n + 1, Len(pending[c]))
  <2>5. Stream(echoed[c], q, c, sent[c]) /\ q \in Seq(Byte)
    BY <2>3, <2>4 DEF Stream
  <2> HIDE DEF q
  <2>6. pending' = [pending EXCEPT ![c] = q]
    BY <2>1 DEF q
  <2> QED
    BY <2>2, <2>5, <2>6
<1>6. ASSUME NEW c \in Clients, Abandon(c) PROVE OrderInv'
  BY <1>6 DEF Abandon
<1>7. CASE GoDown
  BY <1>7 DEF GoDown
<1>8. CASE UNCHANGED vars
  BY <1>8 DEF vars
<1> QED
  BY <1>1, <1>2, <1>3, <1>4, <1>5, <1>6, <1>7, <1>8 DEF Next

\* Every service in the sense of EchoService returns to each client its own
\* bytes, each at most once, in the order in which they were written.
THEOREM ServiceKeepsOrder == Spec => []OrderInv
BY OrderInit, OrderNext, PTL DEF Spec
=============================================================================
