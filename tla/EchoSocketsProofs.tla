------------------------- MODULE EchoSocketsProofs --------------------------
(***************************************************************************)
(* What the system calls and the clients preserve, whichever server runs:  *)
(* the lemmas that EchoServersProofs and ChatProofs share.                 *)
(***************************************************************************)
EXTENDS EchoSockets, SequenceTheorems, TLAPS

\* The descriptor table is an injection into the accepted connections: no
\* connection is lost without close and none is reachable by two descriptors.
DescriptorsMatch ==
    /\ \A s, t \in Open : owner[s] = owner[t] => s = t
    /\ {owner[s] : s \in Open} = {c \in Clients : conn[c] = "accepted"}

\* The queue of the listening socket holds connections that are not accepted
\* yet, each once.
BacklogInv ==
    /\ \A k \in 1..Len(backlog) : conn[backlog[k]] = "queued"
    /\ \A j, k \in 1..Len(backlog) : backlog[j] = backlog[k] => j = k

\* Nothing was sent back before accept.
Unserved ==
    \A c \in Clients : conn[c] \in {"new", "queued"} => echoed[c] = <<>>

\* echo() sends what it has put into the buffer, to the socket it came from.
Holding == received > 0 => socket \in Open /\ received <= Len(buffer)

KernelInv ==
    /\ EchoTypeOK
    /\ DescriptorsMatch
    /\ BacklogInv
    /\ Unserved
    /\ Holding

Errno == {"EAGAIN", "other"}
-----------------------------------------------------------------------------
(***************************************************************************)
(* Parts of sequences                                                      *)
(***************************************************************************)
LEMMA FrontIsSeq ==
    ASSUME NEW S, NEW s \in Seq(S), NEW n \in Int, n <= Len(s)
    PROVE  /\ SubSeq(s, 1, n) \in Seq(S)
           /\ Len(SubSeq(s, 1, n)) = IF 1 <= n THEN n ELSE 0
           /\ \A k \in 1..n : SubSeq(s, 1, n)[k] = s[k]
<1>1. Len(s) \in Nat
  BY LenProperties
<1>2. \A k \in 1..n : s[k] \in S
  BY <1>1, ElementOfSeq
<1> QED
  BY <1>1, <1>2, SubSeqProperties

LEMMA BackIsSeq ==
    ASSUME NEW S, NEW s \in Seq(S), NEW n \in Nat
    PROVE  /\ SubSeq(s, n + 1, Len(s)) \in Seq(S)
           /\ n <= Len(s) => Len(SubSeq(s, n + 1, Len(s))) = Len(s) - n
           /\ n >= Len(s) => Len(SubSeq(s, n + 1, Len(s))) = 0
           /\ \A k \in 1..(Len(s) - n) :
                 SubSeq(s, n + 1, Len(s))[k] = s[n + k]
<1>1. Len(s) \in Nat
  BY LenProperties
<1>2. \A k \in (n + 1)..Len(s) : s[k] \in S
  BY <1>1, ElementOfSeq
<1> QED
  BY <1>1, <1>2, SubSeqProperties

LEMMA EmptyIffLen ==
    ASSUME NEW S, NEW s \in Seq(S)
    PROVE  s = <<>> <=> Len(s) = 0
  BY EmptySeq

\* A sequence is its front and its back.
LEMMA FrontAndBack ==
    ASSUME NEW S, NEW s \in Seq(S), NEW n \in 0..Len(s)
    PROVE  SubSeq(s, 1, n) \o SubSeq(s, n + 1, Len(s)) = s
<1>1. Len(s) \in Nat
  BY LenProperties
<1>2. SubSeq(s, 1, n) \o SubSeq(s, n + 1, Len(s)) = SubSeq(s, 1, Len(s))
  <2>1. /\ 1 \in 1..(Len(s) + 1) /\ n \in (1 - 1)..Len(s)
        /\ Len(s) \in n..Len(s)
    BY <1>1
  <2> QED
    BY <2>1, ConcatAdjacentSubSeq
<1> QED
  BY <1>2, SubSeqFull

\* The front and the back of a concatenation.
LEMMA FrontOfConcat ==
    ASSUME NEW S, NEW s \in Seq(S), NEW t \in Seq(S), NEW n \in 0..Len(s)
    PROVE  SubSeq(s \o t, 1, n) = SubSeq(s, 1, n)
<1>1. Len(s) \in Nat /\ Len(t) \in Nat
  BY LenProperties
<1>2. CASE n = 0
  BY <1>2, SubSeqEmpty
<1>3. CASE n # 0
  <2>1. 1 \in 1..Len(s) /\ n \in 1..Len(s)
    BY <1>1, <1>3
  <2> QED
    BY <2>1, SubSeqOfConcat1
<1> QED
  BY <1>2, <1>3

LEMMA BackOfConcat ==
    ASSUME NEW S, NEW s \in Seq(S), NEW t \in Seq(S), NEW n \in 0..Len(s)
    PROVE  SubSeq(s \o t, n + 1, Len(s \o t)) = SubSeq(s, n + 1, Len(s)) \o t
<1> DEFINE f == SubSeq(s, n + 1, Len(s))
           g == s \o t
<1>1. Len(s) \in Nat /\ Len(t) \in Nat
  BY LenProperties
<1>2. /\ g \in Seq(S) /\ Len(g) = Len(s) + Len(t)
      /\ \A k \in 1..(Len(s) + Len(t)) :
            g[k] = IF k <= Len(s) THEN s[k] ELSE t[k - Len(s)]
  BY ConcatProperties
<1>3. /\ f \in Seq(S) /\ Len(f) = Len(s) - n
      /\ \A k \in 1..(Len(s) - n) : f[k] = s[n + k]
  <2>1. n \in Nat /\ n <= Len(s)
    BY <1>1
  <2> QED
    BY <2>1, BackIsSeq
<1>4. /\ f \o t \in Seq(S) /\ Len(f \o t) = Len(f) + Len(t)
      /\ \A k \in 1..(Len(f) + Len(t)) :
            (f \o t)[k] = IF k <= Len(f) THEN f[k] ELSE t[k - Len(f)]
  BY <1>3, ConcatProperties
<1> HIDE DEF f, g
<1> DEFINE h == SubSeq(g, n + 1, Len(g))
           u == f \o t
<1>5. /\ h \in Seq(S) /\ Len(h) = Len(g) - n
      /\ \A k \in 1..(Len(g) - n) : h[k] = g[n + k]
  <2>1. n \in Nat /\ n <= Len(g)
    BY <1>1, <1>2
  <2> QED
    BY <1>2, <2>1, BackIsSeq
<1>6. /\ u \in Seq(S) /\ Len(u) = Len(f) + Len(t)
      /\ \A k \in 1..(Len(f) + Len(t)) :
            u[k] = IF k <= Len(f) THEN f[k] ELSE t[k - Len(f)]
  BY <1>4
<1> HIDE DEF h, u
<1>7. Len(h) = Len(u)
  BY <1>1, <1>2, <1>3, <1>5, <1>6
<1>8. ASSUME NEW k \in 1..Len(h) PROVE h[k] = u[k]
  <2>1. k \in 1..(Len(s) - n + Len(t)) /\ n + k \in 1..(Len(s) + Len(t))
    BY <1>1, <1>2, <1>5
  <2>2. h[k] = g[n + k]
    BY <1>1, <1>2, <1>5
  <2>3. CASE k <= Len(s) - n
    BY <1>1, <1>2, <1>3, <1>6, <2>1, <2>2, <2>3
  <2>4. CASE ~(k <= Len(s) - n)
    <3>1. (n + k) - Len(s) = k - Len(f) /\ ~(n + k <= Len(s)) /\ ~(k <= Len(f))
      BY <1>1, <1>3, <2>1, <2>4
    <3> QED
      BY <1>1, <1>2, <1>3, <1>6, <2>1, <2>2, <3>1
  <2> QED
    BY <2>3, <2>4
<1>9. h = u
  BY <1>5, <1>6, <1>7, <1>8, SeqEqual
<1> QED
  BY <1>9 DEF f, g, h, u

\* Moving the front of one sequence behind another.
LEMMA MovedOver ==
    ASSUME NEW S, NEW o \in Seq(S), NEW q \in Seq(S), NEW n \in 0..Len(q)
    PROVE  (o \o SubSeq(q, 1, n)) \o SubSeq(q, n + 1, Len(q)) = o \o q
<1> DEFINE f == SubSeq(q, 1, n)
           b == SubSeq(q, n + 1, Len(q))
<1>1. /\ Len(q) \in Nat /\ Len(o) \in Nat /\ n \in Nat /\ n <= Len(q)
      /\ n \in Int
  BY LenProperties
<1>2. /\ f \in Seq(S) /\ Len(f) = n /\ \A k \in 1..n : f[k] = q[k]
  BY <1>1, FrontIsSeq
<1>3. /\ b \in Seq(S) /\ Len(b) = Len(q) - n
      /\ \A k \in 1..(Len(q) - n) : b[k] = q[n + k]
  BY <1>1, BackIsSeq
<1> HIDE DEF f, b
<1> DEFINE g == o \o f
<1>4. /\ g \in Seq(S) /\ Len(g) = Len(o) + n
      /\ \A k \in 1..(Len(o) + n) :
            g[k] = IF k <= Len(o) THEN o[k] ELSE f[k - Len(o)]
  BY <1>2, ConcatProperties
<1> HIDE DEF g
<1> DEFINE u == g \o b
           v == o \o q
<1>5. /\ u \in Seq(S) /\ Len(u) = Len(o) + Len(q)
      /\ \A k \in 1..(Len(o) + Len(q)) :
            u[k] = IF k <= Len(o) + n THEN g[k] ELSE b[k - (Len(o) + n)]
  <2>1. /\ u \in Seq(S) /\ Len(u) = Len(g) + Len(b)
        /\ \A k \in 1..(Len(g) + Len(b)) :
              u[k] = IF k <= Len(g) THEN g[k] ELSE b[k - Len(g)]
    BY <1>3, <1>4, ConcatProperties
  <2>2. Len(g) + Len(b) = Len(o) + Len(q)
    BY <1>1, <1>3, <1>4
  <2> QED
    BY <1>4, <2>1, <2>2
<1>6. /\ v \in Seq(S) /\ Len(v) = Len(o) + Len(q)
      /\ \A k \in 1..(Len(o) + Len(q)) :
            v[k] = IF k <= Len(o) THEN o[k] ELSE q[k - Len(o)]
  BY ConcatProperties
<1> HIDE DEF u, v
<1>7. ASSUME NEW k \in 1..(Len(o) + Len(q)) PROVE u[k] = v[k]
  <2>1. CASE k <= Len(o)
    <3>1. k \in 1..(Len(o) + n) /\ k <= Len(o) + n
      BY <1>1, <2>1
    <3> QED
      BY <1>4, <1>5, <1>6, <2>1, <3>1
  <2>2. CASE k > Len(o) /\ k <= Len(o) + n
    <3>1. k - Len(o) \in 1..n /\ k \in 1..(Len(o) + n) /\ ~(k <= Len(o))
      BY <1>1, <2>2
    <3> QED
      BY <1>2, <1>4, <1>5, <1>6, <2>2, <3>1
  <2>3. CASE k > Len(o) + n
    <3>1. /\ k - (Len(o) + n) \in 1..(Len(q) - n)
          /\ n + (k - (Len(o) + n)) = k - Len(o)
          /\ ~(k <= Len(o)) /\ ~(k <= Len(o) + n)
      BY <1>1, <2>3
    <3> QED
      BY <1>3, <1>5, <1>6, <3>1
  <2> QED
    BY <1>1, <2>1, <2>2, <2>3
<1>8. u = v
  BY <1>5, <1>6, <1>7, SeqEqual
<1> QED
  BY <1>8 DEF u, v, g, f, b

\* Appending behind a concatenation.
LEMMA AppendedBehind ==
    ASSUME NEW S, NEW o \in Seq(S), NEW q \in Seq(S), NEW e \in S
    PROVE  o \o Append(q, e) = Append(o \o q, e)
<1>1. /\ Append(q, e) \in Seq(S) /\ Len(Append(q, e)) = Len(q) + 1
      /\ o \o q \in Seq(S) /\ Len(o) \in Nat /\ Len(q) \in Nat
  BY AppendProperties, ConcatProperties, LenProperties
<1>2. Len(o \o Append(q, e)) = Len(Append(o \o q, e))
  BY <1>1, AppendProperties, ConcatProperties
<1>3. \A k \in 1..(Len(o) + Len(q) + 1) :
          (o \o Append(q, e))[k] = Append(o \o q, e)[k]
  BY <1>1, AppendProperties, ConcatProperties
<1> QED
  BY <1>1, <1>2, <1>3, AppendProperties, ConcatProperties, SeqEqual
-----------------------------------------------------------------------------
(***************************************************************************)
(* The clients                                                             *)
(***************************************************************************)
LEMMA KernelInit == EchoInit => KernelInv
<1> SUFFICES ASSUME EchoInit PROVE KernelInv
  OBVIOUS
<1>1. Len(<<>>) = 0 /\ <<>> \in Seq(Byte) /\ <<>> \in Seq(Clients)
  BY EmptySeq
<1>2. Open = {} /\ owner \in [Open -> Clients]
  BY DEF EchoInit, Open
<1>3. EchoTypeOK
  BY <1>1, <1>2, EchoAssumption
  DEF EchoInit, EchoTypeOK, ServerFd
<1>4. DescriptorsMatch
  BY <1>2 DEF DescriptorsMatch, EchoInit
<1> QED
  BY <1>1, <1>3, <1>4
  DEF KernelInv, EchoInit, BacklogInv, Unserved, Holding

LEMMA ConnectKeeps ==
    ASSUME KernelInv, NEW c \in Clients, Connect(c), UNCHANGED echoVars
    PROVE  KernelInv'
<1> USE DEF KernelInv
<1>1. /\ backlog' \in Seq(Clients) /\ Len(backlog') = Len(backlog) + 1
      /\ \A k \in 1..Len(backlog) : backlog'[k] = backlog[k]
      /\ backlog'[Len(backlog) + 1] = c
      /\ Len(backlog) \in Nat
  BY AppendProperties, LenProperties DEF Connect, EchoTypeOK
<1>2. EchoTypeOK'
  BY <1>1 DEF EchoTypeOK, Connect, echoVars, Open
<1>3. DescriptorsMatch'
  BY DEF EchoTypeOK, DescriptorsMatch, Connect, Open
<1>4. BacklogInv'
  <2>1. \A k \in 1..Len(backlog) : backlog[k] \in Clients
    BY ElementOfSeq DEF EchoTypeOK
  <2>2. \A k \in 1..Len(backlog) : backlog[k] # c /\ conn'[backlog[k]] = "queued"
    BY <2>1 DEF BacklogInv, Connect, EchoTypeOK
  <2>3. conn'[c] = "queued"
    BY DEF Connect, EchoTypeOK
  <2> QED
    BY <1>1, <2>2, <2>3 DEF BacklogInv
<1>5. Unserved' /\ Holding'
  BY DEF Unserved, Holding, Connect, echoVars, Open, EchoTypeOK
<1> QED
  BY <1>2, <1>3, <1>4, <1>5

LEMMA WriteKeeps ==
    ASSUME KernelInv, NEW c \in Clients, Write(c), UNCHANGED echoVars
    PROVE  KernelInv'
<1> USE DEF KernelInv
<1>1. sent[c] + 1 \in 1..MaxSent /\ sent' \in [Clients -> 0..MaxSent]
  BY EchoAssumption DEF EchoTypeOK, Write
<1>2. rx' \in [Clients -> Seq(Byte)]
  <2>1. <<c, sent[c] + 1>> \in Byte
    BY <1>1 DEF Byte
  <2>2. Append(rx[c], <<c, sent[c] + 1>>) \in Seq(Byte)
    BY <2>1, AppendProperties DEF EchoTypeOK
  <2> QED
    BY <2>2 DEF Write, EchoTypeOK
<1>3. EchoTypeOK'
  BY <1>1, <1>2 DEF EchoTypeOK, Write, echoVars, Open
<1> QED
  BY <1>3 DEF DescriptorsMatch, BacklogInv, Unserved, Holding, Write, echoVars, Open

LEMMA ReadKeeps ==
    ASSUME KernelInv, NEW c \in Clients, Read(c), UNCHANGED echoVars
    PROVE  KernelInv'
<1> USE DEF KernelInv
<1>1. EchoTypeOK'
  BY EchoAssumption DEF EchoTypeOK, Read, echoVars, Open
<1> QED
  BY <1>1 DEF DescriptorsMatch, BacklogInv, Unserved, Holding, Read, echoVars, Open

LEMMA LinkKeeps ==
    ASSUME KernelInv, link' \in [Clients -> {"up", "fin", "reset", "dead"}],
           UNCHANGED <<conn, sent, rx, echoed, unread, backlog, owner, echoVars>>
    PROVE  KernelInv'
<1> USE DEF KernelInv
<1>1. EchoTypeOK'
  BY DEF EchoTypeOK, echoVars, Open
<1> QED
  BY <1>1 DEF DescriptorsMatch, BacklogInv, Unserved, Holding, echoVars, Open

LEMMA AbortKeeps ==
    ASSUME KernelInv, NEW c \in Clients, Abort(c), UNCHANGED echoVars
    PROVE  KernelInv'
<1> USE DEF KernelInv
<1>1. PICK n \in DOMAIN backlog :
          /\ backlog[n] = c
          /\ backlog' = SubSeq(backlog, 1, n - 1) \o
                        SubSeq(backlog, n + 1, Len(backlog))
  BY DEF Abort
<1> DEFINE f == SubSeq(backlog, 1, n - 1)
           g == SubSeq(backlog, n + 1, Len(backlog))
<1>2. /\ backlog \in Seq(Clients) /\ Len(backlog) \in Nat
      /\ n \in 1..Len(backlog)
  BY LenProperties DEF EchoTypeOK
<1>3. /\ f \in Seq(Clients) /\ Len(f) = n - 1
      /\ \A k \in 1..(n - 1) : f[k] = backlog[k]
  <2>1. n - 1 \in Int /\ n - 1 <= Len(backlog)
    BY <1>2
  <2>2. Len(f) = IF 1 <= n - 1 THEN n - 1 ELSE 0
    BY <1>2, <2>1, FrontIsSeq
  <2> QED
    BY <1>2, <2>1, <2>2, FrontIsSeq
<1>4. /\ g \in Seq(Clients) /\ Len(g) = Len(backlog) - n
      /\ \A k \in 1..(Len(backlog) - n) : g[k] = backlog[n + k]
  <2>1. n \in Nat /\ n <= Len(backlog)
    BY <1>2
  <2> QED
    BY <1>2, <2>1, BackIsSeq
<1> HIDE DEF f, g
<1>5. /\ backlog' \in Seq(Clients) /\ Len(backlog') = Len(f) + Len(g)
      /\ \A k \in 1..(Len(f) + Len(g)) :
            backlog'[k] = IF k <= Len(f) THEN f[k] ELSE g[k - Len(f)]
  BY <1>1, <1>3, <1>4, ConcatProperties DEF f, g
\* where entry k of the new queue was in the old one
<1> DEFINE old(k) == IF k < n THEN k ELSE k + 1
<1>6. ASSUME NEW k \in 1..Len(backlog')
      PROVE  /\ old(k) \in 1..Len(backlog) /\ old(k) # n
             /\ backlog'[k] = backlog[old(k)]
  <2>1. k \in 1..(Len(backlog) - 1)
    BY <1>2, <1>3, <1>4, <1>5
  <2>2. CASE k < n
    <3>1. k \in 1..(n - 1) /\ k <= Len(f) /\ k \in 1..(Len(f) + Len(g))
      BY <1>2, <1>3, <1>4, <2>1, <2>2
    <3>2. backlog'[k] = backlog[k]
      BY <1>3, <1>5, <3>1
    <3>3. old(k) = k /\ k \in 1..Len(backlog) /\ k # n
      BY <1>2, <2>1, <2>2
    <3> QED
      BY <3>2, <3>3
  <2>3. CASE ~(k < n)
    <3>1. k \in 1..(Len(f) + Len(g)) /\ ~(k <= Len(f))
      BY <1>2, <1>3, <1>4, <2>1, <2>3
    <3>2. k - (n - 1) \in 1..(Len(backlog) - n) /\ n + (k - (n - 1)) = k + 1
      BY <1>2, <2>1, <2>3
    <3>3. backlog'[k] = backlog[k + 1]
      BY <1>3, <1>4, <1>5, <3>1, <3>2
    <3>4. old(k) = k + 1 /\ k + 1 \in 1..Len(backlog) /\ k + 1 # n
      BY <1>2, <2>1, <2>3
    <3> QED
      BY <3>3, <3>4
  <2> QED
    BY <2>2, <2>3
<1>7. EchoTypeOK'
  BY <1>5 DEF EchoTypeOK, Abort, echoVars, Open
<1>8. DescriptorsMatch'
  <2>1. /\ UNCHANGED owner /\ conn[c] = "queued"
        /\ conn' = [conn EXCEPT ![c] = "closed"]
    BY DEF Abort
  <2>2. \A d \in Clients : conn'[d] = "accepted" <=> conn[d] = "accepted"
    BY <2>1 DEF EchoTypeOK
  <2> QED
    BY <2>1, <2>2 DEF DescriptorsMatch, Open
<1>9. BacklogInv'
  <2>1. \A k \in 1..Len(backlog) : backlog[k] \in Clients
    BY <1>2, ElementOfSeq
  <2>2. ASSUME NEW k \in 1..Len(backlog') PROVE conn'[backlog'[k]] = "queued"
    <3>1. /\ old(k) \in 1..Len(backlog) /\ old(k) # n
          /\ backlog'[k] = backlog[old(k)]
      BY <1>6
    <3>2. backlog[old(k)] # c
      BY <1>1, <1>2, <3>1 DEF BacklogInv
    <3> QED
      BY <2>1, <3>1, <3>2 DEF BacklogInv, Abort, EchoTypeOK
  <2>3. ASSUME NEW j \in 1..Len(backlog'), NEW k \in 1..Len(backlog'),
               backlog'[j] = backlog'[k]
        PROVE  j = k
    <3>1. old(j) \in 1..Len(backlog) /\ backlog'[j] = backlog[old(j)]
      BY <1>6
    <3>2. old(k) \in 1..Len(backlog) /\ backlog'[k] = backlog[old(k)]
      BY <1>6
    <3> HIDE DEF old
    <3>3. old(j) = old(k)
      BY <2>3, <3>1, <3>2 DEF BacklogInv
    <3>4. j \in Nat /\ k \in Nat /\ n \in Nat
      BY <1>2, <1>5, LenProperties
    <3> QED
      BY <3>3, <3>4 DEF old
  <2> QED
    BY <2>2, <2>3 DEF BacklogInv
<1>10. Unserved' /\ Holding'
  BY DEF Unserved, Holding, Abort, echoVars, Open, EchoTypeOK
<1> QED
  BY <1>7, <1>8, <1>9, <1>10

\* A step of a client preserves the invariant.
LEMMA ClientKeeps == ASSUME KernelInv, ClientStep PROVE KernelInv'
<1>1. PICK c \in Clients : \/ Connect(c) \/ Write(c) \/ Read(c)
                           \/ Shutdown(c) \/ Reset(c) \/ Abort(c)
  BY DEF ClientStep
<1>2. UNCHANGED echoVars
  BY DEF ClientStep
<1>3. CASE Shutdown(c) \/ Reset(c)
  <2>1. link' \in [Clients -> {"up", "fin", "reset", "dead"}]
    BY <1>3 DEF Shutdown, Reset, KernelInv, EchoTypeOK
  <2> QED
    BY <1>2, <1>3, <2>1, LinkKeeps DEF Shutdown, Reset
<1> QED
  BY <1>1, <1>2, <1>3, ConnectKeeps, WriteKeeps, ReadKeeps, AbortKeeps
-----------------------------------------------------------------------------
(***************************************************************************)
(* The server's system calls                                               *)
(***************************************************************************)
\* A call that changes nothing but errno.
LEMMA QuietKeeps ==
    ASSUME KernelInv, UNCHANGED <<kernelVars, buffer, received, socket>>,
           errno' \in Errno
    PROVE  KernelInv'
<1> USE DEF KernelInv, kernelVars
<1>1. EchoTypeOK'
  BY DEF EchoTypeOK, Errno, Open
<1> QED
  BY <1>1 DEF DescriptorsMatch, BacklogInv, Unserved, Holding, Open

LEMMA AcceptKeeps ==
    ASSUME KernelInv, NEW s \in Fds, Accept(s),
           UNCHANGED <<buffer, received, socket>>, errno' \in Errno
    PROVE  /\ KernelInv'
           /\ Open' = Open \union {s} /\ s \notin Open
           /\ \A t \in Open : owner'[t] = owner[t]
<1> USE DEF KernelInv
<1> DEFINE c == Head(backlog)
<1>1. /\ backlog \in Seq(Clients) /\ Len(backlog) \in Nat \ {0}
      /\ backlog' \in Seq(Clients) /\ Len(backlog') = Len(backlog) - 1
      /\ \A k \in 1..Len(backlog') : backlog'[k] = backlog[k + 1]
      /\ c = backlog[1] /\ c \in Clients
  BY HeadTailProperties, EmptySeq DEF Accept, EchoTypeOK
<1>2. conn[c] = "queued" /\ conn' = [conn EXCEPT ![c] = "accepted"]
  BY <1>1 DEF BacklogInv, Accept
<1> HIDE DEF c
<1>3. /\ Open' = Open \union {s} /\ s \notin Open
      /\ owner' \in [Open' -> Clients]
      /\ owner'[s] = c /\ \A t \in Open : owner'[t] = owner[t]
  <2>1. owner' = [t \in Open \union {s} |-> IF t = s THEN c ELSE owner[t]]
    BY DEF Accept, c
  <2>2. owner \in [Open -> Clients] /\ s \notin Open
    BY DEF EchoTypeOK, Accept
  <2> QED
    BY <1>1, <2>1, <2>2 DEF Open
<1>4. UNCHANGED <<link, sent, rx, echoed, unread>>
  BY DEF Accept
<1>5. EchoTypeOK'
  BY <1>1, <1>2, <1>3, <1>4 DEF EchoTypeOK, Errno
<1>6. DescriptorsMatch'
  <2>1. \A t \in Open : conn[owner[t]] = "accepted" /\ owner[t] \in Clients
    BY DEF DescriptorsMatch, EchoTypeOK
  <2>2. \A t \in Open : owner[t] # c
    BY <1>2, <2>1
  <2>3. \A d \in Clients : conn'[d] = "accepted" <=> conn[d] = "accepted" \/ d = c
    BY <1>1, <1>2 DEF EchoTypeOK
  <2>4. \A t, u \in Open' : owner'[t] = owner'[u] => t = u
    BY <1>3, <2>2 DEF DescriptorsMatch
  <2>5. {owner'[t] : t \in Open'} = {owner[t] : t \in Open} \union {c}
    BY <1>3
  <2>6. {d \in Clients : conn'[d] = "accepted"} =
            {d \in Clients : conn[d] = "accepted"} \union {c}
    BY <1>1, <2>3
  <2> QED
    BY <2>4, <2>5, <2>6 DEF DescriptorsMatch
<1>7. BacklogInv'
  <2>1. \A k \in 1..Len(backlog) : backlog[k] \in Clients
    BY <1>1, ElementOfSeq
  <2>2. ASSUME NEW k \in 1..Len(backlog')
        PROVE  /\ k + 1 \in 1..Len(backlog) /\ k \in Nat
               /\ backlog'[k] = backlog[k + 1] /\ backlog'[k] # c
    BY <1>1 DEF BacklogInv
  <2>3. ASSUME NEW k \in 1..Len(backlog') PROVE conn'[backlog'[k]] = "queued"
    <3>1. backlog'[k] \in Clients \ {c} /\ conn[backlog'[k]] = "queued"
      BY <2>1, <2>2 DEF BacklogInv
    <3> QED
      BY <1>2, <3>1 DEF EchoTypeOK
  <2>4. ASSUME NEW j \in 1..Len(backlog'), NEW k \in 1..Len(backlog'),
               backlog'[j] = backlog'[k]
        PROVE  j = k
    <3>1. j + 1 = k + 1
      BY <2>2, <2>4 DEF BacklogInv
    <3> QED
      BY <2>2, <3>1
  <2> QED
    BY <2>3, <2>4 DEF BacklogInv
<1>8. Unserved' /\ Holding'
  BY <1>2, <1>3, <1>4 DEF Unserved, Holding, EchoTypeOK
<1> QED
  BY <1>3, <1>5, <1>6, <1>7, <1>8

LEMMA CloseKeeps ==
    ASSUME KernelInv, NEW s \in Open, Close(s), received <= 0,
           UNCHANGED <<buffer, received>>, errno' \in Errno,
           socket' \in Fds \union {ServerFd}
    PROVE  /\ KernelInv'
           /\ Open' = Open \ {s}
           /\ \A t \in Open' : owner'[t] = owner[t]
<1> USE DEF KernelInv
<1> DEFINE c == owner[s]
<1>1. /\ c \in Clients /\ conn[c] = "accepted"
      /\ conn' = [conn EXCEPT ![c] = "closed"]
  BY DEF Close, EchoTypeOK, DescriptorsMatch
<1>2. \A t \in Open : owner[t] = c => t = s
  BY DEF DescriptorsMatch
<1>3. /\ Open' = Open \ {s} /\ owner' \in [Open' -> Clients]
      /\ \A t \in Open' : owner'[t] = owner[t]
  <2>1. owner' = [t \in Open \ {s} |-> owner[t]] /\ owner \in [Open -> Clients]
    BY DEF Close, EchoTypeOK
  <2> QED
    BY <2>1 DEF Open
<1>4. UNCHANGED <<link, sent, rx, echoed, unread, backlog>>
  BY DEF Close
<1> HIDE DEF c
<1>5. EchoTypeOK'
  BY <1>1, <1>3, <1>4 DEF EchoTypeOK, Errno
<1>6. DescriptorsMatch'
  <2>1. \A t, u \in Open' : owner'[t] = owner'[u] => t = u
    BY <1>3 DEF DescriptorsMatch
  <2>2. \A d \in Clients : conn'[d] = "accepted" <=> conn[d] = "accepted" /\ d # c
    BY <1>1 DEF EchoTypeOK
  <2>3. {owner'[t] : t \in Open'} = {owner[t] : t \in Open} \ {c}
    BY <1>2, <1>3 DEF c
  <2>4. {d \in Clients : conn'[d] = "accepted"} =
            {d \in Clients : conn[d] = "accepted"} \ {c}
    BY <1>1, <2>2
  <2> QED
    BY <2>1, <2>3, <2>4 DEF DescriptorsMatch
<1>7. BacklogInv'
  <2>1. \A k \in 1..Len(backlog) : backlog[k] \in Clients
    BY ElementOfSeq DEF EchoTypeOK
  <2> QED
    BY <1>1, <1>4, <2>1 DEF BacklogInv, EchoTypeOK
<1>8. Unserved' /\ Holding'
  BY <1>1, <1>4 DEF Unserved, Holding, EchoTypeOK
<1> QED
  BY <1>3, <1>5, <1>6, <1>7, <1>8

\* What recv leaves in the buffer: the n bytes it has taken are in front.
LEMMA FilledBuffer ==
    ASSUME EchoTypeOK, NEW c \in Clients, NEW n \in 1..Len(rx[c]),
           n <= kBufferSize
    PROVE  /\ Filled(n, c) \in Seq(Byte)
           /\ Len(Filled(n, c)) <= kBufferSize
           /\ n <= Len(Filled(n, c))
           /\ SubSeq(Filled(n, c), 1, n) = SubSeq(rx[c], 1, n)
<1> DEFINE f == SubSeq(rx[c], 1, n)
           g == SubSeq(buffer, n + 1, Len(buffer))
<1>1. /\ rx[c] \in Seq(Byte) /\ Len(rx[c]) \in Nat
      /\ buffer \in Seq(Byte) /\ Len(buffer) \in Nat /\ Len(buffer) <= kBufferSize
      /\ n \in Nat /\ n >= 1 /\ n <= Len(rx[c]) /\ kBufferSize \in Nat
  BY EchoAssumption, LenProperties DEF EchoTypeOK
<1>2. f \in Seq(Byte) /\ Len(f) = n
  <2>1. Len(f) = IF 1 <= n THEN n ELSE 0
    BY <1>1, FrontIsSeq
  <2> QED
    BY <1>1, <2>1, FrontIsSeq
<1>3. /\ g \in Seq(Byte)
      /\ n <= Len(buffer) => Len(g) = Len(buffer) - n
      /\ n >= Len(buffer) => Len(g) = 0
  BY <1>1, BackIsSeq
<1> HIDE DEF f, g
<1>4. f \o g \in Seq(Byte) /\ Len(f \o g) = Len(f) + Len(g)
  BY <1>2, <1>3, ConcatProperties
<1>5. SubSeq(f \o g, 1, n) = f
  <2>1. n \in 0..Len(f)
    BY <1>1, <1>2
  <2>2. SubSeq(f \o g, 1, n) = SubSeq(f, 1, n)
    BY <1>2, <1>3, <2>1, FrontOfConcat
  <2> QED
    BY <1>2, <2>2, SubSeqFull
<1>6. Filled(n, c) = f \o g
  BY DEF Filled, f, g
<1>7. Len(f \o g) <= kBufferSize /\ n <= Len(f \o g)
  BY <1>1, <1>2, <1>3, <1>4
<1> QED
  BY <1>4, <1>5, <1>6, <1>7 DEF f

\* What is left in the receive queue.
LEMMA Taken ==
    ASSUME EchoTypeOK, NEW c \in Clients, NEW n \in Nat,
           rx' = [rx EXCEPT ![c] = SubSeq(rx[c], n + 1, Len(rx[c]))]
    PROVE  /\ rx' \in [Clients -> Seq(Byte)]
           /\ rx'[c] = SubSeq(rx[c], n + 1, Len(rx[c]))
           /\ \A d \in Clients \ {c} : rx'[d] = rx[d]
<1>1. SubSeq(rx[c], n + 1, Len(rx[c])) \in Seq(Byte)
  BY BackIsSeq DEF EchoTypeOK
<1> QED
  BY <1>1 DEF EchoTypeOK

LEMMA RecvKeeps ==
    ASSUME KernelInv, NEW s, EchoRecv(s)
    PROVE  /\ KernelInv'
           /\ s \in Open /\ received' \in 1..Len(rx[owner[s]])
           /\ SubSeq(buffer', 1, received') = SubSeq(rx[owner[s]], 1, received')
           /\ rx' = [rx EXCEPT ![owner[s]] =
                         SubSeq(rx[owner[s]], received' + 1, Len(rx[owner[s]]))]
<1> USE DEF KernelInv
<1> DEFINE c == owner[s]
           n == Least(kBufferSize, Len(rx[c]))
<1>1. s \in Open /\ c \in Clients /\ Open \subseteq Fds
  BY DEF EchoRecv, EchoTypeOK
<1>2. Len(rx[c]) \in Nat
  BY <1>1, LenProperties DEF EchoTypeOK
<1>3. /\ n > 0 /\ received' = n /\ buffer' = Filled(n, c) /\ socket' = s
      /\ rx' = [rx EXCEPT ![c] = SubSeq(rx[c], n + 1, Len(rx[c]))]
      /\ UNCHANGED <<conn, link, sent, echoed, unread, backlog, owner, errno>>
  BY DEF EchoRecv
<1>4. /\ n \in 1..Len(rx[c]) /\ n <= kBufferSize /\ n \in Nat
      /\ n \in -1..kBufferSize
  BY <1>2, <1>3, EchoAssumption DEF Least
<1> HIDE DEF c, n
<1>5. /\ buffer' \in Seq(Byte) /\ Len(buffer') <= kBufferSize
      /\ n <= Len(buffer') /\ SubSeq(buffer', 1, n) = SubSeq(rx[c], 1, n)
  BY <1>1, <1>3, <1>4, FilledBuffer
<1>6. rx' \in [Clients -> Seq(Byte)]
  BY <1>1, <1>3, <1>4, Taken
<1>7. Open' = Open
  BY <1>3 DEF Open
<1>8. EchoTypeOK'
  BY <1>1, <1>3, <1>4, <1>5, <1>6, <1>7 DEF EchoTypeOK
<1>9. DescriptorsMatch' /\ BacklogInv' /\ Unserved' /\ Holding'
  BY <1>1, <1>3, <1>5, <1>7 DEF DescriptorsMatch, BacklogInv, Unserved, Holding
<1> QED
  BY <1>1, <1>3, <1>4, <1>5, <1>8, <1>9 DEF c

LEMMA RecvFailsKeeps ==
    ASSUME KernelInv, NEW s \in Fds, EchoRecvFails(s)
    PROVE  KernelInv'
<1> USE DEF KernelInv
<1>1. /\ link' \in [Clients -> {"up", "fin", "reset", "dead"}]
      /\ received' = -1 /\ socket' = s /\ errno' = "other"
      /\ UNCHANGED <<conn, sent, rx, echoed, unread, backlog, owner, buffer>>
  BY DEF EchoRecvFails, EchoTypeOK
<1>2. Open' = Open /\ -1 \in -1..kBufferSize /\ ~(-1 > 0)
  BY <1>1, EchoAssumption DEF Open
<1>3. EchoTypeOK'
  BY <1>1, <1>2 DEF EchoTypeOK
<1> QED
  BY <1>1, <1>2, <1>3 DEF DescriptorsMatch, BacklogInv, Unserved, Holding

\* Bytes are put behind the echo of an accepted client, as far as there is room.
LEMMA EchoedKeeps ==
    ASSUME EchoTypeOK, DescriptorsMatch, Unserved, NEW s \in Open,
           NEW q \in Seq(Byte), Len(q) <= Room(owner[s]),
           echoed' = [echoed EXCEPT ![owner[s]] = echoed[owner[s]] \o q],
           unread' = [unread EXCEPT ![owner[s]] = unread[owner[s]] + Len(q)],
           UNCHANGED conn
    PROVE  /\ echoed' \in [Clients -> Seq(Byte)]
           /\ unread' \in [Clients -> 0..SndBuf]
           /\ Unserved'
<1> DEFINE c == owner[s]
<1>1. c \in Clients /\ conn[c] = "accepted"
  BY DEF EchoTypeOK, DescriptorsMatch
<1>2. Len(q) \in Nat
  BY LenProperties
<1>3. echoed[c] \o q \in Seq(Byte)
  BY <1>1, ConcatProperties DEF EchoTypeOK
<1>4. unread[c] + Len(q) \in 0..SndBuf
  BY <1>1, <1>2, EchoAssumption DEF EchoTypeOK, Room
<1> QED
  BY <1>1, <1>3, <1>4 DEF EchoTypeOK, Unserved

LEMMA SendKeeps ==
    ASSUME KernelInv, SendData \/ SendFails,
           received' = 0, socket' = ServerFd, UNCHANGED buffer
    PROVE  KernelInv'
<1> USE DEF KernelInv
<1>1. 0 \in -1..kBufferSize /\ ~(0 > 0)
  BY EchoAssumption
<1>2. UNCHANGED <<conn, sent, rx, backlog, owner>> /\ Open' = Open
  BY DEF SendData, SendFails, Open
<1>3. link' \in [Clients -> {"up", "fin", "reset", "dead"}] /\ errno' \in Errno
  BY DEF SendData, SendFails, EchoTypeOK, Errno
<1>4. /\ echoed' \in [Clients -> Seq(Byte)]
      /\ unread' \in [Clients -> 0..SndBuf]
      /\ Unserved'
  <2>1. CASE SendFails
    BY <1>2, <2>1 DEF SendFails, EchoTypeOK, Unserved
  <2>2. CASE SendData
    <3> DEFINE c == owner[socket]
    <3>1. PICK n \in 1..Least(Len(Message), Room(c)) :
             /\ echoed' = [echoed EXCEPT ![c] = echoed[c] \o SubSeq(Message, 1, n)]
             /\ unread' = [unread EXCEPT ![c] = unread[c] + n]
      BY <2>2 DEF SendData
    <3>2. socket \in Open /\ c \in Clients
      BY <2>2 DEF SendData, EchoTypeOK
    <3>3. Message \in Seq(Byte)
      <4>1. received # -1 => received <= Len(buffer)
        <5>1. received \in Int /\ Len(buffer) \in Nat
          BY EchoAssumption, LenProperties DEF EchoTypeOK
        <5> QED
          BY <5>1 DEF Holding
      <4> QED
        BY <4>1, FrontIsSeq, EchoAssumption DEF Message, EchoTypeOK
    <3>4. Room(c) \in Int /\ Len(Message) \in Nat
      BY <3>2, <3>3, EchoAssumption, LenProperties DEF Room, EchoTypeOK
    <3>5. n \in Nat /\ n >= 1 /\ n <= Len(Message) /\ n <= Room(c)
      BY <3>4 DEF Least
    <3>6. SubSeq(Message, 1, n) \in Seq(Byte) /\ Len(SubSeq(Message, 1, n)) = n
      BY <3>3, <3>5, FrontIsSeq
    <3> HIDE DEF c
    <3> QED
      BY <1>2, <3>1, <3>2, <3>5, <3>6, EchoedKeeps DEF c
  <2> QED
    BY <2>1, <2>2
<1>5. EchoTypeOK'
  BY <1>1, <1>2, <1>3, <1>4 DEF EchoTypeOK, Errno, ServerFd
<1> QED
  BY <1>1, <1>2, <1>4, <1>5 DEF DescriptorsMatch, BacklogInv, Holding
=============================================================================
