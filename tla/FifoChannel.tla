---------------------------- MODULE FifoChannel -----------------------------
(***************************************************************************)
(* processes_channels_signals/fifo_channel.cpp: main creates two fifos and *)
(* copies what it reads from in.fifo to out.fifo until the writer has      *)
(* closed.  The writer and the reader are other processes, independent of  *)
(* each other.  Opening an end of a fifo waits for the other end.  The     *)
(* fifos outlive the process.                                              *)
(***************************************************************************)
EXTENDS UnixProcess

CONSTANTS
    kFifoBuffer,    (* kBufferSize                                         *)
    FifoSize,       (* room in a fifo                                      *)
    MaxWritten      (* bound: bytes that the writer writes in a run        *)

VARIABLES
    writer,     (* the process at in.fifo: "away", "opening", "open",      *)
    reader,     (*   "closed"; the process at out.fifo                     *)
    fds,        (* which of input and output are open                      *)
    buffer,     (* bytes read and not yet written                          *)
    written,    (* bytes the writer has written                            *)
    unread,     (* bytes in out.fifo                                       *)
    leftover    (* history: the fifos that were there when the run began   *)

fifoVars  == <<procVars, writer, reader, fds, buffer, written, unread, leftover>>
copyVars  == <<buffer, written, unread>>
childVars == <<child, status, sent, run>>

FifoInit ==
    /\ writer = "away" /\ reader = "away"
    /\ fds = {}
    /\ buffer = <<>>
    /\ written = 0 /\ unread = 0
    /\ leftover = {}

\* Seeded fault: a fifo that exists is as good as a new one.
mkfifoOrFind(from, name, next) ==
    /\ parent = from
    /\ objects' = objects \union {name}
    /\ parent' = next
    /\ UNCHANGED <<childVars, stream, got, writer, reader, fds, copyVars>>

\* mkfifo fails if the name exists; the fifo made before is not removed then.
mkfifo(from, name, next) ==
    /\ parent = from
    /\ \/ name \notin objects /\ objects' = objects \union {name}
          /\ parent' = next
       \/ UNCHANGED objects /\ parent' = "mkfifo_failed"
    /\ UNCHANGED <<childVars, stream, got, writer, reader, fds, copyVars>>

\* open waits for the other side.
OpenInput ==
    /\ parent = "open_in"
    /\ writer = "opening"
    /\ writer' = "open"
    /\ fds' = fds \union {"input"}
    /\ parent' = "open_out"
    /\ UNCHANGED <<childVars, objects, stream, got, reader, copyVars>>

OpenOutput ==
    /\ parent = "open_out"
    /\ reader = "opening"
    /\ reader' = "open"
    /\ fds' = fds \union {"output"}
    /\ parent' = "read"
    /\ UNCHANGED <<childVars, objects, stream, got, writer, copyVars>>

\* open fails, which main does not notice.
OpenFails ==
    /\ \/ parent = "open_in" /\ parent' = "open_out"
       \/ parent = "open_out" /\ parent' = "read"
    /\ UNCHANGED <<childVars, objects, stream, got, writer, reader, fds, copyVars>>

\* Seeded fault: read takes all there is.
Unbounded(n) == n

\* At most kBufferSize bytes are read at a time.
Shorter(n) == IF n <= kFifoBuffer THEN n ELSE kFifoBuffer

\* read returns bytes, 0 when the writer has closed, or fails without an input.
Read ==
    /\ parent = "read"
    /\ LET n == Shorter(Len(stream))
       IN  \/ /\ "input" \in fds /\ n > 0
              /\ buffer' = SubSeq(stream, 1, n)
              /\ stream' = SubSeq(stream, n + 1, Len(stream))
              /\ parent' = "write"
           \/ /\ "input" \in fds /\ n = 0 /\ writer = "closed"
              /\ parent' = "unlink_returned"
              /\ UNCHANGED <<buffer, stream>>
           \/ /\ "input" \notin fds
              /\ parent' = "unlink_failed"
              /\ UNCHANGED <<buffer, stream>>
    /\ UNCHANGED <<childVars, objects, got, writer, reader, fds, written, unread>>

\* read fails on an open input, interrupted for example.
ReadFails ==
    /\ parent = "read"
    /\ parent' = "unlink_failed"
    /\ UNCHANGED <<childVars, objects, stream, got, writer, reader, fds, copyVars>>

\* write waits for room.  Without an open output the bytes are lost; without a
\* reader SIGPIPE ends the process.
Write ==
    /\ parent = "write"
    /\ \/ /\ "output" \in fds /\ reader = "open"
          /\ unread + Len(buffer) <= FifoSize
          /\ got' = got \o buffer
          /\ unread' = unread + Len(buffer)
          /\ parent' = "read"
       \/ /\ "output" \notin fds
          /\ parent' = "read"
          /\ UNCHANGED <<got, unread>>
       \/ /\ "output" \in fds /\ reader = "closed"
          /\ parent' = "killed"
          /\ UNCHANGED <<got, unread>>
    /\ buffer' = <<>>
    /\ UNCHANGED <<childVars, objects, stream, writer, reader, fds, written>>

\* Seeded fault: the second fifo is not removed.
UnlinkedFirst == objects \ {"in.fifo"}

Unlinked == objects \ {"in.fifo", "out.fifo"}

\* Both ends are closed and both fifos removed, whichever way the loop ended.
CloseAndUnlink ==
    /\ \/ parent = "unlink_returned" /\ parent' = "returned"
       \/ parent = "unlink_failed" /\ parent' = "failed"
    /\ fds' = {}
    /\ objects' = Unlinked
    /\ UNCHANGED <<childVars, stream, got, writer, reader, copyVars>>

MainStep ==
    \/ mkfifo("start", "in.fifo", "mkfifo_out")
    \/ mkfifo("mkfifo_out", "out.fifo", "open_in")
    \/ OpenInput \/ OpenOutput \/ Read \/ Write \/ CloseAndUnlink
-----------------------------------------------------------------------------
(***************************************************************************)
(* The processes at the other ends, the user                               *)
(***************************************************************************)
Arrive ==
    /\ \/ writer = "away" /\ "in.fifo" \in objects /\ writer' = "opening"
          /\ UNCHANGED reader
       \/ reader = "away" /\ "out.fifo" \in objects /\ reader' = "opening"
          /\ UNCHANGED writer
    /\ UNCHANGED <<procVars, fds, copyVars>>

WriterWrites ==
    /\ writer = "open" /\ ~ParentEnded
    /\ written < MaxWritten /\ Len(stream) < FifoSize
    /\ written' = written + 1
    /\ stream' = Append(stream, written + 1)
    /\ UNCHANGED <<parent, childVars, objects, got, writer, reader, fds, buffer,
                   unread>>

WriterCloses ==
    /\ writer = "open"
    /\ writer' = "closed"
    /\ UNCHANGED <<procVars, reader, fds, copyVars>>

ReaderTakes ==
    /\ reader = "open" /\ unread > 0
    /\ unread' = unread - 1
    /\ UNCHANGED <<procVars, writer, reader, fds, buffer, written>>

ReaderCloses ==
    /\ reader = "open"
    /\ reader' = "closed"
    /\ UNCHANGED <<procVars, writer, fds, copyVars>>

\* What the processes at the other ends do unless they are stopped.
PeerStep == Arrive \/ WriterCloses \/ ReaderTakes

FifoNext ==
    \/ /\ \/ MainStep \/ OpenFails \/ ReadFails
          \/ PeerStep \/ WriterWrites \/ ReaderCloses
          \/ Interrupt /\ UNCHANGED <<writer, reader, fds, copyVars>>
       /\ UNCHANGED leftover
    \/ /\ Restart(<<>>)
       /\ writer' = "away" /\ reader' = "away" /\ fds' = {}
       /\ buffer' = <<>> /\ written' = 0 /\ unread' = 0
       /\ leftover' = objects
-----------------------------------------------------------------------------
FifoTypeOK ==
    /\ parent \in {"start", "mkfifo_out", "open_in", "open_out", "read", "write",
                   "unlink_returned", "unlink_failed", "returned", "failed",
                   "mkfifo_failed", "killed"}
    /\ writer \in {"away", "opening", "open", "closed"}
    /\ reader \in {"away", "opening", "open", "closed"}
    /\ fds \subseteq {"input", "output"}
    /\ Len(buffer) <= kFifoBuffer
    /\ written \in 0..MaxWritten /\ unread \in 0..FifoSize
    /\ leftover \subseteq {"in.fifo", "out.fifo"}

\* While main runs with both ends open, the bytes written to in.fifo are, in
\* order, those in out.fifo or taken from it, those in the buffer and those
\* still in in.fifo; at a normal end all of them have got to out.fifo.
FifoKeepsBytes ==
    /\ fds = {"input", "output"} /\ ~ParentEnded =>
           got \o buffer \o stream = [k \in 1..written |-> k]
    /\ parent = "unlink_returned" /\ "output" \in fds => Len(got) = written

\* A run that has made both fifos and is not killed removes them, also when read
\* fails.  One whose mkfifo fails leaves nothing of its own but in.fifo.
FifoNothingLeft ==
    /\ parent \in {"returned", "failed"} => objects = {}
    /\ parent = "mkfifo_failed" => objects \ leftover \subseteq {"in.fifo"}

\* A fifo that one run has left stays for ever: no later run gets past its first
\* mkfifo, and none removes it.
LeftoverFifosStay ==
    leftover # {} => /\ objects = leftover
                     /\ parent \in {"start", "mkfifo_failed", "killed"}
=============================================================================
