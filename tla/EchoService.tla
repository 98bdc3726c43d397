---------------------------- MODULE EchoService -----------------------------
(***************************************************************************)
(* What an echo server promises to its clients, without descriptors,       *)
(* readiness or buffers.  The service may lose bytes (echo() does not      *)
(* retry a failed or short send), a reliable one only those of a client    *)
(* that has ended its connection, and it may go down.  It never invents,   *)
(* repeats or reorders a byte, never mixes two clients, and never closes a *)
(* connection that its client has not ended.                               *)
(***************************************************************************)
EXTENDS Integers, Sequences

CONSTANTS Clients, MaxSent

VARIABLES
    status,     (* [Clients -> "new", "open", "closed"]                    *)
    ended,      (* [Clients -> the client has ended its connection]        *)
    sent,       (* [Clients -> number of bytes written]                    *)
    pending,    (* [Clients -> bytes written and not yet dealt with]       *)
    echoed,     (* [Clients -> bytes sent back]                            *)
    reliable,   (* the service loses no byte of an open connection         *)
    up          (* the service is running                                  *)

vars == <<status, ended, sent, pending, echoed, reliable, up>>

Init ==
    /\ status = [c \in Clients |-> "new"]
    /\ ended = [c \in Clients |-> FALSE]
    /\ sent = [c \in Clients |-> 0]
    /\ pending = [c \in Clients |-> <<>>]
    /\ echoed = [c \in Clients |-> <<>>]
    /\ reliable \in BOOLEAN
    /\ up = TRUE

Connect(c) ==
    /\ status[c] = "new"
    /\ status' = [status EXCEPT ![c] = "open"]
    /\ UNCHANGED <<ended, sent, pending, echoed, up>>

Write(c) ==
    /\ status[c] = "open" /\ ~ended[c]
    /\ sent[c] < MaxSent
    /\ sent' = [sent EXCEPT ![c] = @ + 1]
    /\ pending' = [pending EXCEPT ![c] = Append(@, <<c, sent[c] + 1>>)]
    /\ UNCHANGED <<status, ended, echoed, up>>

End(c) ==
    /\ status[c] = "open"
    /\ ended' = [ended EXCEPT ![c] = TRUE]
    /\ UNCHANGED <<status, sent, pending, echoed, up>>

\* The first n pending bytes are dealt with: m of them are echoed.
Echo(c) ==
    /\ status[c] = "open"
    /\ \E n \in 1..Len(pending[c]) : \E m \in 0..n :
          /\ m < n => ~reliable \/ ended[c]
          /\ echoed' = [echoed EXCEPT ![c] = @ \o SubSeq(pending[c], 1, m)]
          /\ pending' = [pending EXCEPT ![c] = SubSeq(@, n + 1, Len(@))]
    /\ UNCHANGED <<status, ended, sent, up>>

\* Bytes that are still pending may be dropped.
Close(c) ==
    /\ status[c] = "open" /\ ended[c]
    /\ status' = [status EXCEPT ![c] = "closed"]
    /\ \E n \in 0..Len(pending[c]) :
          pending' = [pending EXCEPT ![c] = SubSeq(@, n + 1, Len(@))]
    /\ UNCHANGED <<ended, sent, echoed, up>>

\* The client gives up before it was served.
Abandon(c) ==
    /\ status[c] = "open" /\ echoed[c] = <<>>
    /\ status' = [status EXCEPT ![c] = "closed"]
    /\ ended' = [ended EXCEPT ![c] = TRUE]
    /\ UNCHANGED <<sent, pending, echoed, up>>

GoDown ==
    /\ up' = FALSE
    /\ UNCHANGED <<status, ended, sent, pending, echoed>>

Next ==
    /\ up
    /\ \/ \E c \in Clients : \/ Connect(c) \/ Write(c) \/ End(c) \/ Echo(c)
                             \/ Close(c) \/ Abandon(c)
       \/ GoDown
    /\ UNCHANGED reliable

Spec == Init /\ [][Next]_vars
=============================================================================
