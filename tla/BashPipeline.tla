---------------------------- MODULE BashPipeline ----------------------------
(***************************************************************************)
(* processes_channels_signals/bash_commands.cpp: the commands of a line    *)
(* are run one after the other, each with its standard output in a pipe    *)
(* that becomes the standard input of the next; the last one writes to a   *)
(* file.  main waits for a command before it starts the next, so the whole *)
(* output of a command has to fit into its pipe.                           *)
(*                                                                         *)
(* main leaves a descriptor open for every command, and uses what pipe     *)
(* stored last when no descriptors are left.  Unit j of the output of      *)
(* command i is <<i, j>>.                                                  *)
(***************************************************************************)
EXTENDS UnixProcess, FiniteSets

CONSTANTS
    MaxTokens,      (* bound: tokens of the line                           *)
    Limits,         (* bound: numbers of descriptors left for pipes        *)
    PipeSize,       (* room in a pipe                                      *)
    MaxOutput       (* bound: units that a command writes                  *)

VARIABLES
    tokens,     (* main: tokens, "|" or "word"                             *)
    idx,        (* main: idx                                               *)
    limit,      (* descriptors that were left for pipes at the start       *)
    used,       (* descriptors in use for pipes                            *)
    writable,   (* file_descriptors[1] is open                             *)
    input,      (* what can be read from input_fd                          *)
    prev,       (* the whole output of the command before                  *)
    made,       (* the output of this command so far                       *)
    todo        (* units that this command has still to write              *)

bashVars == <<procVars, tokens, idx, limit, used, writable, input, prev, made,
              todo>>

\* Where commands end: at a bar, and at the end of the line if words precede it.
CommandEnds(line) ==
    {k \in 1..Len(line) : line[k] = "|"} \union
    {k \in {Len(line) + 1} : k > 1 /\ line[k - 1] # "|"}

\* The number of words of each command; the one before a leading bar, and one
\* between two bars, has none.
commands ==
    LET ends   == CommandEnds(tokens)
        end(k) == CHOOSE e \in ends : Cardinality({f \in ends : f <= e}) = k
    IN  [k \in 1..Cardinality(ends) |->
            end(k) - (IF k = 1 THEN 0 ELSE end(k - 1)) - 1]

IsLast == idx = Len(commands) - 1

PipelineInit ==
    /\ tokens \in UNION {[1..n -> {"|", "word"}] : n \in 0..MaxTokens}
    /\ limit \in Limits
    /\ idx = 0
    /\ used = 0
    /\ writable = FALSE
    /\ input = <<>> /\ prev = <<>> /\ made = <<>>
    /\ todo = 0

\* The pipe before the loop; both ends stay open and are not used again.
FirstPipe ==
    /\ parent = "start"
    /\ parent' = "pipe"
    /\ used' = 2
    /\ writable' = TRUE
    /\ UNCHANGED <<child, status, objects, stream, sent, got, run, tokens, idx,
                   limit, input, prev, made, todo>>

\* pipe in the loop.  If it fails the descriptors are those of the last pipe.
pipe ==
    /\ parent = "pipe"
    /\ idx < Len(commands)
    /\ IF used + 2 <= limit
       THEN used' = used + 2 /\ writable' = TRUE /\ stream' = <<>>
       ELSE UNCHANGED <<used, writable, stream>>
    /\ parent' = "fork"
    /\ UNCHANGED <<child, status, objects, sent, got, run, tokens, idx, limit,
                   input, prev, made, todo>>

LoopEnds ==
    /\ parent = "pipe"
    /\ idx = Len(commands)
    /\ parent' = "returned"
    /\ UNCHANGED <<child, status, objects, stream, sent, got, run, tokens, idx,
                   limit, used, writable, input, prev, made, todo>>

fork ==
    /\ Fork("wait", "execvp") \/ ForkFails
    /\ UNCHANGED <<tokens, idx, limit, used, writable, input, prev, made, todo>>

\* The child gets its input and its output, and execvp starts the command.
execvp ==
    /\ child = "execvp"
    /\ commands[idx + 1] > 0
    /\ child' = "command"
    /\ todo' \in 0..MaxOutput
    /\ UNCHANGED <<parent, status, objects, stream, sent, got, run, tokens, idx,
                   limit, used, writable, input, prev, made>>

\* execvp fails: there is no such command, or no word at all.
execvpFails ==
    /\ child = "execvp"
    /\ ChildEnds(ExitStatus(0))
    /\ UNCHANGED <<parent, objects, stream, sent, got, run, tokens, idx, limit,
                   used, writable, input, prev, made, todo>>

\* The command reads its whole input: nobody else has the writing end open.
CommandReads ==
    /\ child = "command"
    /\ idx > 0
    /\ input # <<>>
    /\ input' = <<>>
    /\ UNCHANGED <<parent, child, status, objects, stream, sent, got, run, tokens,
                   idx, limit, used, writable, prev, made, todo>>

Unit == <<idx, Len(made) + 1>>

\* The command writes to the pipe, which must have room, or to the file.  With
\* its standard output closed it cannot write.
CommandWrites ==
    /\ child = "command"
    /\ todo > 0
    /\ \/ /\ IsLast
          /\ UNCHANGED <<stream, made>>
       \/ /\ ~IsLast /\ writable /\ Len(stream) < PipeSize
          /\ stream' = Append(stream, Unit)
          /\ made' = Append(made, Unit)
       \/ /\ ~IsLast /\ ~writable
          /\ UNCHANGED <<stream, made>>
    /\ todo' = todo - 1
    /\ UNCHANGED <<parent, child, status, objects, sent, got, run, tokens, idx,
                   limit, used, writable, input, prev>>

CommandExits ==
    /\ child = "command"
    /\ todo = 0
    /\ ChildEnds(ExitStatus(0))
    /\ UNCHANGED <<parent, objects, stream, sent, got, run, tokens, idx, limit,
                   used, writable, input, prev, made, todo>>

\* Seeded fault: the next command gets the same input again.
NextInputSame == input

\* input_fd = file_descriptors[0]: the new pipe, or the old one if there is none.
NextInput == IF writable THEN stream ELSE input

\* wait(NULL) returns; the writing end is closed and the next command is up.
wait ==
    /\ parent = "wait"
    /\ child = "ended"
    /\ parent' = "pipe"
    /\ child' = "none" /\ status' = Running
    /\ used' = IF writable THEN used - 1 ELSE used
    /\ writable' = FALSE
    /\ input' = NextInput
    /\ idx' = idx + 1
    /\ prev' = made
    /\ made' = <<>>
    /\ UNCHANGED <<objects, stream, sent, got, run, tokens, limit, todo>>

ParentStep   == FirstPipe \/ pipe \/ LoopEnds \/ fork \/ wait
ChildStep    == execvp \/ execvpFails \/ CommandReads \/ CommandWrites
                \/ CommandExits
PipelineNext == ParentStep \/ ChildStep
-----------------------------------------------------------------------------
PipelineTypeOK ==
    /\ parent \in {"start", "pipe", "fork", "wait", "returned", "fork_failed"}
    /\ child \in {"none", "execvp", "command", "ended"}
    /\ idx \in 0..Len(commands)
    /\ used \in 0..limit
    /\ writable \in BOOLEAN
    /\ Len(stream) <= PipeSize
    /\ todo \in 0..MaxOutput

\* A command is started with exactly the output of the one before it as input,
\* whichever commands fail or do not read theirs, as long as the descriptors
\* last: two more than there are commands.
PipelineKeepsData ==
    child = "execvp" /\ idx > 0 /\ Len(commands) + 2 <= limit => input = prev

\* A command fills its pipe, from which nobody reads: main waits for ever.
PipelineStuck ==
    child = "command" /\ todo > 0 /\ ~IsLast /\ writable /\ Len(stream) = PipeSize
=============================================================================
