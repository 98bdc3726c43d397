--------------------------- MODULE SmallAllocator ---------------------------
(***************************************************************************)
(* The heap of containers_allocators/allocator.cpp: a fixed buffer, the    *)
(* std::set of occupied blocks and a hint to the first free index.         *)
(*                                                                         *)
(* Alloc's search loop is modelled one iteration per step (pc = "alloc"),  *)
(* because its length is data dependent; every other operation is one      *)
(* step.  The client is part of the model: it keeps the pointers it was    *)
(* given, fills its blocks, and reallocates or frees only pointers that it *)
(* holds, as main() does.                                                  *)
(***************************************************************************)
EXTENDS Integers

CONSTANTS
    MaxBufferSize,  (* MAX_BUFFER_SIZE                                     *)
    Sizes,          (* the sizes a client may ask for                      *)
    Bytes           (* the values the client fills its blocks with         *)

ASSUME MaxBufferSizeAssumption == MaxBufferSize \in Nat \ {0}
ASSUME SizesAssumption == Sizes \subseteq Nat \ {0}
ASSUME BytesAssumption == 0 \in Bytes

VARIABLES
    sizes,              (* the sizes this client asks for                  *)
    buffer,             (* buffer_                                         *)
    first_free_index,   (* first_free_index_                               *)
    occupied_blocks,    (* occupied_blocks_, a set ordered by start        *)
    pc,                 (* "idle", or "alloc" inside Alloc's loop          *)
    current_index,      (* Alloc: current_index                            *)
    request,            (* Alloc: Size                                     *)
    prev_block_size,    (* ReAlloc: prev_block_size                        *)
    old,                (* ReAlloc: {the handle passed in}; Alloc: {}      *)
    handles             (* the client's pointers and what it wrote there   *)

vars == <<sizes, buffer, first_free_index, occupied_blocks, pc, current_index,
          request, prev_block_size, old, handles>>

Index  == 0..(MaxBufferSize - 1)
Block  == [start : Nat, size : Nat]
Handle == [ptr : Nat, size : Nat, len : Nat, byte : Bytes]

MinOf(a, b) == IF a <= b THEN a ELSE b

GetEnd(block) == block.start + block.size

\* A handle's block, as the allocator should know it.
BlockOf(h) == [start |-> h.ptr, size |-> h.size]

Cells(block) == block.start .. (GetEnd(block) - 1)

(***************************************************************************)
(* std::set::lower_bound under memory_blocks_comparator.  The comparator   *)
(* orders by the NEGATED start, so the first element that is not less than *)
(* the probe is the block with the greatest start at or below the index.   *)
(* (The strict form is a seeded fault: it misses the block AT the index.)  *)
(***************************************************************************)
IsLowerBoundStrict(it, index, blocks) ==
    /\ it \in blocks
    /\ it.start < index
    /\ \A b \in blocks : b.start < index => b.start <= it.start

IsLowerBound(it, index, blocks) ==
    /\ it \in blocks
    /\ it.start <= index
    /\ \A b \in blocks : b.start <= index => b.start <= it.start

\* std::set::insert: a block whose key (its start) is present is not inserted.
Insert(block, blocks) ==
    IF \E b \in blocks : b.start = block.start THEN blocks
                                               ELSE blocks \union {block}

new_block == [start |-> current_index, size |-> request]

\* Seeded fault: the search does not look at the blocks at all.
CanBeOccupiedUnchecked == TRUE

\* Alloc's can_be_occupied: only the block at or below current_index is looked at.
CanBeOccupied ==
    \A it \in occupied_blocks :
        IsLowerBound(it, current_index, occupied_blocks) =>
            GetEnd(it) <= current_index

\* Seeded faults: the search resumes where the block found begins, or a block
\* too far.
BehindIsStart(it) == it.start
BehindTwice(it) == GetEnd(it) + it.size

\* Where the search resumes when the block found is in the way.
Behind(it) == GetEnd(it)

HintAfterAlloc ==
    IF first_free_index = current_index THEN GetEnd(new_block)
                                        ELSE first_free_index

\* Seeded faults: Free sets the hint whatever it was, or leaves it alone.
HintAfterFreeOverwritten(it, hint) == it.start
HintAfterFreeForgotten(it, hint) == hint

HintAfterFree(it, hint) == MinOf(it.start, hint)

\* Seeded fault: ReAlloc does not copy.
CopiedNothing(h) == buffer

\* ReAlloc's memcpy of the old contents to the new block.
Copied(h) ==
    [i \in Index |->
        IF i \in current_index ..
                 (current_index + MinOf(request, prev_block_size) - 1)
        THEN buffer[h.ptr + (i - current_index)] ELSE buffer[i]]
-----------------------------------------------------------------------------
Init ==
    /\ sizes \in SUBSET Sizes \ {{}}
    /\ buffer = [i \in Index |-> 0]
    /\ first_free_index = 0
    /\ occupied_blocks = {}
    /\ pc = "idle"
    /\ current_index = 0
    /\ request = 0
    /\ prev_block_size = 0
    /\ old = {}
    /\ handles = {}

\* The client calls Alloc(Size).
Alloc(size) ==
    /\ pc = "idle"
    /\ pc' = "alloc"
    /\ request' = size
    /\ current_index' = first_free_index
    /\ old' = {}
    /\ UNCHANGED <<buffer, first_free_index, occupied_blocks,
                   prev_block_size, handles>>

\* The client calls ReAlloc(Pointer, Size), which calls Alloc(Size).
ReAlloc(h, size) ==
    /\ pc = "idle"
    /\ pc' = "alloc"
    /\ \E it \in occupied_blocks :
          /\ IsLowerBound(it, h.ptr, occupied_blocks)
          /\ prev_block_size' = it.size
    /\ request' = size
    /\ current_index' = first_free_index
    /\ old' = {h}
    /\ UNCHANGED <<buffer, first_free_index, occupied_blocks, handles>>

\* The loop's last line: the place is taken, look behind the block found.
AllocSkip ==
    /\ pc = "alloc"
    /\ GetEnd(new_block) < MaxBufferSize
    /\ ~CanBeOccupied
    /\ \E it \in occupied_blocks :
          /\ IsLowerBound(it, current_index, occupied_blocks)
          /\ current_index' = Behind(it)
    /\ UNCHANGED <<buffer, first_free_index, occupied_blocks, pc, request,
                   prev_block_size, old, handles>>

\* Control is back at the client; the locals of Alloc and ReAlloc are gone.
LeaveAlloc ==
    /\ pc' = "idle"
    /\ current_index' = 0
    /\ request' = 0
    /\ prev_block_size' = 0
    /\ old' = {}

\* std::bad_alloc; a ReAlloc in progress is abandoned with its block untouched.
AllocThrow ==
    /\ pc = "alloc"
    /\ GetEnd(new_block) >= MaxBufferSize
    /\ LeaveAlloc
    /\ UNCHANGED <<buffer, first_free_index, occupied_blocks, handles>>

\* Alloc returns to the client.
AllocReturn ==
    /\ pc = "alloc"
    /\ old = {}
    /\ GetEnd(new_block) < MaxBufferSize
    /\ CanBeOccupied
    /\ first_free_index' = HintAfterAlloc
    /\ occupied_blocks' = Insert(new_block, occupied_blocks)
    /\ handles' = handles \union
           {[ptr |-> current_index, size |-> request, len |-> 0, byte |-> 0]}
    /\ LeaveAlloc
    /\ UNCHANGED buffer

\* Alloc returns to ReAlloc, which copies the contents and frees the old block.
ReAllocReturn ==
    /\ pc = "alloc"
    /\ GetEnd(new_block) < MaxBufferSize
    /\ CanBeOccupied
    /\ \E h \in old :
          /\ buffer' = Copied(h)
          /\ \E it \in Insert(new_block, occupied_blocks) :
                /\ IsLowerBound(it, h.ptr, Insert(new_block, occupied_blocks))
                /\ first_free_index' = HintAfterFree(it, HintAfterAlloc)
                /\ occupied_blocks' = Insert(new_block, occupied_blocks) \ {it}
          /\ handles' = (handles \ {h}) \union
                 {[ptr |-> current_index, size |-> request,
                   len |-> MinOf(h.len, request), byte |-> h.byte]}
    /\ LeaveAlloc

\* The client calls Free(Pointer).
Free(h) ==
    /\ pc = "idle"
    /\ \E it \in occupied_blocks :
          /\ IsLowerBound(it, h.ptr, occupied_blocks)
          /\ first_free_index' = HintAfterFree(it, first_free_index)
          /\ occupied_blocks' = occupied_blocks \ {it}
    /\ handles' = handles \ {h}
    /\ UNCHANGED <<buffer, pc, current_index, request, prev_block_size, old>>

\* The client fills a block it holds, as main() does with its arrays.
Fill(h, byte) ==
    /\ pc = "idle"
    /\ buffer' = [i \in Index |-> IF i \in Cells(BlockOf(h)) THEN byte
                                                             ELSE buffer[i]]
    /\ handles' = (handles \ {h}) \union
                      {[h EXCEPT !.len = h.size, !.byte = byte]}
    /\ UNCHANGED <<first_free_index, occupied_blocks, pc, current_index,
                   request, prev_block_size, old>>

AllocStep == AllocSkip \/ AllocThrow \/ AllocReturn \/ ReAllocReturn

Next ==
    /\ \/ \E size \in sizes : Alloc(size)
       \/ \E h \in handles, size \in sizes : ReAlloc(h, size)
       \/ AllocStep
       \/ \E h \in handles : Free(h)
       \/ \E h \in handles, byte \in Bytes : Fill(h, byte)
    /\ UNCHANGED sizes

Spec == Init /\ [][Next]_vars
-----------------------------------------------------------------------------
(***************************************************************************)
(* Properties                                                              *)
(***************************************************************************)
HeapTypeOK ==
    /\ buffer \in [Index -> Bytes]
    /\ first_free_index \in 0..MaxBufferSize
    /\ occupied_blocks \subseteq {b \in Block : GetEnd(b) < MaxBufferSize}
    /\ pc \in {"idle", "alloc"}
    /\ current_index \in 0..MaxBufferSize
    /\ request \in Nat
    /\ prev_block_size \in Nat
    /\ handles \subseteq Handle
    /\ old \subseteq handles

TypeOK == sizes \subseteq Sizes /\ HeapTypeOK

Covered(i) == \E b \in occupied_blocks : i \in Cells(b)

\* The search of Alloc starts at the hint and never looks below it, so
\* everything below the hint must be occupied, after any Alloc, ReAlloc, Free.
HintSound == \A i \in 0..(first_free_index - 1) : Covered(i)

\* Inside Alloc's loop nothing free has been passed over.
SearchSound == pc = "alloc" => \A i \in 0..(current_index - 1) : Covered(i)

\* find_occupied_block looks up a block by a pointer with lower_bound: for every
\* pointer the client holds that must be exactly its own block, and the set
\* must hold no other block.
HandlesAreBlocks ==
    /\ occupied_blocks = {BlockOf(h) : h \in handles}
    /\ \A h \in handles, it \in occupied_blocks :
          IsLowerBound(it, h.ptr, occupied_blocks) => it = BlockOf(h)
    /\ \A g, h \in handles : g.ptr = h.ptr => g = h

HasRoom(size) ==
    \E s \in Index : /\ s + size < MaxBufferSize
                     /\ \A i \in s..(s + size - 1) : ~Covered(i)

\* Alloc throws bad_alloc only if there is no free run of the requested size
\* (that leaves the buffer's last byte alone): the hint and the jumps of the
\* search never hide one.
ThrowsOnlyWhenFull == [][AllocThrow => ~HasRoom(request)]_vars

\* No two blocks the client holds share a byte of the buffer.
Disjoint ==
    \A g, h \in handles :
        g # h => Cells(BlockOf(g)) \intersect Cells(BlockOf(h)) = {}

\* What the client wrote to a block is still there, whatever was allocated,
\* reallocated, freed or written elsewhere: the checks "ERROR 1" to "ERROR 7"
\* of main() in allocator.cpp.
DataIntact ==
    \A h \in handles : \A i \in 0..(h.len - 1) : buffer[h.ptr + i] = h.byte

OneSize == \E s \in Sizes : sizes = {s}

\* A client that asks for one size only never gets two blocks that share a byte:
\* Alloc looks at no block above the index it returns, but all starts are
\* multiples of that size.
NoOverlap == OneSize => Disjoint

\* What such a client wrote to a block is still there until it frees the block
\* or writes to it again: ReAlloc copies it, and nothing else touches it.
OneSizeDataIntact == OneSize => DataIntact

\* Alloc's while (true) loop ends: an iteration that does not leave it moves
\* current_index up, below the end of the buffer, and in the loop some step is
\* always possible (there is no deadlock).
SearchAdvances ==
    [][pc = "alloc" /\ pc' = "alloc" =>
            current_index' > current_index /\ current_index' < MaxBufferSize]_vars
=============================================================================
