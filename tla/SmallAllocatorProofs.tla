------------------------ MODULE SmallAllocatorProofs ------------------------
(***************************************************************************)
(* Proofs about the allocator, for every buffer size, every set of         *)
(* positive request sizes and every sequence of calls.                     *)
(***************************************************************************)
EXTENDS SmallAllocator, TLAPS

\* Blocks are not empty, a request in progress asks for something, and ReAlloc
\* remembers the size of the block it was given.
Sizing ==
    /\ \A b \in occupied_blocks : b.size > 0
    /\ \A h \in handles : h.len <= h.size
    /\ pc = "alloc" => request > 0 /\ request \in Sizes
    /\ pc = "idle" => old = {}
    /\ \A h \in old : prev_block_size = h.size

\* The client's pointers are exactly the starts of the occupied blocks.
Matching ==
    /\ occupied_blocks = {BlockOf(h) : h \in handles}
    /\ \A g, h \in handles : g.ptr = h.ptr => g = h

AllocInv == HeapTypeOK /\ Sizing /\ Matching /\ HintSound /\ SearchSound
-----------------------------------------------------------------------------
\* Two blocks of the set never have the same start (the key of the std::set).
LEMMA UniqueStarts ==
    ASSUME AllocInv, NEW b \in occupied_blocks, NEW c \in occupied_blocks,
           b.start = c.start
    PROVE  b = c
<1>1. PICK g \in handles : b = BlockOf(g)
  BY DEF AllocInv, Matching
<1>2. PICK h \in handles : c = BlockOf(h)
  BY DEF AllocInv, Matching
<1>3. g.ptr = h.ptr
  BY <1>1, <1>2 DEF BlockOf
<1> QED
  BY <1>1, <1>2, <1>3 DEF AllocInv, Matching

\* Alloc's test leaves no block that starts at the index it returns, so the
\* insertion into the std::set never fails.
LEMMA FreshStart ==
    ASSUME AllocInv, CanBeOccupied, NEW b \in occupied_blocks
    PROVE  b.start # current_index
<1> SUFFICES ASSUME b.start = current_index PROVE FALSE
  OBVIOUS
<1>1. b \in Block /\ b.size > 0 /\ \A c \in occupied_blocks : c \in Block
  BY DEF AllocInv, HeapTypeOK, Sizing
<1>2. IsLowerBound(b, current_index, occupied_blocks)
  BY <1>1 DEF IsLowerBound, Block
<1>3. GetEnd(b) <= current_index
  BY <1>2 DEF CanBeOccupied
<1> QED
  BY <1>1, <1>3 DEF GetEnd, Block

LEMMA InsertSucceeds ==
    ASSUME AllocInv, CanBeOccupied
    PROVE  Insert(new_block, occupied_blocks) =
               occupied_blocks \union {new_block}
BY FreshStart DEF Insert, new_block

\* find_occupied_block finds the block whose start the pointer is.
LEMMA LookupFindsOwnBlock ==
    ASSUME AllocInv, NEW h \in handles, NEW it,
           IsLowerBound(it, h.ptr, occupied_blocks)
    PROVE  it = BlockOf(h)
<1>1. BlockOf(h) \in occupied_blocks /\ BlockOf(h).start = h.ptr
  BY DEF AllocInv, Matching, BlockOf
<1>2. it \in occupied_blocks /\ it.start = h.ptr
  BY <1>1 DEF IsLowerBound, AllocInv, HeapTypeOK, Block
<1> QED
  BY <1>1, <1>2, UniqueStarts

\* The same lookup after ReAlloc has inserted its new block.
LEMMA LookupAfterInsert ==
    ASSUME AllocInv, CanBeOccupied, pc = "alloc", NEW h \in handles, NEW it,
           IsLowerBound(it, h.ptr, occupied_blocks \union {new_block})
    PROVE  it = BlockOf(h)
<1>1. BlockOf(h) \in occupied_blocks /\ BlockOf(h).start = h.ptr /\ h.ptr \in Nat
  BY DEF AllocInv, Matching, BlockOf, HeapTypeOK, Handle
<1>2. new_block.start # h.ptr
  BY <1>1, FreshStart DEF new_block
<1>3. new_block \in Block
  BY DEF new_block, Block, AllocInv, HeapTypeOK
<1>4. it \in occupied_blocks \union {new_block} /\ it.start = h.ptr
  BY <1>1, <1>3 DEF IsLowerBound, AllocInv, HeapTypeOK, Block
<1>5. it \in occupied_blocks
  BY <1>2, <1>4
<1> QED
  BY <1>1, <1>4, <1>5, UniqueStarts
-----------------------------------------------------------------------------
LEMMA AllocInvInit == Init => AllocInv
BY MaxBufferSizeAssumption, BytesAssumption
   DEF Init, AllocInv, HeapTypeOK, Sizing, Matching, HintSound, SearchSound,
       Index, Block, Handle, GetEnd

\* One lemma per action: it preserves the invariant.
LEMMA AllocPreserves ==
    ASSUME AllocInv, NEW size \in Sizes, Alloc(size)
    PROVE  AllocInv'
BY SizesAssumption
   DEF Alloc, AllocInv, HeapTypeOK, Sizing, Matching, HintSound, SearchSound,
       Covered

LEMMA ReAllocPreserves ==
    ASSUME AllocInv, NEW h \in handles, NEW size \in Sizes, ReAlloc(h, size)
    PROVE  AllocInv'
<1>1. prev_block_size' = h.size /\ prev_block_size' \in Nat
  <2>1. PICK it \in occupied_blocks :
            IsLowerBound(it, h.ptr, occupied_blocks) /\ prev_block_size' = it.size
    BY DEF ReAlloc
  <2> QED
    BY <2>1, LookupFindsOwnBlock DEF BlockOf, AllocInv, HeapTypeOK, Handle
<1> QED
  BY <1>1, SizesAssumption
     DEF ReAlloc, AllocInv, HeapTypeOK, Sizing, Matching, HintSound, SearchSound,
         Covered

LEMMA AllocSkipPreserves ==
    ASSUME AllocInv, AllocSkip
    PROVE  AllocInv'
<1>1. PICK it \in occupied_blocks :
          /\ IsLowerBound(it, current_index, occupied_blocks)
          /\ current_index' = GetEnd(it)
  BY DEF AllocSkip, Behind
<1>2. it \in Block /\ it.start <= current_index /\ GetEnd(it) < MaxBufferSize
  BY <1>1 DEF IsLowerBound, AllocInv, HeapTypeOK
<1>3. HeapTypeOK'
  BY <1>1, <1>2, MaxBufferSizeAssumption
     DEF AllocSkip, AllocInv, HeapTypeOK, Block, GetEnd
<1>4. SearchSound'
  <2> SUFFICES ASSUME NEW i \in 0..(current_index' - 1) PROVE Covered(i)'
    BY DEF SearchSound
  <2>1. CASE i < current_index
    BY <2>1 DEF AllocSkip, AllocInv, SearchSound, Covered, HeapTypeOK
  <2>2. CASE i >= current_index
    <3>1. i \in Cells(it)
      BY <1>1, <1>2, <2>2 DEF Cells, Block, GetEnd, AllocInv, HeapTypeOK
    <3> QED
      BY <3>1 DEF Covered, AllocSkip
  <2> QED
    BY <2>1, <2>2 DEF AllocInv, HeapTypeOK
<1> QED
  BY <1>3, <1>4
     DEF AllocSkip, AllocInv, Sizing, Matching, HintSound, Covered

LEMMA AllocThrowPreserves ==
    ASSUME AllocInv, AllocThrow
    PROVE  AllocInv'
BY MaxBufferSizeAssumption
   DEF AllocThrow, LeaveAlloc, AllocInv, HeapTypeOK, Sizing, Matching, HintSound,
       SearchSound, Covered

\* What both ways of leaving Alloc with a block have in common: the block is
\* well formed and everything below the hint is covered once it is inserted.
LEMMA TakenBlock ==
    ASSUME AllocInv, pc = "alloc", GetEnd(new_block) < MaxBufferSize
    PROVE  /\ new_block \in {b \in Block : GetEnd(b) < MaxBufferSize}
           /\ new_block.size > 0
           /\ HintAfterAlloc \in 0..MaxBufferSize
           /\ \A i \in 0..(HintAfterAlloc - 1) :
                 \E b \in occupied_blocks \union {new_block} : i \in Cells(b)
<1>1. /\ new_block \in Block /\ new_block.size > 0
      /\ new_block.start = current_index
  BY DEF new_block, Block, AllocInv, HeapTypeOK, Sizing
<1>2. HintAfterAlloc \in 0..MaxBufferSize
  BY <1>1, MaxBufferSizeAssumption
     DEF HintAfterAlloc, AllocInv, HeapTypeOK, GetEnd, Block
<1>3. ASSUME NEW i \in 0..(HintAfterAlloc - 1)
      PROVE  \E b \in occupied_blocks \union {new_block} : i \in Cells(b)
  <2>1. CASE i < first_free_index
    BY <2>1 DEF AllocInv, HeapTypeOK, HintSound, Covered
  <2>2. CASE i >= first_free_index
    <3>1. i \in Cells(new_block)
      BY <1>1, <2>2 DEF HintAfterAlloc, Cells, GetEnd, Block, AllocInv, HeapTypeOK
    <3> QED
      BY <3>1
  <2> QED
    BY <2>1, <2>2 DEF AllocInv, HeapTypeOK
<1> QED
  BY <1>1, <1>2, <1>3

LEMMA AllocReturnPreserves ==
    ASSUME AllocInv, AllocReturn
    PROVE  AllocInv'
<1> DEFINE g == [ptr |-> current_index, size |-> request, len |-> 0, byte |-> 0]
<1>1. /\ pc = "alloc" /\ CanBeOccupied /\ GetEnd(new_block) < MaxBufferSize
      /\ occupied_blocks' = occupied_blocks \union {new_block}
      /\ handles' = handles \union {g}
      /\ first_free_index' = HintAfterAlloc
  BY InsertSucceeds DEF AllocReturn
<1>2. BlockOf(g) = new_block /\ g \in Handle
  BY BytesAssumption DEF BlockOf, new_block, Handle, AllocInv, HeapTypeOK
<1>3. HeapTypeOK'
  BY <1>1, <1>2, TakenBlock, MaxBufferSizeAssumption
     DEF AllocReturn, LeaveAlloc, AllocInv, HeapTypeOK
<1>4. Matching'
  <2>1. ASSUME NEW h \in handles PROVE h.ptr # g.ptr
    <3>1. BlockOf(h) \in occupied_blocks /\ BlockOf(h).start = h.ptr
      BY DEF AllocInv, Matching, BlockOf
    <3> QED
      BY <1>1, <3>1, FreshStart
  <2> QED
    BY <1>1, <1>2, <2>1 DEF Matching, AllocInv
<1>5. Sizing'
  BY <1>1, TakenBlock DEF AllocReturn, LeaveAlloc, Sizing, AllocInv, HeapTypeOK
<1>6. HintSound' /\ SearchSound'
  BY <1>1, TakenBlock
     DEF AllocReturn, LeaveAlloc, HintSound, SearchSound, Covered
<1> QED
  BY <1>3, <1>4, <1>5, <1>6 DEF AllocInv

LEMMA ReAllocReturnPreserves ==
    ASSUME AllocInv, ReAllocReturn
    PROVE  AllocInv'
<1>1. /\ pc = "alloc" /\ CanBeOccupied /\ GetEnd(new_block) < MaxBufferSize
      /\ LeaveAlloc
  BY DEF ReAllocReturn
<1>2. PICK h \in old :
          /\ buffer' = Copied(h)
          /\ \E it \in occupied_blocks \union {new_block} :
                /\ IsLowerBound(it, h.ptr, occupied_blocks \union {new_block})
                /\ first_free_index' = HintAfterFree(it, HintAfterAlloc)
                /\ occupied_blocks' =
                       (occupied_blocks \union {new_block}) \ {it}
          /\ handles' = (handles \ {h}) \union
                 {[ptr |-> current_index, size |-> request,
                   len |-> MinOf(h.len, request), byte |-> h.byte]}
  BY <1>1, InsertSucceeds DEF ReAllocReturn
<1> DEFINE g == [ptr |-> current_index, size |-> request,
                 len |-> MinOf(h.len, request), byte |-> h.byte]
<1>3. /\ h \in handles /\ h \in Handle /\ prev_block_size = h.size
      /\ h.ptr \in Nat
  BY DEF AllocInv, HeapTypeOK, Sizing, Handle
<1>4. /\ occupied_blocks' = (occupied_blocks \union {new_block}) \ {BlockOf(h)}
      /\ first_free_index' = MinOf(h.ptr, HintAfterAlloc)
  <2>1. PICK it \in occupied_blocks \union {new_block} :
            /\ IsLowerBound(it, h.ptr, occupied_blocks \union {new_block})
            /\ first_free_index' = HintAfterFree(it, HintAfterAlloc)
            /\ occupied_blocks' = (occupied_blocks \union {new_block}) \ {it}
    BY <1>2
  <2>2. it = BlockOf(h)
    BY <1>1, <1>3, <2>1, LookupAfterInsert
  <2>3. it.start = h.ptr
    BY <2>2 DEF BlockOf
  <2> QED
    BY <2>1, <2>2, <2>3 DEF HintAfterFree
<1>5. BlockOf(g) = new_block /\ g \in Handle /\ g.len <= g.size
  BY <1>3 DEF BlockOf, new_block, Handle, AllocInv, HeapTypeOK, MinOf
<1>6. \A f \in handles : BlockOf(f) \in occupied_blocks /\ f.ptr # g.ptr
  <2>1. ASSUME NEW f \in handles
        PROVE  BlockOf(f) \in occupied_blocks /\ f.ptr # g.ptr
    <3>1. BlockOf(f) \in occupied_blocks /\ BlockOf(f).start = f.ptr
      BY DEF AllocInv, Matching, BlockOf
    <3> QED
      BY <1>1, <3>1, FreshStart
  <2> QED
    BY <2>1
<1>7. HeapTypeOK'
  <2>1. buffer' \in [Index -> Bytes]
    <3> SUFFICES ASSUME NEW i \in Index,
                        i \in current_index ..
                            (current_index + MinOf(request, prev_block_size) - 1)
                 PROVE  buffer[h.ptr + (i - current_index)] \in Bytes
      BY <1>2 DEF Copied, AllocInv, HeapTypeOK
    <3>1. GetEnd(BlockOf(h)) < MaxBufferSize
      BY <1>3, <1>6 DEF AllocInv, HeapTypeOK
    <3>2. h.ptr + (i - current_index) \in Index
      BY <1>3, <3>1, MaxBufferSizeAssumption
         DEF Index, GetEnd, BlockOf, Handle, MinOf, AllocInv, HeapTypeOK
    <3> QED
      BY <3>2 DEF AllocInv, HeapTypeOK
  <2>2. first_free_index' \in 0..MaxBufferSize
    <3>1. HintAfterAlloc \in 0..MaxBufferSize
      BY <1>1, TakenBlock
    <3> QED
      BY <1>3, <1>4, <3>1, MaxBufferSizeAssumption DEF MinOf
  <2> QED
    BY <1>1, <1>2, <1>4, <1>5, <2>1, <2>2, TakenBlock, MaxBufferSizeAssumption
       DEF LeaveAlloc, AllocInv, HeapTypeOK
<1>8. Matching'
  <2>1. handles' = (handles \ {h}) \union {g}
    BY <1>2
  <2>2. ASSUME NEW f \in handles \ {h} PROVE BlockOf(f) # BlockOf(h)
    BY <1>3 DEF AllocInv, Matching, BlockOf
  <2>3. new_block # BlockOf(h)
    BY <1>3, <1>5, <1>6 DEF BlockOf
  <2>4. occupied_blocks' = {BlockOf(f) : f \in handles'}
    BY <1>4, <1>5, <2>1, <2>2, <2>3 DEF AllocInv, Matching
  <2>5. \A e, f \in handles' : e.ptr = f.ptr => e = f
    BY <2>1, <1>6 DEF AllocInv, Matching
  <2> QED
    BY <2>4, <2>5 DEF Matching
<1>9. Sizing'
  BY <1>1, <1>2, <1>4, <1>5, TakenBlock DEF LeaveAlloc, Sizing, AllocInv
<1>10. HintSound' /\ SearchSound'
  <2>1. ASSUME NEW i \in 0..(first_free_index' - 1) PROVE Covered(i)'
    <3>1. i \in 0..(HintAfterAlloc - 1) /\ i < h.ptr
      BY <1>1, <1>3, <1>4, TakenBlock DEF MinOf, Handle
    <3>2. PICK b \in occupied_blocks \union {new_block} : i \in Cells(b)
      BY <1>1, <3>1, TakenBlock
    <3>3. b # BlockOf(h)
      BY <1>3, <3>1, <3>2 DEF Cells, BlockOf, GetEnd, Handle
    <3> QED
      BY <1>4, <3>2, <3>3 DEF Covered
  <2> QED
    BY <1>1, <2>1 DEF HintSound, SearchSound, LeaveAlloc
<1> QED
  BY <1>7, <1>8, <1>9, <1>10 DEF AllocInv

LEMMA FreePreserves ==
    ASSUME AllocInv, NEW h \in handles, Free(h)
    PROVE  AllocInv'
<1>1. h \in Handle
  BY DEF AllocInv, HeapTypeOK
<1>2. /\ occupied_blocks' = occupied_blocks \ {BlockOf(h)}
      /\ first_free_index' = MinOf(h.ptr, first_free_index)
  BY LookupFindsOwnBlock DEF Free, HintAfterFree, BlockOf
<1>3. pc = "idle" /\ old = {}
  BY DEF Free, AllocInv, Sizing
<1>4. HeapTypeOK'
  <2>1. h.ptr \in Nat
    BY <1>1 DEF Handle
  <2>2. first_free_index' \in 0..MaxBufferSize
    BY <1>2, <2>1, MaxBufferSizeAssumption DEF MinOf, AllocInv, HeapTypeOK
  <2> QED
    BY <1>2, <1>3, <2>2 DEF Free, AllocInv, HeapTypeOK
<1>5. Matching'
  <2>1. ASSUME NEW f \in handles \ {h} PROVE BlockOf(f) # BlockOf(h)
    BY DEF AllocInv, Matching, BlockOf
  <2> QED
    BY <1>2, <2>1 DEF Free, AllocInv, Matching
<1>6. Sizing'
  BY <1>2 DEF Free, AllocInv, Sizing
<1>7. HintSound' /\ SearchSound'
  <2>1. ASSUME NEW i \in 0..(first_free_index' - 1) PROVE Covered(i)'
    <3>1. i \in 0..(first_free_index - 1) /\ i < h.ptr
      BY <1>1, <1>2 DEF MinOf, Handle, AllocInv, HeapTypeOK
    <3>2. PICK b \in occupied_blocks : i \in Cells(b)
      BY <3>1 DEF AllocInv, HintSound, Covered
    <3>3. b # BlockOf(h)
      BY <1>1, <3>1, <3>2 DEF Cells, BlockOf, GetEnd, Handle
    <3> QED
      BY <1>2, <3>2, <3>3 DEF Covered
  <2> QED
    BY <1>3, <2>1 DEF HintSound, SearchSound, Free
<1> QED
  BY <1>4, <1>5, <1>6, <1>7 DEF AllocInv

LEMMA FillPreserves ==
    ASSUME AllocInv, NEW h \in handles, NEW byte \in Bytes, Fill(h, byte)
    PROVE  AllocInv'
<1> DEFINE g == [h EXCEPT !.len = h.size, !.byte = byte]
<1>1. /\ h \in Handle /\ g \in Handle /\ g.ptr = h.ptr /\ g.size = h.size
      /\ g.len = g.size
  BY DEF AllocInv, HeapTypeOK, Handle
<1>2. BlockOf(g) = BlockOf(h)
  BY <1>1 DEF BlockOf
<1>3. handles' = (handles \ {h}) \union {g} /\ old = {} /\ old' = {}
  BY DEF Fill, AllocInv, Sizing
<1>4. HeapTypeOK'
  BY <1>1, <1>3 DEF Fill, AllocInv, HeapTypeOK
<1>5. Matching'
  <2>1. occupied_blocks' = {BlockOf(f) : f \in handles'}
    BY <1>2, <1>3 DEF Fill, AllocInv, Matching
  <2>2. \A e, f \in handles' : e.ptr = f.ptr => e = f
    <3> SUFFICES ASSUME NEW e \in handles', NEW f \in handles', e.ptr = f.ptr
                 PROVE  e = f
      OBVIOUS
    <3>1. \A d \in handles \ {h} : d.ptr # h.ptr
      BY DEF AllocInv, Matching
    <3> HIDE DEF g
    <3> QED
      BY <1>1, <1>3, <3>1 DEF AllocInv, Matching
  <2> QED
    BY <2>1, <2>2 DEF Matching
<1>6. Sizing'
  <2>1. g.len <= g.size
    <3> HIDE DEF g
    <3> QED
      BY <1>1 DEF Handle
  <2> HIDE DEF g
  <2> QED
    BY <1>3, <2>1 DEF Fill, AllocInv, Sizing
<1>7. HintSound' /\ SearchSound'
  BY DEF Fill, AllocInv, HintSound, SearchSound, Covered
<1> QED
  BY <1>4, <1>5, <1>6, <1>7 DEF AllocInv
-----------------------------------------------------------------------------
SizesInv == sizes \subseteq Sizes

LEMMA NextPreserves ==
    AllocInv /\ SizesInv /\ [Next]_vars => AllocInv' /\ SizesInv'
<1> SUFFICES ASSUME AllocInv, SizesInv, [Next]_vars
             PROVE  AllocInv' /\ SizesInv'
  OBVIOUS
<1>0. SizesInv'
  BY DEF SizesInv, Next, vars
<1> SUFFICES AllocInv'
  BY <1>0
<1>1. CASE \E size \in Sizes : Alloc(size)
  BY <1>1, AllocPreserves
<1>2. CASE \E h \in handles, size \in Sizes : ReAlloc(h, size)
  BY <1>2, ReAllocPreserves
<1>3. CASE AllocStep
  BY <1>3, AllocSkipPreserves, AllocThrowPreserves, AllocReturnPreserves,
     ReAllocReturnPreserves DEF AllocStep
<1>4. CASE \E h \in handles : Free(h)
  BY <1>4, FreePreserves
<1>5. CASE \E h \in handles, byte \in Bytes : Fill(h, byte)
  BY <1>5, FillPreserves
<1>6. CASE UNCHANGED vars
  BY <1>6 DEF vars, AllocInv, HeapTypeOK, Sizing, Matching, HintSound, SearchSound,
              Covered
<1> QED
  BY <1>1, <1>2, <1>3, <1>4, <1>5, <1>6 DEF Next, SizesInv

\* The inductive invariant holds in every reachable state.
THEOREM AllocInvariant == Spec => [](AllocInv /\ SizesInv)
<1>1. Init => SizesInv
  BY DEF Init, SizesInv
<1> QED
  BY <1>1, AllocInvInit, NextPreserves, PTL DEF Spec

\* Every index and block the allocator computes stays inside the buffer.
THEOREM AllocTypeCorrect == Spec => []TypeOK
<1>1. AllocInv /\ SizesInv => TypeOK
  BY DEF AllocInv, SizesInv, TypeOK
<1> QED
  BY <1>1, AllocInvariant, PTL

\* first_free_index_ never lies: everything below it is occupied.
THEOREM AllocHintSound == Spec => []HintSound
<1>1. AllocInv => HintSound
  BY DEF AllocInv
<1> QED
  BY <1>1, AllocInvariant, PTL

\* find_occupied_block finds exactly the block of the pointer it is given.
THEOREM AllocHandlesAreBlocks == Spec => []HandlesAreBlocks
<1>1. AllocInv => HandlesAreBlocks
  <2> SUFFICES ASSUME AllocInv PROVE HandlesAreBlocks
    OBVIOUS
  <2> QED
    BY LookupFindsOwnBlock DEF HandlesAreBlocks, AllocInv, Matching
<1> QED
  BY <1>1, AllocInvariant, PTL

\* bad_alloc is thrown only when no free run of the requested size is left.
THEOREM AllocThrowsOnlyWhenFull == Spec => ThrowsOnlyWhenFull
<1>1. ASSUME AllocInv, AllocThrow PROVE ~HasRoom(request)
  <2> SUFFICES ASSUME NEW s \in Index, s + request < MaxBufferSize,
                      \A i \in s..(s + request - 1) : ~Covered(i)
               PROVE  FALSE
    BY DEF HasRoom
  <2>1. /\ request \in Nat /\ request > 0 /\ current_index \in Nat
        /\ pc = "alloc" /\ s \in Nat
        /\ current_index + request >= MaxBufferSize
    BY <1>1, MaxBufferSizeAssumption
       DEF AllocThrow, AllocInv, HeapTypeOK, Sizing, GetEnd, new_block, Index
  <2>2. s \in 0..(current_index - 1) /\ s \in s..(s + request - 1)
    BY <2>1, MaxBufferSizeAssumption
  <2>3. Covered(s)
    BY <1>1, <2>1, <2>2 DEF AllocInv, SearchSound
  <2> QED
    BY <2>2, <2>3
<1>2. AllocInv /\ [Next]_vars => [AllocThrow => ~HasRoom(request)]_vars
  BY <1>1
<1> QED
  BY <1>2, AllocInvariant, PTL DEF Spec, ThrowsOnlyWhenFull
-----------------------------------------------------------------------------
(***************************************************************************)
(* A client of one size only.  Alloc looks at no block above the index it  *)
(* returns, so blocks can overlap when sizes are mixed (run alloc_overlap).*)
(* With one size S every start is a multiple of S, which is what keeps the *)
(* blocks apart.                                                           *)
(***************************************************************************)
Multiples(S) == {k * S : k \in Nat}

Aligned(S) ==
    /\ first_free_index \in Multiples(S)
    /\ pc = "alloc" => current_index \in Multiples(S) /\ request = S
    /\ \A b \in occupied_blocks : b.size = S /\ b.start \in Multiples(S)

LEMMA MultiplesFacts ==
    ASSUME NEW S \in Nat \ {0}
    PROVE  /\ 0 \in Multiples(S)
           /\ \A m \in Multiples(S) : m \in Nat /\ m + S \in Multiples(S)
           /\ \A m, n \in Multiples(S) : m < n => m + S <= n
<1>1. 0 * S = 0
  OBVIOUS
<1>2. ASSUME NEW k \in Nat PROVE k * S \in Nat /\ k * S + S = (k + 1) * S
  OBVIOUS
<1>3. ASSUME NEW j \in Nat, NEW k \in Nat, j * S < k * S
      PROVE  j * S + S <= k * S
  <2>1. j < k
    <3>1. CASE j >= k
      <4>1. PICK d \in Nat : j = k + d
        <5>1. j - k \in Nat /\ j = k + (j - k)
          BY <3>1
        <5> QED
          BY <5>1
      <4>2. j * S = k * S + d * S /\ d * S \in Nat
        BY <4>1
      <4> QED
        BY <1>2, <1>3, <4>2
    <3> QED
      BY <3>1
  <2>2. PICK d \in Nat : k = j + 1 + d
    <3>1. k - j - 1 \in Nat /\ k = j + 1 + (k - j - 1)
      BY <2>1
    <3> QED
      BY <3>1
  <2>3. k * S = j * S + S + d * S /\ d * S \in Nat
    BY <2>2
  <2> QED
    BY <1>2, <2>3
<1>4. 0 \in Multiples(S)
  BY <1>1 DEF Multiples
<1>5. ASSUME NEW m \in Multiples(S) PROVE m \in Nat /\ m + S \in Multiples(S)
  <2>1. PICK k \in Nat : m = k * S
    BY DEF Multiples
  <2>2. (k + 1) * S \in Multiples(S)
    BY DEF Multiples
  <2> QED
    BY <1>2, <2>1, <2>2
<1>6. ASSUME NEW m \in Multiples(S), NEW n \in Multiples(S), m < n
      PROVE  m + S <= n
  <2>1. PICK j \in Nat : m = j * S
    BY DEF Multiples
  <2>2. PICK k \in Nat : n = k * S
    BY DEF Multiples
  <2> QED
    BY <1>3, <1>6, <2>1, <2>2
<1> QED
  BY <1>4, <1>5, <1>6

LEMMA AlignedInit ==
    ASSUME NEW S \in Nat \ {0}, Init
    PROVE  Aligned(S)
BY MultiplesFacts DEF Init, Aligned

LEMMA AlignedNext ==
    ASSUME NEW S \in Nat \ {0}, sizes = {S}, AllocInv, Aligned(S), [Next]_vars
    PROVE  Aligned(S)'
<1>1. ASSUME NEW size \in sizes, Alloc(size) PROVE Aligned(S)'
  BY <1>1 DEF Alloc, Aligned
<1>2. ASSUME NEW h \in handles, NEW size \in sizes, ReAlloc(h, size)
      PROVE  Aligned(S)'
  BY <1>2 DEF ReAlloc, Aligned
<1>3. CASE AllocSkip
  BY <1>3, MultiplesFacts DEF AllocSkip, Aligned, Behind, GetEnd
<1>4. CASE AllocThrow
  BY <1>4 DEF AllocThrow, LeaveAlloc, Aligned
<1>5. ASSUME pc = "alloc", GetEnd(new_block) < MaxBufferSize
      PROVE  /\ new_block.size = S /\ new_block.start \in Multiples(S)
             /\ HintAfterAlloc \in Multiples(S)
  BY <1>5, MultiplesFacts
     DEF new_block, GetEnd, HintAfterAlloc, Aligned, AllocInv, Sizing
<1>6. CASE AllocReturn
  BY <1>5, <1>6 DEF AllocReturn, LeaveAlloc, Insert, Aligned
<1>7. CASE ReAllocReturn
  BY <1>5, <1>7
     DEF ReAllocReturn, LeaveAlloc, Insert, Aligned, HintAfterFree, MinOf
<1>8. ASSUME NEW h \in handles, Free(h) PROVE Aligned(S)'
  BY <1>8 DEF Free, Aligned, HintAfterFree, MinOf
<1>9. ASSUME NEW h \in handles, NEW byte \in Bytes, Fill(h, byte)
      PROVE  Aligned(S)'
  BY <1>9 DEF Fill, Aligned
<1>10. CASE UNCHANGED vars
  BY <1>10 DEF vars, Aligned
<1> QED
  BY <1>1, <1>2, <1>3, <1>4, <1>6, <1>7, <1>8, <1>9, <1>10 DEF Next, AllocStep

LEMMA AlignedBlocksDisjoint ==
    ASSUME NEW S \in Nat \ {0}, AllocInv, Aligned(S)
    PROVE  Disjoint
<1> SUFFICES ASSUME NEW g \in handles, NEW h \in handles, g # h, NEW i,
                    i \in Cells(BlockOf(g)), i \in Cells(BlockOf(h))
             PROVE  FALSE
  BY DEF Disjoint
<1>1. /\ g.size = S /\ g.ptr \in Multiples(S)
      /\ h.size = S /\ h.ptr \in Multiples(S)
  BY DEF Aligned, AllocInv, Matching, BlockOf
<1>2. g.ptr # h.ptr /\ g.ptr \in Nat /\ h.ptr \in Nat
  BY DEF AllocInv, Matching, HeapTypeOK, Handle
<1>3. g.ptr + S <= h.ptr \/ h.ptr + S <= g.ptr
  <2>1. \A m, n \in Multiples(S) : m < n => m + S <= n
    BY MultiplesFacts
  <2>2. g.ptr < h.ptr \/ h.ptr < g.ptr
    BY <1>2
  <2>3. g.ptr < h.ptr => g.ptr + S <= h.ptr
    BY ONLY <1>1, <2>1
  <2>4. h.ptr < g.ptr => h.ptr + S <= g.ptr
    BY ONLY <1>1, <2>1
  <2> QED
    BY <2>2, <2>3, <2>4
<1> QED
  BY <1>1, <1>2, <1>3 DEF Cells, BlockOf, GetEnd

\* A client of one size keeps everything aligned to that size.
AlignedInv == \A S \in Sizes : sizes = {S} => Aligned(S)

\* The two properties of such a client are invariants together.
OneSizeInv == AllocInv /\ SizesInv /\ AlignedInv

LEMMA OneSizeInvImplies == OneSizeInv => NoOverlap
<1> SUFFICES ASSUME OneSizeInv, NEW S \in Sizes, sizes = {S} PROVE Disjoint
  BY DEF NoOverlap, OneSize
<1>1. S \in Nat \ {0} /\ Aligned(S) /\ AllocInv
  BY SizesAssumption DEF OneSizeInv, AlignedInv
<1> QED
  BY <1>1, AlignedBlocksDisjoint

\* The alignment is kept by every step.
LEMMA OneSizeInvariant == Spec => []OneSizeInv
<1>1. Init => AlignedInv
  BY SizesAssumption, AlignedInit DEF AlignedInv
<1>2. AllocInv /\ SizesInv /\ AlignedInv /\ [Next]_vars => AlignedInv'
  <2> SUFFICES ASSUME AllocInv, SizesInv, AlignedInv, [Next]_vars,
                      NEW S \in Sizes, sizes' = {S}
               PROVE  Aligned(S)'
    BY DEF AlignedInv
  <2>1. sizes = {S}
    BY DEF Next, vars
  <2>2. S \in Nat \ {0} /\ Aligned(S)
    BY <2>1, SizesAssumption DEF AlignedInv
  <2> QED
    BY <2>1, <2>2, AlignedNext
<1> QED
  BY <1>1, <1>2, AllocInvariant, PTL DEF Spec, OneSizeInv

\* A client of one size never holds two blocks that share a byte, for every
\* buffer size and every sequence of Alloc, ReAlloc and Free.
THEOREM AllocNoOverlap == Spec => []NoOverlap
BY OneSizeInvImplies, OneSizeInvariant, PTL

LEMMA HandleFacts ==
    ASSUME AllocInv, NEW f \in handles
    PROVE  /\ f.ptr \in Nat /\ f.len \in Nat /\ f.size \in Nat
           /\ f.len <= f.size /\ f.ptr + f.size < MaxBufferSize
           /\ BlockOf(f) \in occupied_blocks
           /\ Cells(BlockOf(f)) = f.ptr .. (f.ptr + f.size - 1)
<1>1. /\ f.ptr \in Nat /\ f.len \in Nat /\ f.size \in Nat
      /\ f.len <= f.size /\ BlockOf(f) \in occupied_blocks
  BY DEF AllocInv, HeapTypeOK, Sizing, Matching, Handle
<1>2. BlockOf(f).start = f.ptr /\ BlockOf(f).size = f.size
  BY DEF BlockOf
<1>3. GetEnd(BlockOf(f)) < MaxBufferSize
  BY <1>1 DEF AllocInv, HeapTypeOK
<1> QED
  BY <1>1, <1>2, <1>3 DEF GetEnd, Cells

\* Blocks that do not overlap keep their contents, across every step.
LEMMA DataIntactNext ==
    ASSUME AllocInv, Disjoint, Disjoint', DataIntact, [Next]_vars
    PROVE  DataIntact'
<1>1. ASSUME handles' = handles, buffer' = buffer PROVE DataIntact'
  BY <1>1 DEF DataIntact
<1>2. CASE AllocReturn
  BY <1>2 DEF AllocReturn, DataIntact
<1>3. CASE ReAllocReturn
  <2>1. PICK h \in old :
            /\ buffer' = Copied(h)
            /\ handles' = (handles \ {h}) \union
                   {[ptr |-> current_index, size |-> request,
                     len |-> MinOf(h.len, request), byte |-> h.byte]}
    BY <1>3 DEF ReAllocReturn
  <2> DEFINE g == [ptr |-> current_index, size |-> request,
                   len |-> MinOf(h.len, request), byte |-> h.byte]
  <2>2. /\ h \in handles /\ h.ptr \in Nat /\ h.len \in Nat /\ h.size \in Nat
        /\ h.len <= h.size /\ prev_block_size = h.size
        /\ current_index \in Nat /\ request \in Nat /\ pc = "alloc"
        /\ current_index + request < MaxBufferSize
    BY <1>3 DEF ReAllocReturn, AllocInv, HeapTypeOK, Sizing, Handle, GetEnd,
                new_block
  <2>3. ASSUME NEW i \in 0..(g.len - 1) PROVE buffer'[g.ptr + i] = g.byte
    <3>1. i \in Nat /\ i < h.len /\ i < request
      BY <2>2 DEF MinOf
    <3>2. /\ current_index + i \in Index
          /\ current_index + i \in current_index ..
                (current_index + MinOf(request, prev_block_size) - 1)
          /\ h.ptr + ((current_index + i) - current_index) = h.ptr + i
      BY <2>2, <3>1, MaxBufferSizeAssumption DEF Index, MinOf
    <3>3. buffer'[current_index + i] = buffer[h.ptr + i]
      BY <2>1, <3>2 DEF Copied
    <3> QED
      BY <2>2, <3>1, <3>3 DEF DataIntact
  <2>4. ASSUME NEW f \in handles \ {h}, NEW i \in 0..(f.len - 1)
        PROVE  buffer'[f.ptr + i] = f.byte
    <3>1. /\ f \in handles /\ f \in handles' /\ g \in handles'
          /\ f.ptr \in Nat /\ f.len \in Nat /\ f.size \in Nat /\ f.len <= f.size
          /\ BlockOf(f) \in occupied_blocks /\ i \in Nat /\ i < f.len
      BY <2>1, HandleFacts
    <3>2. f.ptr # current_index
      BY <1>3, <3>1, FreshStart DEF ReAllocReturn, BlockOf
    <3>3. Cells(BlockOf(f)) \intersect Cells(BlockOf(g)) = {}
      BY <3>1, <3>2 DEF Disjoint
    <3>4. /\ f.ptr + i \in Cells(BlockOf(f))
          /\ Cells(BlockOf(g)) = current_index .. (current_index + request - 1)
          /\ f.ptr + f.size < MaxBufferSize
      <4>1. /\ Cells(BlockOf(f)) = f.ptr .. (f.ptr + f.size - 1)
            /\ f.ptr + f.size < MaxBufferSize
        BY <3>1, HandleFacts
      <4>2. f.ptr + i \in f.ptr .. (f.ptr + f.size - 1)
        BY <3>1
      <4>3. Cells(BlockOf(g)) = current_index .. (current_index + request - 1)
        BY <2>2 DEF Cells, BlockOf, GetEnd
      <4> QED
        BY <4>1, <4>2, <4>3
    <3>5. /\ f.ptr + i \in Index
          /\ f.ptr + i \notin current_index ..
                (current_index + MinOf(request, prev_block_size) - 1)
      <4>1. f.ptr + i \in Index
        BY <3>1, <3>4, MaxBufferSizeAssumption DEF Index
      <4>2. f.ptr + i \notin current_index .. (current_index + request - 1)
        BY <3>3, <3>4
      <4> QED
        BY <2>2, <3>1, <4>1, <4>2 DEF MinOf
    <3>6. buffer'[f.ptr + i] = buffer[f.ptr + i]
      BY <2>1, <3>5 DEF Copied
    <3> QED
      BY <3>1, <3>6 DEF DataIntact
  <2> QED
    BY <2>1, <2>3, <2>4 DEF DataIntact
<1>4. ASSUME NEW h \in handles, Free(h) PROVE DataIntact'
  BY <1>4 DEF Free, DataIntact
<1>5. ASSUME NEW h \in handles, NEW byte \in Bytes, Fill(h, byte)
      PROVE  DataIntact'
  <2> DEFINE g == [h EXCEPT !.len = h.size, !.byte = byte]
  <2>1. /\ handles' = (handles \ {h}) \union {g}
        /\ buffer' = [i \in Index |->
                IF i \in Cells(BlockOf(h)) THEN byte ELSE buffer[i]]
    BY <1>5 DEF Fill
  <2>2. ASSUME NEW f \in handles
        PROVE  /\ f.ptr \in Nat /\ f.len \in Nat /\ f.size \in Nat
               /\ f.len <= f.size /\ f.ptr + f.size < MaxBufferSize
               /\ Cells(BlockOf(f)) = f.ptr .. (f.ptr + f.size - 1)
    BY HandleFacts
  <2>3. /\ g.ptr = h.ptr /\ g.len = h.size /\ g.byte = byte
    BY DEF AllocInv, HeapTypeOK, Handle
  <2>4. ASSUME NEW i \in 0..(g.len - 1) PROVE buffer'[g.ptr + i] = g.byte
    <3>1. g.ptr + i \in Index /\ g.ptr + i \in Cells(BlockOf(h))
      BY <2>2, <2>3, MaxBufferSizeAssumption DEF Index
    <3> QED
      BY <2>1, <2>3, <3>1
  <2>5. ASSUME NEW f \in handles \ {h}, NEW i \in 0..(f.len - 1)
        PROVE  buffer'[f.ptr + i] = f.byte
    <3>1. f.ptr + i \in Index /\ f.ptr + i \in Cells(BlockOf(f))
      BY <2>2, MaxBufferSizeAssumption DEF Index
    <3>2. f.ptr + i \notin Cells(BlockOf(h))
      BY <3>1 DEF Disjoint
    <3> QED
      BY <2>1, <3>1, <3>2 DEF DataIntact
  <2> QED
    BY <2>1, <2>4, <2>5 DEF DataIntact
<1> QED
  BY <1>1, <1>2, <1>3, <1>4, <1>5
     DEF Next, AllocStep, Alloc, ReAlloc, AllocSkip, AllocThrow, vars

\* What a client of one size wrote to a block stays there until it frees the
\* block or writes to it again.
THEOREM AllocDataIntact == Spec => []OneSizeDataIntact
<1>1. Init => OneSizeDataIntact
  BY DEF Init, DataIntact, OneSizeDataIntact
<1>2. AllocInv /\ NoOverlap /\ NoOverlap' /\ OneSizeDataIntact /\ [Next]_vars
          => OneSizeDataIntact'
  <2> SUFFICES ASSUME AllocInv, NoOverlap, NoOverlap', OneSizeDataIntact,
                      [Next]_vars, OneSize'
               PROVE  DataIntact'
    BY DEF OneSizeDataIntact
  <2>1. OneSize
    BY DEF OneSize, Next, vars
  <2>2. Disjoint /\ DataIntact
    BY <2>1 DEF NoOverlap, OneSizeDataIntact
  <2>3. Disjoint'
    BY DEF NoOverlap
  <2> QED
    BY <2>2, <2>3, DataIntactNext
<1> QED
  BY <1>1, <1>2, AllocInvariant, AllocNoOverlap, PTL DEF Spec

\* Alloc's loop makes progress: an iteration that stays in it moves the index up
\* and keeps it inside the buffer, so the loop ends.
THEOREM AllocSearchAdvances == Spec => SearchAdvances
<1>1. ASSUME AllocInv, AllocSkip
      PROVE  current_index' > current_index /\ current_index' < MaxBufferSize
  <2>1. PICK it \in occupied_blocks :
            /\ IsLowerBound(it, current_index, occupied_blocks)
            /\ current_index' = GetEnd(it)
    BY <1>1 DEF AllocSkip, Behind
  <2>2. PICK b \in occupied_blocks :
            /\ IsLowerBound(b, current_index, occupied_blocks)
            /\ ~(GetEnd(b) <= current_index)
    BY <1>1 DEF AllocSkip, CanBeOccupied
  <2>3. b.start = it.start /\ b \in Block /\ it \in Block
    BY <1>1, <2>1, <2>2 DEF IsLowerBound, AllocInv, HeapTypeOK, Block
  <2>4. b = it
    BY <1>1, <2>3, UniqueStarts
  <2>5. GetEnd(it) \in Nat /\ GetEnd(it) < MaxBufferSize /\ current_index \in Nat
    BY <1>1, <2>3 DEF AllocInv, HeapTypeOK, Block, GetEnd
  <2> QED
    BY <2>1, <2>2, <2>4, <2>5
<1>2. AllocInv /\ [Next]_vars =>
          [pc = "alloc" /\ pc' = "alloc" =>
              current_index' > current_index /\ current_index' < MaxBufferSize]_vars
  BY <1>1 DEF Next, Alloc, ReAlloc, AllocStep, AllocThrow, AllocReturn,
              ReAllocReturn, LeaveAlloc, Free, Fill
<1> QED
  BY <1>2, AllocInvariant, PTL DEF Spec, SearchAdvances
=============================================================================
