CONSTANTS
    MaxBufferSize = 7
    Sizes = {2, 3}
    Bytes = {0, 1}
SPECIFICATION Spec
INVARIANTS
    TypeOK
    HintSound
    HandlesAreBlocks
    NoOverlap
    OneSizeDataIntact
PROPERTIES
    ThrowsOnlyWhenFull
    SearchAdvances
