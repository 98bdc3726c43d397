CONSTANTS
    MaxBufferSize = 5
    Sizes = {1, 2}
    Bytes = {0, 1}
SPECIFICATION Spec
INVARIANTS
    DataIntact
