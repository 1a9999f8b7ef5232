CONSTANTS
    Byte = {a, b}
    Zero = Zero
    Chunk = 2
    Extra = 2
    MaxPut = 3
    MaxLen = 6
    GrowAnyhow = FALSE
SYMMETRY Symmetry
SPECIFICATION Spec
CHECK_DEADLOCK FALSE
INVARIANTS IndicesInOrder
PROPERTY ImplementsQueue
