CONSTANTS
    Byte = {a, b}
    Zero = Zero
    Chunk = 2
    Extra = 2
    MaxPut = 3
    MaxLen = 5
    GrowAnyhow = TRUE
SPECIFICATION Spec
CHECK_DEADLOCK FALSE
PROPERTY ImplementsQueue
