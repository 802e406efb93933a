SPECIFICATION Spec
CONSTANTS
    Threads = {t1, t2}
    Chunks = {c1, c2, c3}
    NoChunk = NoChunk
    Buffers = {b1, b2}
    NoBuffer = NoBuffer
    Int16Max = 3
    HeaderSize = 1
    PayloadSizes = {1, 2, 3, 4}
    MaxHolders = 2
SYMMETRY Symmetry
INVARIANTS BytesIntact OnePlace EndsOnlyOversized
CHECK_DEADLOCK FALSE
