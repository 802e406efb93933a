SPECIFICATION Spec
CONSTANTS
    idA = idA
    idB = idB
    Sessions = {s1, s2}
    IoThreads = {w1, w2}
    NoId = NoId
    Ids = {idA, idB, NoId}
    NoThread = NoThread
    NoPacket = NoPacket
    MaxPackets = 3
SYMMETRY Symmetry
CHECK_DEADLOCK FALSE
INVARIANTS NoGhostPlayer
