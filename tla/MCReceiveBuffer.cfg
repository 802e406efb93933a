SPECIFICATION RecvSpec
CONSTANTS
    Size = 4
    Factor = 3
    PacketHeaderSize = 2
    PacketSizes = {2, 3, 4, 6}
    MaxPackets = 5
CHECK_DEADLOCK FALSE
INVARIANTS BacklogIntact WholePackets
